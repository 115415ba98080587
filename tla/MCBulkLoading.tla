------------------------------ MODULE MCBulkLoading ------------------------------
(* Up to three rows and two columns, a transform that holds back after four       *)
(* chunks: the values are in the configuration.                                   *)
EXTENDS BulkLoading
==================================================================================
