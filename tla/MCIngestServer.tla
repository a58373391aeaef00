---------------------------- MODULE MCIngestServer ----------------------------
(* Model-checking root for the host ingest; the configurations give the       *)
(* constants their values.                                                    *)
EXTENDS IngestServer
=============================================================================
