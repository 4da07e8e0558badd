-------------------------- MODULE MCEntryLifecycle --------------------------
(* Two entries, one of them legacy, and one request that opens the library.  *)
EXTENDS EntryLifecycle
=============================================================================
