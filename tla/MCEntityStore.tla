--------------------------- MODULE MCEntityStore ----------------------------
(* The transactions are interchangeable, and so are the names.  The rows      *)
(* behind the end of the ledger are never read as long as StoresAgree holds.  *)
EXTENDS EntityStore, TLC

MCSymmetry == Permutations(Txs) \cup Permutations(Names)
MCView == <<SubSeq(file, 1, header.last), header, db, dbHeader, batch, memory, phase, chain,
            dropped, bounds>>
=============================================================================
