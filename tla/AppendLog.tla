------------------------------ MODULE AppendLog ------------------------------
(***************************************************************************)
(* What a durable journal promises of the record it keeps on disk: entries *)
(* are only ever added at the end, each under a sequence above all those   *)
(* before it.  No step, a restart included, rewrites or renumbers one.     *)
(***************************************************************************)
EXTENDS Naturals, Sequences

CONSTANT Entry   (* entries carry their sequence in the field seq *)

VARIABLE log

LogInit == log = <<>>

Add(e) ==
  /\ \A i \in DOMAIN log : log[i].seq < e.seq
  /\ log' = Append(log, e)

LogSpec == LogInit /\ [][\E e \in Entry : Add(e)]_log

=============================================================================
