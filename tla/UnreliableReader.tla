-------------------------- MODULE UnreliableReader --------------------------
(***************************************************************************)
(* The lossy, delaying reader of test520 (unreliable_reader.go), of which  *)
(* test522 is an earlier copy.  A reader wraps a source and decides the    *)
(* fate of every message from a counter of Read calls, so its losses are   *)
(* deterministic.  The operators below describe one pass of Read; a        *)
(* recursive call of Read is simply the next pass.                         *)
(*                                                                         *)
(* The counter is used modulo 10 only, and is kept modulo 10 here.         *)
(***************************************************************************)
EXTENDS Naturals

CONSTANT NoMsg       \* "no message": a nil delay buffer, an empty hand

Period == 10

\* Mutant: the fifth call drops too.
FateLossier(c) ==
    CASE c \in {2, 4, 8}          -> "delay"
      [] c \in {0, 1, 3, 5, 6, 7} -> "drop"
      [] OTHER                    -> "pass"

\* What Read does with the call that takes the counter to c.
Fate(c) ==
    CASE c \in {2, 4, 8}       -> "delay"
      [] c \in {0, 1, 3, 6, 7} -> "drop"
      [] OTHER                 -> "pass"

Tick(c) == (c + 1) % Period

(***************************************************************************)
(* The four outcomes of a pass, as guards on the counter c before the      *)
(* call and the delay buffer d.  The first three take one message from     *)
(* the source (and wait until there is one); the last takes none.          *)
(***************************************************************************)
Passes(c, d)  == Fate(Tick(c)) = "pass"
Drops(c, d)   == Fate(Tick(c)) = "drop"
Stores(c, d)  == Fate(Tick(c)) = "delay" /\ d = NoMsg
Returns(c, d) == Fate(Tick(c)) = "delay" /\ d # NoMsg
=============================================================================
