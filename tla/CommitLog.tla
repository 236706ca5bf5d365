----------------------------- MODULE CommitLog -----------------------------
(***************************************************************************)
(* What the shared catalog promises to the runtimes that sync through it:  *)
(* a log that only grows, and for every client the part of it that client  *)
(* has integrated.  A client may learn any amount at a time, but the       *)
(* commits of one author in one scope reach it in the order in which the   *)
(* author numbered them: the prefix it holds has no holes.                 *)
(*                                                                         *)
(* Authors and scopes in `excused' are those for which the promise has     *)
(* been given up; module Catalog says exactly what makes that happen.      *)
(***************************************************************************)
EXTENDS Naturals

CONSTANTS Clients, Scopes

VARIABLES
  log,      \* the commits made visible so far
  known,    \* known[p]: the commits client p has integrated
  excused   \* pairs <<author, scope>> whose order is no longer promised

logVars == <<log, known, excused>>

\* The commits with the numbering the promise is about.
SameStream(c, d) == c.author = d.author /\ c.scope = d.scope

\* K, held by client p, has no hole in a stream of another author.
Prefix(p, K, L, X) ==
  \A c \in K, d \in L :
    /\ SameStream(c, d)
    /\ d.counter < c.counter
    /\ c.author # p
    /\ <<c.author, c.scope>> \notin X
    => d \in K

LogInit ==
  /\ log = {}
  /\ known = [p \in Clients |-> {}]
  /\ excused = {}

\* An author appends commits numbered above all its earlier ones of the scope.
Publish ==
  /\ log \subseteq log'
  /\ \A c \in log' \ log, d \in log :
       SameStream(c, d) /\ <<c.author, c.scope>> \notin excused => d.counter < c.counter
  /\ UNCHANGED <<known, excused>>

\* Client p, and no other, holds a new part of the log, again without holes.
\* The step may give up the promise for some streams, never restore it.
Holds(p) ==
  /\ \A q \in Clients \ {p} : known'[q] = known[q]
  /\ known'[p] \subseteq log
  /\ excused \subseteq excused'
  /\ Prefix(p, known'[p], log, excused')
  /\ UNCHANGED log

\* A client integrates commits it has loaded.
Learn(p) == known[p] \subseteq known'[p] /\ Holds(p)

\* A restarted client falls back to what it had saved.
Restart(p) == known'[p] \subseteq known[p] /\ Holds(p)

LogNext == Publish \/ \E p \in Clients : Learn(p) \/ Restart(p)

LogSpec == LogInit /\ [][LogNext]_logVars

============================================================================
