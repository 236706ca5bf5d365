-------------------------- MODULE Reconcile_proofs -------------------------
(***************************************************************************)
(* Proofs about Reconcile, for any clients, contents, kinds of hosts,      *)
(* bounds and any finite set of resources.                                 *)
(*                                                                         *)
(* None of the properties is inductive: a call acts on what it listed,     *)
(* read and planned some steps ago, while users edit the replica and other *)
(* clients publish.  IndInv says what of it can be relied on: a record of  *)
(* a resource is true as long as its version token is the resource's       *)
(* (Sighted); a plan is still the planner's decision for what was listed   *)
(* and what the client knows (CallInv); a batch is made over the heads the *)
(* client knows, and of new numbers (BatchInv); what is in memory or on    *)
(* disk is a sound view of the graph (SoundState).                         *)
(***************************************************************************)
EXTENDS Reconcile, Planner_proofs, NaturalSets, TLAPS

---------------------------------------------------------------------------
(* The inductive invariant.                                                *)

\* What record r says of a resource is true of resource f, unless its version
\* has moved on.
Sighted(f, r) ==
  /\ r.version <= f.version
  /\ r.version = f.version /\ r.state # Missing => r.state = f.state

\* With P published and the authors in X rewound, state m is a sound view: its
\* baselines were shared with replica f, which has had the states h, and it has
\* the commits that its cursors are past.
SoundState(m, f, h, P, X) ==
  /\ m.commits \subseteq P
  /\ \A k \in Keys :
       LET b == m.baselines[k]
       IN  /\ b.state # NoBaseline => Value(b.state) \in h[k] /\ b.state \in ContentsIn(m.commits, k)
           /\ IsPresent(b.state) => Sighted(f[k], b)
  /\ \A a \in Clients :
       m.cursors[a] = 0 \/ \E c \in P : c.id.author = a /\ c.id.counter = m.cursors[a]
  /\ \A c \in P :
       c.id.author \notin X /\ c.id.counter <= m.cursors[c.id.author] => c \in m.commits

\* The published commits: their numbers are bounded and used once, and they build
\* on published commits.
GraphInv ==
  /\ \E n \in Nat : \A c \in published : c.id.counter <= n
  /\ \A c, d \in published : c.id = d.id => c = d
  /\ \A c \in published :
       LET a == c.id.author
       IN  /\ c.id.counter > 0 /\ c.id.life <= life[a]
           /\ c.id.life = life[a] \/ a \notin rewound => c.id.counter <= mem[a].counter
           /\ \A i \in c.parents : \E d \in published : d.id = i

HostInv(p) ==
  \A k \in Keys :
    /\ Missing \in held[p][k] /\ Value(file[p][k].state) \in held[p][k]
    /\ Value(listing[p][k].state) \in held[p][k]
    /\ Sighted(file[p][k], listing[p][k])

StatesInv(p) ==
  /\ SoundState(mem[p], file[p], held[p], published, rewound)
  /\ SoundState(disk[p], file[p], held[p], published, rewound)

\* A commit of p's batch.
NewInv(p, b) ==
  LET c == b.commit
  IN  /\ c.id.author = p /\ c.id.life = life[p]
      /\ c.id.counter > 0 /\ c.id.counter <= mem[p].counter
      /\ c.parents = Heads(mem[p].commits, c.key)
      /\ \A d \in mem[p].commits : c.id # d.id /\ c.id \notin d.parents
      /\ Value(c.change) \in held[p][c.key]
      /\ IsPresent(c.change) =>
           Sighted(file[p][c.key], [state |-> c.change, version |-> b.version])
      /\ pc[p] = "publish" =>
           \A d \in published :
             /\ d.id # c.id
             /\ p \notin rewound /\ d.id.author = p => d.id.counter < c.id.counter
      /\ pc[p] = "integrate" => c \in published

BatchInv(p) ==
  /\ batch[p] # {} => pc[p] \in {"publish", "integrate"}
  /\ \A b \in batch[p] : NewInv(p, b)
  /\ \A b, d \in batch[p] : b.commit.id = d.commit.id \/ b.commit.key = d.commit.key => b = d
  /\ \A b \in batch[p] :
       IF job[p] = NoJob THEN plan[p][b.commit.key] \in {Op("Upload"), Op("PublishDelete")}
       ELSE b.commit.key = job[p].key
  /\ job[p] # NoJob /\ pc[p] \in {"publish", "integrate"} => batch[p] # {}

JobInv(p) ==
  LET j == job[p]
      f == file[p][j.key]
  IN  /\ j.copy # NoCopy => j.target # j.key
      /\ Sighted(f, j.current)
      /\ j.copy = KeepLocal /\ j.copied # NoCopy /\ j.current.version = f.version
           => j.copied = f.state

CallInv(p) ==
  /\ pc[p] = "user" => job[p] # NoJob
  /\ job[p] # NoJob => pc[p] \in {"user", "publish", "integrate", "save"} /\ JobInv(p)
  /\ \A k \in Keys :
       /\ plan[p][k] # Op("Noop") =>
            pc[p] \in {"read", "publish", "integrate", "save", "apply"} /\ job[p] = NoJob
       /\ pc[p] = "read" \/ plan[p][k] \in Mutations \cup Records
            => plan[p][k] = Planned(p, k, listing[p][k])

ClientInv(p) == HostInv(p) /\ StatesInv(p) /\ BatchInv(p) /\ CallInv(p)

IndInv == TypeOK /\ GraphInv /\ \A p \in Clients : ClientInv(p)

\* What p's scan found of an author are the commits above the cursor up to some
\* number, whatever was published since.
ScanInv(p) ==
  /\ scan[p].found \subseteq published
  /\ \A d \in scan[p].found : \A c \in published :
       /\ c.id.author = d.id.author /\ c.id.author \notin rewound
       /\ c.id.counter > mem[p].cursors[c.id.author] /\ c.id.counter <= d.id.counter
       => c \in scan[p].found

ScansInv == \A p \in Clients : ScanInv(p)

---------------------------------------------------------------------------
(* States, resources and records of them.                                  *)

\* Contents and deletions are what a baseline can be.
LEMMA ChangeFacts ==
  /\ Change = BaselineState(Contents)
  /\ \A s \in Change : IsPresent(s) \/ s = Deleted
  /\ \A s \in ReplicaState(Contents) : IsPresent(s) => s \in Change
  /\ \A s \in ReplicaState(Contents) : Value(s) \in ReplicaState(Contents)
  /\ Value(Missing) = Missing /\ Value(Deleted) = Missing
  /\ \A s : IsPresent(s) => Value(s) = s
BY Presence DEF Change, BaselineState, ReplicaState, PresentStates, Value

\* The requests that are no change of a resource.
LEMMA RequestTags ==
  /\ KeepLocal.state = "Local" /\ NoCopy.state = "-"
  /\ KeepLocal # NoCopy /\ KeepLocal \notin Change /\ NoCopy \notin Change
  /\ ~IsPresent(KeepLocal) /\ ~IsPresent(NoCopy)
<1>1. KeepLocal.state = "Local" /\ NoCopy.state = "-"
  BY DEF KeepLocal, NoCopy
<1>2. \A s \in Change : s.state \in {"Present", "Deleted"}
  BY StateTags DEF Change, PresentStates
<1> QED BY <1>1, <1>2 DEF IsPresent

LEMMA NoJobFacts == NoJob \notin Job /\ \A j \in Job : j.call \in {"resolve", "rollback"}
<1>1. NoJob.call = "-"
  BY DEF NoJob
<1> QED BY <1>1 DEF Job

LEMMA SightedFile == ASSUME NEW f \in Resource PROVE Sighted(f, f) /\ Sighted(f, Nothing)
<1>1. Nothing.version = 0 /\ Nothing.state = Missing /\ f.version \in Nat
  BY DEF Nothing, Resource
<1> QED BY <1>1 DEF Sighted

\* A record stays true while the resource stays as it is or gets a new version.
LEMMA SightedStable ==
  ASSUME NEW f \in Resource, NEW g \in Resource, NEW r, r.version \in Nat,
         Sighted(f, r), g = f \/ g.version > f.version
  PROVE  Sighted(g, r)
<1>1. f.version \in Nat /\ g.version \in Nat
  BY DEF Resource
<1> QED BY <1>1 DEF Sighted

---------------------------------------------------------------------------
(* The commit graph.                                                       *)

LEMMA HeadsFacts ==
  ASSUME NEW C, C \subseteq Commit, NEW k \in Keys
  PROVE  /\ Heads(C, k) \subseteq Id
         /\ HeadCommits(C, k) \subseteq C
         /\ \A i \in Heads(C, k) : \E c \in C : c.id = i /\ c.key = k /\ c \in HeadCommits(C, k)
BY DEF Heads, HeadCommits, ResourceCommits, Commit

\* remote_state is one of the remote states; content or a deletion is what every
\* head has.
LEMMA RemoteStateFacts ==
  ASSUME NEW C, C \subseteq Commit, NEW k \in Keys
  PROVE  /\ RemoteState(C, k) \in RemoteResourceState(Contents)
         /\ RemoteState(C, k) = Missing => HeadCommits(C, k) = {}
         /\ RemoteState(C, k) \in Change =>
              /\ RemoteState(C, k) \in ContentsIn(C, k)
              /\ \A c \in HeadCommits(C, k) : c.change = RemoteState(C, k)
<1> DEFINE changes == {c.change : c \in HeadCommits(C, k)}
<1>1. changes \subseteq Change /\ changes \subseteq ContentsIn(C, k)
  BY DEF HeadCommits, ResourceCommits, ContentsIn, Commit
<1>2. Missing \notin Change /\ Forked \notin Change
      /\ Change \cup {Missing, Forked} = RemoteResourceState(Contents)
      /\ Missing # Forked
  BY Presence, Distinct DEF Change, RemoteResourceState
<1>3. CASE changes = {}
  BY <1>2, <1>3 DEF RemoteState
<1>4. CASE changes # {} /\ \A x, y \in changes : x = y
  <2>1. RemoteState(C, k) = CHOOSE x \in changes : TRUE
    BY <1>4 DEF RemoteState
  <2>2. RemoteState(C, k) \in changes
    BY <1>4, <2>1
  <2> QED BY <1>1, <1>2, <1>4, <2>2
<1>5. CASE changes # {} /\ ~(\A x, y \in changes : x = y)
  <2>1. RemoteState(C, k) = Forked
    BY <1>5 DEF RemoteState
  <2> QED BY <1>2, <2>1
<1> QED BY <1>3, <1>4, <1>5

\* What others publish to other resources does not change a resource.
LEMMA RemoteStateLocal ==
  ASSUME NEW C, NEW D, NEW k, \A d \in D : d.key # k
  PROVE  RemoteState(C \cup D, k) = RemoteState(C, k) /\ Heads(C \cup D, k) = Heads(C, k)
<1>1. ResourceCommits(C \cup D, k) = ResourceCommits(C, k)
  BY DEF ResourceCommits
<1> QED BY <1>1 DEF RemoteState, Heads, HeadCommits

\* A commit over all heads is the only head.
LEMMA RemoteStateAfter ==
  ASSUME NEW C, NEW c, c.parents = Heads(C, c.key),
         \A d \in C : c.id # d.id /\ c.id \notin d.parents
  PROVE  RemoteState(C \cup {c}, c.key) = c.change
<1> DEFINE k == c.key
           R == ResourceCommits(C, k)
<1>1. ResourceCommits(C \cup {c}, k) = R \cup {c} /\ R \subseteq C
  BY DEF ResourceCommits
<1>2. c.id \notin c.parents
  BY DEF Heads, HeadCommits, ResourceCommits
<1>3. \A d \in R : d \notin HeadCommits(C \cup {c}, k)
  <2> SUFFICES ASSUME NEW d \in R PROVE \E e \in R \cup {c} : d.id \in e.parents
    BY <1>1 DEF HeadCommits
  <2>1. CASE d \in HeadCommits(C, k)
    BY <2>1 DEF Heads
  <2>2. CASE d \notin HeadCommits(C, k)
    BY <2>2 DEF HeadCommits
  <2> QED BY <2>1, <2>2
<1>4. HeadCommits(C \cup {c}, k) = {c}
  BY <1>1, <1>2, <1>3 DEF HeadCommits
<1> QED BY <1>4 DEF RemoteState

---------------------------------------------------------------------------
(* What stays sound.                                                       *)

\* A sound view stays sound when the replica moves on and authors are rewound.
LEMMA SoundGrows ==
  ASSUME NEW m \in RuntimeState, NEW f \in [Keys -> Resource], NEW g \in [Keys -> Resource],
         NEW h, NEW i, NEW P, NEW X, NEW Y,
         SoundState(m, f, h, P, X), X \subseteq Y,
         \A k \in Keys : h[k] \subseteq i[k] /\ (g[k] = f[k] \/ g[k].version > f[k].version)
  PROVE  SoundState(m, g, i, P, Y)
<1>1. ASSUME NEW k \in Keys, IsPresent(m.baselines[k].state) PROVE Sighted(g[k], m.baselines[k])
  <2>1. m.baselines[k].version \in Nat /\ f[k] \in Resource /\ g[k] \in Resource
    BY DEF RuntimeState, Baseline
  <2>2. Sighted(f[k], m.baselines[k])
    BY <1>1 DEF SoundState
  <2> QED BY <2>1, <2>2, SightedStable
<1>2. ASSUME NEW k \in Keys, m.baselines[k].state # NoBaseline
      PROVE  /\ Value(m.baselines[k].state) \in i[k]
             /\ m.baselines[k].state \in ContentsIn(m.commits, k)
  BY <1>2 DEF SoundState
<1>3. /\ m.commits \subseteq P
      /\ \A a \in Clients :
           m.cursors[a] = 0 \/ \E c \in P : c.id.author = a /\ c.id.counter = m.cursors[a]
      /\ \A c \in P :
           c.id.author \notin Y /\ c.id.counter <= m.cursors[c.id.author] => c \in m.commits
  BY DEF SoundState
<1> QED BY <1>1, <1>2, <1>3 DEF SoundState

\* Only a client's own commits, cursors and baselines matter.
LEMMA SoundSame ==
  ASSUME NEW m, NEW n, NEW f, NEW h, NEW P, NEW X, SoundState(m, f, h, P, X),
         n.commits = m.commits, n.cursors = m.cursors, n.baselines = m.baselines
  PROVE  SoundState(n, f, h, P, X)
BY DEF SoundState

\* An empty view is sound.
LEMMA SoundFresh ==
  ASSUME NEW f, NEW h, NEW P, NEW X, \A c \in P : ~(c.id.counter <= 0),
         \A c \in P : c.id.author \in Clients
  PROVE  SoundState(FreshState, f, h, P, X) /\ FreshState \in RuntimeState
<1>1. /\ FreshState.commits = {} /\ FreshState.cursors = [a \in Clients |-> 0]
      /\ FreshState.baselines = [k \in Keys |-> [state |-> NoBaseline, version |-> 0]]
      /\ FreshState.counter = 0 /\ FreshState.conflicts = [k \in Keys |-> NoConflict]
  BY DEF FreshState
<1>2. FreshState \in RuntimeState
  BY DEF FreshState, RuntimeState, Baseline
<1>3. \A k \in Keys : FreshState.baselines[k].state = NoBaseline
  BY <1>1
<1> QED BY <1>1, <1>2, <1>3, Presence DEF SoundState

\* p's call does nothing, and nobody touches its replica.
Rests(p) ==
  /\ file'[p] = file[p] /\ held'[p] = held[p] /\ mem'[p] = mem[p] /\ disk'[p] = disk[p]
  /\ pc'[p] = pc[p] /\ listing'[p] = listing[p] /\ plan'[p] = plan[p]
  /\ batch'[p] = batch[p] /\ job'[p] = job[p] /\ life'[p] = life[p]

LEMMA SoundRewound ==
  ASSUME NEW m, NEW f, NEW h, NEW P, NEW X, NEW Y, SoundState(m, f, h, P, X), X \subseteq Y
  PROVE  SoundState(m, f, h, P, Y)
BY DEF SoundState

LEMMA RestFrame ==
  ASSUME NEW p \in Clients, ClientInv(p), Rests(p), published' = published,
         rewound \subseteq rewound'
  PROVE  ClientInv(p)'
<1> USE DEF Rests
<1>1. HostInv(p)'
  BY DEF ClientInv, HostInv
<1>2. StatesInv(p)'
  <2>1. /\ SoundState(mem[p], file[p], held[p], published, rewound')
        /\ SoundState(disk[p], file[p], held[p], published, rewound')
    BY SoundRewound DEF ClientInv, StatesInv
  <2>2. /\ SoundState(mem'[p], file'[p], held'[p], published', rewound')
        /\ SoundState(disk'[p], file'[p], held'[p], published', rewound')
    BY <2>1
  <2> QED BY <2>2 DEF StatesInv
<1>3. ASSUME NEW b \in batch[p] PROVE NewInv(p, b)'
  BY <1>3 DEF ClientInv, BatchInv, NewInv
<1>4. BatchInv(p)'
  BY <1>3 DEF ClientInv, BatchInv
<1>5. CallInv(p)'
  BY DEF ClientInv, CallInv, JobInv, Planned
<1> QED BY <1>1, <1>2, <1>4, <1>5 DEF ClientInv

LEMMA GraphFrame ==
  ASSUME TypeOK, TypeOK', GraphInv, published' = published, life' = life,
         rewound \subseteq rewound', \A a \in Clients : mem'[a].counter >= mem[a].counter
  PROVE  GraphInv'
<1>1. ASSUME NEW c \in published
      PROVE  LET a == c.id.author
             IN  /\ c.id.counter > 0 /\ c.id.life <= life'[a]
                 /\ c.id.life = life'[a] \/ a \notin rewound' => c.id.counter <= mem'[a].counter
                 /\ \A i \in c.parents : \E d \in published : d.id = i
  <2> DEFINE a == c.id.author
  <2>1. a \in Clients /\ c.id.counter \in Nat /\ mem[a].counter \in Nat /\ mem'[a].counter \in Nat
    BY DEF TypeOK, Commit, Id, RuntimeState
  <2>2. /\ c.id.counter > 0 /\ c.id.life <= life[a]
        /\ c.id.life = life[a] \/ a \notin rewound => c.id.counter <= mem[a].counter
        /\ \A i \in c.parents : \E d \in published : d.id = i
    BY DEF GraphInv
  <2>3. mem'[a].counter >= mem[a].counter
    BY <2>1
  <2>4. c.id.counter <= mem[a].counter => c.id.counter <= mem'[a].counter
    BY <2>1, <2>3
  <2> QED BY <2>2, <2>4
<1>2. /\ \E n \in Nat : \A c \in published' : c.id.counter <= n
      /\ \A c, d \in published' : c.id = d.id => c = d
  BY DEF GraphInv
<1> QED BY <1>1, <1>2 DEF GraphInv

---------------------------------------------------------------------------
(* The replica changes.                                                    *)

LEMMA SetFileFacts ==
  ASSUME TypeOK, NEW p \in Clients, NEW k \in Keys, NEW s \in ReplicaState(Contents),
         SetFile(p, k, s)
  PROVE  /\ file' \in [Clients -> [Keys -> Resource]]
         /\ held' \in [Clients -> [Keys -> SUBSET ReplicaState(Contents)]]
         /\ \A q \in Clients \ {p} : file'[q] = file[q] /\ held'[q] = held[q]
         /\ file'[p][k].state = s /\ file'[p][k].version = file[p][k].version + 1
         /\ held'[p][k] = held[p][k] \cup {Value(s)}
         /\ \A j \in Keys \ {k} : file'[p][j] = file[p][j] /\ held'[p][j] = held[p][j]
         /\ \A j \in Keys : /\ file'[p][j] = file[p][j] \/ file'[p][j].version > file[p][j].version
                            /\ held[p][j] \subseteq held'[p][j]
<1>1. /\ file' = [file EXCEPT ![p][k] = [state |-> s, version |-> file[p][k].version + 1]]
      /\ held' = [held EXCEPT ![p][k] = @ \cup {Value(s)}]
  BY DEF SetFile
<1>2. /\ file \in [Clients -> [Keys -> Resource]]
      /\ held \in [Clients -> [Keys -> SUBSET ReplicaState(Contents)]]
  BY DEF TypeOK
<1>3. file[p][k].version \in Nat
  BY <1>2 DEF Resource
<1>4. [state |-> s, version |-> file[p][k].version + 1] \in Resource
  BY <1>3 DEF Resource
<1>5. Value(s) \in ReplicaState(Contents)
  BY ChangeFacts
<1>6. /\ file' \in [Clients -> [Keys -> Resource]]
      /\ held' \in [Clients -> [Keys -> SUBSET ReplicaState(Contents)]]
  BY <1>1, <1>2, <1>4, <1>5
<1>7. /\ \A q \in Clients \ {p} : file'[q] = file[q] /\ held'[q] = held[q]
      /\ file'[p][k] = [state |-> s, version |-> file[p][k].version + 1]
      /\ held'[p][k] = held[p][k] \cup {Value(s)}
      /\ \A j \in Keys \ {k} : file'[p][j] = file[p][j] /\ held'[p][j] = held[p][j]
  BY <1>1, <1>2
<1>8. /\ file'[p][k].state = s /\ file'[p][k].version = file[p][k].version + 1
      /\ file'[p][k].version > file[p][k].version
  BY <1>3, <1>7
<1> QED BY <1>6, <1>7, <1>8

\* The replica of p may have moved on, and p knows no less of what it had.
Moves(p) ==
  /\ file' \in [Clients -> [Keys -> Resource]]
  /\ \A k \in Keys : /\ file'[p][k] = file[p][k] \/ file'[p][k].version > file[p][k].version
                     /\ held[p][k] \subseteq held'[p][k]
                     /\ Value(file'[p][k].state) \in held'[p][k]

LEMMA MovesFacts ==
  ASSUME TypeOK, NEW p \in Clients, NEW k \in Keys, NEW s \in ReplicaState(Contents),
         HostInv(p), SetFile(p, k, s)
  PROVE  Moves(p)
<1>1. file' \in [Clients -> [Keys -> Resource]]
  BY SetFileFacts
<1>2. file'[p][k].state = s /\ held'[p][k] = held[p][k] \cup {Value(s)}
  BY SetFileFacts
<1>3. ASSUME NEW j \in Keys
      PROVE  /\ file'[p][j] = file[p][j] \/ file'[p][j].version > file[p][j].version
             /\ held[p][j] \subseteq held'[p][j]
             /\ j # k => file'[p][j] = file[p][j]
  BY SetFileFacts
<1>4. ASSUME NEW j \in Keys PROVE Value(file'[p][j].state) \in held'[p][j]
  BY <1>2, <1>3 DEF HostInv
<1> QED BY <1>1, <1>3, <1>4 DEF Moves

LEMMA HostFrame ==
  ASSUME TypeOK, NEW p \in Clients, HostInv(p), Moves(p), listing'[p] = listing[p]
  PROVE  HostInv(p)'
<1> SUFFICES ASSUME NEW k \in Keys
             PROVE  /\ Missing \in held'[p][k] /\ Value(file'[p][k].state) \in held'[p][k]
                    /\ Value(listing'[p][k].state) \in held'[p][k]
                    /\ Sighted(file'[p][k], listing'[p][k])
  BY DEF HostInv
<1>1. /\ Missing \in held[p][k] /\ Value(listing[p][k].state) \in held[p][k]
      /\ Sighted(file[p][k], listing[p][k])
  BY DEF HostInv
<1>2. file[p][k] \in Resource /\ file'[p][k] \in Resource /\ listing[p][k].version \in Nat
  BY DEF TypeOK, Resource, Moves
<1>3. Sighted(file'[p][k], listing[p][k])
  BY <1>1, <1>2, SightedStable DEF Moves
<1> QED BY <1>1, <1>3 DEF Moves

LEMMA StatesFrame ==
  ASSUME TypeOK, NEW p \in Clients, StatesInv(p), Moves(p), published' = published,
         rewound \subseteq rewound'
  PROVE  /\ SoundState(mem[p], file'[p], held'[p], published', rewound')
         /\ SoundState(disk[p], file'[p], held'[p], published', rewound')
<1>1. /\ mem[p] \in RuntimeState /\ disk[p] \in RuntimeState
      /\ file[p] \in [Keys -> Resource] /\ file'[p] \in [Keys -> Resource]
  BY DEF TypeOK, Moves
<1> QED BY <1>1, SoundGrows DEF StatesInv, Moves

LEMMA JobFrame ==
  ASSUME TypeOK, NEW p \in Clients, job[p] # NoJob, JobInv(p), Moves(p), job'[p] = job[p]
  PROVE  JobInv(p)'
<1> DEFINE j == job[p]
           f == file[p][j.key]
           g == file'[p][j.key]
<1>1. j \in Job /\ j.key \in Keys /\ j.current \in Resource
  BY DEF TypeOK, Job
<1>2. f \in Resource /\ g \in Resource /\ j.current.version \in Nat /\ (g = f \/ g.version > f.version)
  <2>1. file[p] \in [Keys -> Resource] /\ file'[p] \in [Keys -> Resource]
    BY DEF TypeOK, Moves
  <2>2. j.current.version \in Nat
    BY <1>1 DEF Resource
  <2>3. g = f \/ g.version > f.version
    BY <1>1 DEF Moves
  <2> QED BY <1>1, <2>1, <2>2, <2>3
<1>3. f.version \in Nat /\ g.version \in Nat
  BY <1>2 DEF Resource
<1>4. Sighted(f, j.current)
  BY DEF JobInv
<1>5. Sighted(g, j.current)
  BY <1>2, <1>4, SightedStable
<1>6. j.current.version = g.version => g = f
  BY <1>2, <1>3, <1>4 DEF Sighted
<1> QED BY <1>5, <1>6 DEF JobInv

\* The call of p stands still while its replica may change.
LEMMA CallFrame ==
  ASSUME TypeOK, NEW p \in Clients, CallInv(p), Moves(p),
         mem'[p] = mem[p], pc'[p] = pc[p], listing'[p] = listing[p], plan'[p] = plan[p],
         job'[p] = job[p]
  PROVE  CallInv(p)'
<1>1. job[p] # NoJob => JobInv(p)'
  BY JobFrame DEF CallInv
<1> QED BY <1>1 DEF CallInv, Planned

LEMMA BatchFrame ==
  ASSUME TypeOK, NEW p \in Clients, BatchInv(p), Moves(p),
         mem'[p] = mem[p], pc'[p] = pc[p], plan'[p] = plan[p], job'[p] = job[p],
         batch'[p] = batch[p], published' = published, life' = life, rewound' = rewound
  PROVE  BatchInv(p)'
<1>1. ASSUME NEW b \in batch[p] PROVE NewInv(p, b)'
  <2> DEFINE c == b.commit
             r == [state |-> c.change, version |-> b.version]
  <2>1. c.key \in Keys /\ r.version \in Nat
    BY DEF TypeOK, Commit
  <2>2. file[p][c.key] \in Resource /\ file'[p][c.key] \in Resource
    BY <2>1 DEF TypeOK, Moves
  <2>3. NewInv(p, b)
    BY DEF BatchInv
  <2>4. IsPresent(c.change) => Sighted(file'[p][c.key], r)
    BY <2>1, <2>2, <2>3, SightedStable DEF NewInv, Moves
  <2>5. Value(c.change) \in held'[p][c.key]
    BY <2>1, <2>3 DEF NewInv, Moves
  <2> QED BY <2>3, <2>4, <2>5 DEF NewInv
<1> QED BY <1>1 DEF BatchInv

LEMMA EditStep ==
  ASSUME IndInv, NEW p \in Clients, NEW k \in Keys, NEW s \in ReplicaState(Contents), Edit(p, k, s)
  PROVE  IndInv'
<1>1. /\ SetFile(p, k, s) /\ acts < MaxActs /\ acts' = acts + 1
      /\ UNCHANGED <<published, acks, mem, disk, pc, callVars, life, faults, rewound>>
  BY DEF Edit
<1>2. UNCHANGED <<scan, listing, plan, batch, job>>
  BY <1>1 DEF callVars
<1> USE DEF IndInv
<1>3. TypeOK'
  <2>1. /\ file' \in [Clients -> [Keys -> Resource]]
        /\ held' \in [Clients -> [Keys -> SUBSET ReplicaState(Contents)]]
    BY <1>1, SetFileFacts
  <2> QED BY <1>1, <1>2, <2>1 DEF TypeOK
<1>4. GraphInv'
  <2>1. \A a \in Clients : mem[a].counter \in Nat
    BY DEF TypeOK, RuntimeState
  <2> QED BY <1>1, <1>3, <2>1, GraphFrame
<1>5. ASSUME NEW q \in Clients \ {p} PROVE ClientInv(q)'
  BY <1>1, <1>2, SetFileFacts, RestFrame DEF Rests
<1>6. Moves(p)
  BY <1>1, MovesFacts DEF ClientInv
<1>7. HostInv(p)' /\ CallInv(p)' /\ BatchInv(p)'
  BY <1>1, <1>2, <1>6, HostFrame, CallFrame, BatchFrame DEF ClientInv
<1>8. StatesInv(p)'
  BY <1>1, <1>6, StatesFrame DEF ClientInv, StatesInv
<1> QED BY <1>3, <1>4, <1>5, <1>7, <1>8 DEF ClientInv

---------------------------------------------------------------------------
(* reconcile, up to the plan.                                              *)

LEMMA GotoFacts ==
  ASSUME TypeOK, NEW p \in Clients, NEW label \in Label, Goto(p, label)
  PROVE  /\ pc' \in [Clients -> Label] /\ pc'[p] = label
         /\ \A q \in Clients \ {p} : pc'[q] = pc[q]
BY DEF TypeOK, Goto

LEMMA NoopFacts ==
  /\ Op("Noop") \notin Mutations \cup Records
  /\ Op("Upload") \notin Mutations \cup Records
  /\ Op("PublishDelete") \notin Mutations \cup Records
  /\ Op("Noop") \in PlanOperation
BY OpsDiffer DEF Mutations, Records, PlanOperation

\* A call that has not planned has nothing under way.
LEMMA QuietFacts ==
  ASSUME NEW p \in Clients, ClientInv(p), pc[p] \in {"idle", "scan", "list", "inventory"}
  PROVE  /\ batch[p] = {} /\ job[p] = NoJob
         /\ \A k \in Keys : plan[p][k] = Op("Noop")
BY DEF ClientInv, BatchInv, CallInv

LEMMA QuietCall ==
  ASSUME NEW p \in Clients, job'[p] = NoJob, \A k \in Keys : plan'[p][k] = Op("Noop"),
         pc'[p] \notin {"user", "read"}
  PROVE  CallInv(p)'
BY NoopFacts DEF CallInv

LEMMA EmptyBatch ==
  ASSUME NEW p \in Clients, job'[p] = NoJob, batch'[p] = {}
  PROVE  BatchInv(p)'
BY DEF BatchInv

LEMMA HostSame ==
  ASSUME NEW p \in Clients, HostInv(p), file' = file, held' = held, listing'[p] = listing[p]
  PROVE  HostInv(p)'
BY DEF HostInv

LEMMA FoundFacts ==
  ASSUME ScansInv, NEW p \in Clients
  PROVE  Found(p) \subseteq published
BY DEF ScansInv, ScanInv, Found, Unread

\* The greatest number of an author that a refresh has seen.
LEMMA CursorFacts ==
  ASSUME IndInv, ScansInv, NEW p \in Clients, NEW a \in Clients
  PROVE  LET old == mem[p].cursors[a]
             new == Max({old} \cup {c.id.counter : c \in {c \in Found(p) : c.id.author = a}})
         IN  /\ new \in Nat /\ new >= old
             /\ new = old \/ \E c \in Found(p) : c.id.author = a /\ c.id.counter = new
             /\ \A c \in Found(p) : c.id.author = a => c.id.counter <= new
<1> DEFINE old == mem[p].cursors[a]
           N == {c.id.counter : c \in {c \in Found(p) : c.id.author = a}}
           S == {old} \cup N
<1>1. old \in Nat
  BY DEF IndInv, TypeOK, RuntimeState
<1>2. PICK n \in Nat : \A c \in published : c.id.counter <= n
  BY DEF IndInv, GraphInv
<1>3. N \subseteq Nat /\ \A m \in N : m <= n
  BY <1>2, FoundFacts DEF IndInv, TypeOK, Commit, Id
<1> DEFINE top == IF old <= n THEN n ELSE old
<1>4. top \in Nat /\ S \in SUBSET Nat /\ S # {} /\ old \in S
  BY <1>1, <1>2, <1>3
<1>5. ASSUME NEW m \in S PROVE m <= top
  <2>1. CASE m = old
    BY <1>1, <1>2, <2>1
  <2>2. CASE m \in N
    <3>1. m \in Nat /\ m <= n
      BY <1>3, <2>2
    <3> QED BY <1>1, <1>2, <3>1
  <2> QED BY <2>1, <2>2
<1> HIDE DEF top, S
<1>6. Max(S) \in S /\ \A m \in S : m <= Max(S)
  BY <1>4, <1>5, MaxExists
<1>7. Max(S) \in Nat /\ Max(S) >= old
  BY <1>1, <1>4, <1>6
<1>8. Max(S) = old \/ Max(S) \in N
  BY <1>6 DEF S
<1>9. \A m \in N : m <= Max(S)
  BY <1>6 DEF S
<1> QED BY <1>7, <1>8, <1>9 DEF S

LEMMA RefreshStep ==
  ASSUME IndInv, ScansInv, NEW p \in Clients, Refresh(p)
  PROVE  IndInv'
<1> DEFINE new(a) == Max({mem[p].cursors[a]} \cup
                         {c.id.counter : c \in {c \in Found(p) : c.id.author = a}})
           m == [mem[p] EXCEPT !.commits = @ \cup Found(p),
                               !.cursors = [a \in Clients |-> new(a)]]
<1> USE DEF IndInv
<1>1. /\ pc[p] \in {"idle", "scan"} /\ Goto(p, "list") /\ scan' = [scan EXCEPT ![p] = NoScan(p)]
      /\ UNCHANGED <<file, published, acks, disk, listing, plan, batch, job, held>>
      /\ UNCHANGED <<life, acts, faults, rewound>>
  BY DEF Refresh, callVars, boundVars
<1>2. mem \in [Clients -> RuntimeState] /\ mem[p] \in RuntimeState
  BY DEF TypeOK
<1>3. mem' = [mem EXCEPT ![p] = m]
  BY <1>2 DEF Refresh, RuntimeState
<1>4. \A a \in Clients :
        /\ new(a) \in Nat /\ new(a) >= mem[p].cursors[a]
        /\ new(a) = mem[p].cursors[a] \/ \E c \in Found(p) : c.id.author = a /\ c.id.counter = new(a)
        /\ \A c \in Found(p) : c.id.author = a => c.id.counter <= new(a)
  BY CursorFacts
<1> HIDE DEF new
<1>5. /\ m.commits = mem[p].commits \cup Found(p) /\ m.cursors = [a \in Clients |-> new(a)]
      /\ m.baselines = mem[p].baselines /\ m.counter = mem[p].counter
      /\ m.conflicts = mem[p].conflicts
  BY <1>2 DEF RuntimeState
<1>6. m \in RuntimeState
  <2>1. Found(p) \subseteq Commit /\ [a \in Clients |-> new(a)] \in [Clients -> Nat]
    BY <1>4, FoundFacts DEF TypeOK
  <2> QED BY <1>2, <2>1 DEF RuntimeState
<1> HIDE DEF m
<1>7. mem' \in [Clients -> RuntimeState] /\ mem'[p] = m /\ \A q \in Clients \ {p} : mem'[q] = mem[q]
  BY <1>2, <1>3, <1>6
<1>8. pc' \in [Clients -> Label] /\ pc'[p] = "list" /\ \A q \in Clients \ {p} : pc'[q] = pc[q]
  BY <1>1, GotoFacts DEF Label
<1>9. TypeOK'
  <2>1. scan' \in [Clients -> Scan]
    BY <1>1 DEF TypeOK, Scan, NoScan
  <2> QED BY <1>1, <1>7, <1>8, <2>1 DEF TypeOK
<1>10. GraphInv'
  <2>1. \A a \in Clients : mem[a].counter \in Nat /\ mem'[a].counter = mem[a].counter
    BY <1>2, <1>5, <1>7 DEF RuntimeState
  <2> QED BY <1>1, <1>9, <2>1, GraphFrame
<1>11. ASSUME NEW q \in Clients \ {p} PROVE ClientInv(q)'
  BY <1>1, <1>7, <1>8, RestFrame DEF Rests
<1>12. ClientInv(p)
  OBVIOUS
<1>13. HostInv(p)' /\ BatchInv(p)' /\ CallInv(p)'
  BY <1>1, <1>8, <1>12, QuietFacts, QuietCall, EmptyBatch, HostSame DEF ClientInv
<1>14. SoundState(m, file[p], held[p], published, rewound)
  <2>1. SoundState(mem[p], file[p], held[p], published, rewound)
    BY <1>12 DEF ClientInv, StatesInv
  <2>2. ASSUME NEW c \in published, c.id.author \notin rewound,
               c.id.counter <= m.cursors[c.id.author]
        PROVE  c \in m.commits
    <3> DEFINE a == c.id.author
    <3>1. a \in Clients /\ c.id.counter \in Nat /\ c.id.counter <= new(a)
      BY <1>5, <2>2 DEF TypeOK, Commit, Id
    <3>2. mem[p].cursors[a] \in Nat
      BY <1>2, <3>1 DEF RuntimeState
    <3>3. CASE c.id.counter <= mem[p].cursors[a]
      BY <1>5, <2>1, <2>2, <3>3 DEF SoundState
    <3>4. CASE c.id.counter > mem[p].cursors[a]
      <4>1. new(a) # mem[p].cursors[a]
        BY <3>1, <3>2, <3>4
      <4>2. PICK d \in Found(p) : d.id.author = a /\ d.id.counter = new(a)
        BY <1>4, <3>1, <4>1
      <4>3. CASE d \in scan[p].found
        BY <1>5, <2>2, <3>1, <3>4, <4>2, <4>3 DEF ScansInv, ScanInv, Found
      <4>4. CASE d \in Unread(p, p)
        BY <1>5, <3>4, <4>2, <4>4 DEF Unread, Found
      <4> QED BY <4>2, <4>3, <4>4 DEF Found
    <3> QED BY <3>1, <3>2, <3>3, <3>4
  <2>3. m.commits \subseteq published
    BY <1>5, <2>1, FoundFacts DEF SoundState
  <2>5. ASSUME NEW a \in Clients
        PROVE  m.cursors[a] = 0 \/ \E c \in published : c.id.author = a /\ c.id.counter = m.cursors[a]
    <3>1. m.cursors[a] = new(a)
      BY <1>5
    <3>2. CASE new(a) = mem[p].cursors[a]
      BY <2>1, <3>1, <3>2 DEF SoundState
    <3>3. CASE \E c \in Found(p) : c.id.author = a /\ c.id.counter = new(a)
      BY <3>1, <3>3, FoundFacts
    <3> QED BY <1>4, <3>2, <3>3
  <2>6. \A k \in Keys : ContentsIn(mem[p].commits, k) \subseteq ContentsIn(m.commits, k)
    BY <1>5 DEF ContentsIn, ResourceCommits
  <2>7. ASSUME NEW k \in Keys
        PROVE  LET b == m.baselines[k]
               IN  /\ b.state # NoBaseline =>
                        Value(b.state) \in held[p][k] /\ b.state \in ContentsIn(m.commits, k)
                   /\ IsPresent(b.state) => Sighted(file[p][k], b)
    BY <1>5, <2>1, <2>6 DEF SoundState
  <2> QED BY <2>2, <2>3, <2>5, <2>7 DEF SoundState
<1>15. StatesInv(p)'
  BY <1>1, <1>7, <1>12, <1>14 DEF ClientInv, StatesInv
<1> QED BY <1>9, <1>10, <1>11, <1>13, <1>15 DEF ClientInv

LEMMA ScanAuthorStep ==
  ASSUME IndInv, NEW p \in Clients, NEW a \in Clients, ScanAuthor(p, a)
  PROVE  IndInv'
<1> USE DEF IndInv
<1>1. /\ pc[p] \in {"idle", "scan"} /\ Goto(p, "scan")
      /\ scan' = [scan EXCEPT ![p] = [left |-> @.left \ {a}, found |-> @.found \cup Unread(p, a)]]
      /\ UNCHANGED <<file, published, acks, mem, disk, listing, plan, batch, job, held>>
      /\ UNCHANGED <<life, acts, faults, rewound>>
  BY DEF ScanAuthor, boundVars
<1>2. pc' \in [Clients -> Label] /\ pc'[p] = "scan" /\ \A q \in Clients \ {p} : pc'[q] = pc[q]
  BY <1>1, GotoFacts DEF Label
<1>3. TypeOK'
  <2>1. scan[p].left \subseteq Clients /\ scan[p].found \cup Unread(p, a) \subseteq Commit
    BY DEF TypeOK, Scan, Unread
  <2>2. scan' \in [Clients -> Scan]
    BY <1>1, <2>1 DEF TypeOK, Scan
  <2> QED BY <1>1, <1>2, <2>2 DEF TypeOK
<1>4. GraphInv'
  BY <1>1 DEF GraphInv
<1>5. ASSUME NEW q \in Clients \ {p} PROVE ClientInv(q)'
  BY <1>1, <1>2, RestFrame DEF Rests
<1>6. HostInv(p)' /\ BatchInv(p)' /\ CallInv(p)'
  BY <1>1, <1>2, QuietFacts, QuietCall, EmptyBatch, HostSame DEF ClientInv
<1>7. StatesInv(p)'
  BY <1>1 DEF ClientInv, StatesInv
<1> QED BY <1>3, <1>4, <1>5, <1>6, <1>7 DEF ClientInv

\* What a client lists, reads or remembers of its replica is true, and was there.
LEMMA ListedFacts ==
  ASSUME TypeOK, NEW p \in Clients, HostInv(p)
  PROVE  /\ Listed(p) \in [Keys -> Resource]
         /\ \A k \in Keys : /\ Sighted(file[p][k], Listed(p)[k])
                            /\ Value(Listed(p)[k].state) \in held[p][k]
<1>1. ASSUME NEW k \in Keys
      PROVE  /\ Listed(p)[k] \in {file[p][k], Nothing}
             /\ Listed(p)[k] \in Resource
             /\ Sighted(file[p][k], Listed(p)[k])
             /\ Value(Listed(p)[k].state) \in held[p][k]
  <2>1. file[p][k] \in Resource
    BY DEF TypeOK
  <2>2. Nothing \in Resource /\ Nothing.state = Missing
    BY DEF Nothing, Resource, ReplicaState
  <2>3. Listed(p)[k] = file[p][k] \/ Listed(p)[k] = Nothing
    BY DEF Listed
  <2>4. Missing \in held[p][k] /\ Value(file[p][k].state) \in held[p][k]
    BY DEF HostInv
  <2> QED BY <2>1, <2>2, <2>3, <2>4, SightedFile, ChangeFacts
<1> QED BY <1>1 DEF Listed

LEMMA InventoryFacts ==
  ASSUME TypeOK, NEW p \in Clients, HostInv(p), StatesInv(p),
         NEW L \in [Keys -> Resource],
         \A k \in Keys : Sighted(file[p][k], L[k]) /\ Value(L[k].state) \in held[p][k]
  PROVE  /\ Inventory(p, L) \in [Keys -> Resource]
         /\ \A k \in Keys : /\ Sighted(file[p][k], Inventory(p, L)[k])
                            /\ Value(Inventory(p, L)[k].state) \in held[p][k]
<1> SUFFICES ASSUME NEW k \in Keys
             PROVE  /\ Inventory(p, L)[k] \in Resource
                    /\ Sighted(file[p][k], Inventory(p, L)[k])
                    /\ Value(Inventory(p, L)[k].state) \in held[p][k]
  BY DEF Inventory
<1> DEFINE M == Inventory(p, L)[k]
           b == mem[p].baselines[k]
<1>1. L[k] \in Resource /\ file[p][k] \in Resource /\ b \in Baseline
  BY DEF TypeOK, RuntimeState
<1>2. L[k].version \in Nat /\ file[p][k].version \in Nat /\ file[p][k].state \in ReplicaState(Contents)
  BY <1>1 DEF Resource
<1>3. Sighted(file[p][k], L[k]) /\ Value(L[k].state) \in held[p][k]
  OBVIOUS
<1>4. CASE k \in Unhashed(p, L)
  <2>1. M = [L[k] EXCEPT !.state = file[p][k].state]
    BY <1>4 DEF Inventory
  <2>2. M \in Resource /\ M.state = file[p][k].state /\ M.version = L[k].version
    BY <1>1, <1>2, <2>1 DEF Resource
  <2>3. Sighted(file[p][k], M)
    BY <1>3, <2>2 DEF Sighted
  <2> QED BY <2>2, <2>3 DEF HostInv
<1>5. CASE k \in WithoutId(p, L) \ Unhashed(p, L)
  <2>1. M = [L[k] EXCEPT !.state = b.state]
    BY <1>5 DEF Inventory
  <2>2. IsPresent(b.state) /\ b.version = L[k].version
    BY <1>5 DEF Unhashed, Cached
  <2>3. b.state \in ReplicaState(Contents)
    BY <1>1, <2>2, Presence DEF Baseline, BaselineState, ReplicaState
  <2>4. M \in Resource /\ M.state = b.state /\ M.version = b.version
    BY <1>1, <2>1, <2>2, <2>3 DEF Resource
  <2>5. Sighted(file[p][k], b) /\ Value(b.state) \in held[p][k]
    BY <2>2, Presence DEF StatesInv, SoundState
  <2> QED BY <2>4, <2>5 DEF Sighted
<1>6. CASE k \notin WithoutId(p, L)
  <2>1. k \notin Unhashed(p, L)
    BY <1>6 DEF Unhashed
  <2>2. M = L[k]
    BY <1>6, <2>1 DEF Inventory
  <2> QED BY <1>1, <1>3, <2>2
<1> QED BY <1>4, <1>5, <1>6

LEMMA ListStep ==
  ASSUME IndInv, NEW p \in Clients, List(p)
  PROVE  IndInv'
<1> USE DEF IndInv
<1>1. /\ pc[p] = "list" /\ Goto(p, "inventory")
      /\ listing' = [listing EXCEPT ![p] = Listed(p)]
      /\ UNCHANGED <<file, published, acks, mem, disk, scan, plan, batch, job, held>>
      /\ UNCHANGED <<life, acts, faults, rewound>>
  BY DEF List, boundVars
<1>2. pc' \in [Clients -> Label] /\ pc'[p] = "inventory" /\ \A q \in Clients \ {p} : pc'[q] = pc[q]
  BY <1>1, GotoFacts DEF Label
<1>3. ClientInv(p)
  OBVIOUS
<1>4. /\ Listed(p) \in [Keys -> Resource]
      /\ \A k \in Keys : /\ Sighted(file[p][k], Listed(p)[k])
                         /\ Value(Listed(p)[k].state) \in held[p][k]
  BY <1>3, ListedFacts DEF ClientInv
<1>5. /\ listing' \in [Clients -> [Keys -> Resource]] /\ listing'[p] = Listed(p)
      /\ \A q \in Clients \ {p} : listing'[q] = listing[q]
  BY <1>1, <1>4 DEF TypeOK
<1>6. TypeOK'
  BY <1>1, <1>2, <1>5 DEF TypeOK
<1>7. GraphInv'
  BY <1>1 DEF GraphInv
<1>8. ASSUME NEW q \in Clients \ {p} PROVE ClientInv(q)'
  BY <1>1, <1>2, <1>5, RestFrame DEF Rests
<1>9. HostInv(p)'
  BY <1>1, <1>3, <1>4, <1>5 DEF ClientInv, HostInv
<1>10. BatchInv(p)' /\ CallInv(p)'
  BY <1>1, <1>2, <1>3, QuietFacts, QuietCall, EmptyBatch
<1>11. StatesInv(p)'
  BY <1>1, <1>3 DEF ClientInv, StatesInv
<1> QED BY <1>6, <1>7, <1>8, <1>9, <1>10, <1>11 DEF ClientInv

---------------------------------------------------------------------------
(* What a step of p's own call leaves in force.                            *)

LEMMA StaysMoves ==
  ASSUME TypeOK, NEW p \in Clients, HostInv(p), file' = file, held' = held
  PROVE  Moves(p)
BY DEF TypeOK, HostInv, Moves

\* The view of the graph and the baselines stays; it may be saved.
LEMMA StatesKept ==
  ASSUME TypeOK, NEW p \in Clients, StatesInv(p), Moves(p),
         published' = published, rewound \subseteq rewound',
         mem'[p].commits = mem[p].commits, mem'[p].cursors = mem[p].cursors,
         mem'[p].baselines = mem[p].baselines,
         disk'[p] = disk[p] \/ disk'[p] = mem'[p]
  PROVE  StatesInv(p)'
<1>1. SoundState(mem'[p], file'[p], held'[p], published', rewound')
  BY StatesFrame, SoundSame
<1>2. SoundState(disk'[p], file'[p], held'[p], published', rewound')
  BY <1>1, StatesFrame
<1> QED BY <1>1, <1>2 DEF StatesInv

\* The run goes on with its plan; what is still to be done is still right.
LEMMA CallAdvance ==
  ASSUME TypeOK, NEW p \in Clients, CallInv(p), Moves(p),
         listing'[p] = listing[p], job'[p] = job[p],
         pc'[p] \in {"publish", "integrate", "save"} \/ (pc'[p] = "apply" /\ job[p] = NoJob),
         \A k \in Keys :
           /\ plan'[p][k] = plan[p][k] \/ plan'[p][k] = Op("Noop")
           /\ plan'[p][k] \in Mutations \cup Records =>
                /\ mem'[p].baselines[k] = mem[p].baselines[k]
                /\ RemoteState(mem'[p].commits, k) = RemoteState(mem[p].commits, k)
  PROVE  CallInv(p)'
<1>1. job[p] # NoJob => JobInv(p)'
  BY JobFrame DEF CallInv
<1>2. ASSUME NEW k \in Keys, plan'[p][k] \in Mutations \cup Records
      PROVE  plan'[p][k] = Planned(p, k, listing[p][k])'
  <2>1. plan'[p][k] = plan[p][k]
    BY <1>2, NoopFacts
  <2>2. plan[p][k] = Planned(p, k, listing[p][k])
    BY <1>2, <2>1 DEF CallInv
  <2> QED BY <1>2, <2>1, <2>2 DEF Planned
<1>3. ASSUME NEW k \in Keys, plan'[p][k] # Op("Noop") PROVE job[p] = NoJob
  BY <1>3 DEF CallInv
<1> QED BY <1>1, <1>2, <1>3 DEF CallInv

LEMMA PlannedFacts ==
  ASSUME TypeOK, NEW p \in Clients, NEW k \in Keys, NEW r \in Resource
  PROVE  LET b == mem[p].baselines[k].state
             s == RemoteState(mem[p].commits, k)
             op == Planned(p, k, r)
         IN  /\ r.state \in ReplicaState(Contents)
             /\ b \in BaselineState(Contents) \cup {NoBaseline}
             /\ s \in RemoteResourceState(Contents)
             /\ op = PlanResource(r.state, b, s)
             /\ op \in PlanOperation
             /\ op.op = "Conflict" => op.kind \in ConflictKind
             /\ mem[p].commits \subseteq Commit
<1>1. /\ r.state \in ReplicaState(Contents) /\ mem[p].commits \subseteq Commit
      /\ mem[p].baselines[k].state \in BaselineState(Contents) \cup {NoBaseline}
  BY DEF TypeOK, Resource, RuntimeState, Baseline
<1>2. RemoteState(mem[p].commits, k) \in RemoteResourceState(Contents)
  BY <1>1, RemoteStateFacts
<1> QED BY <1>1, <1>2, PlanFacts DEF Planned

LEMMA PlanRunStep ==
  ASSUME IndInv, NEW p \in Clients, PlanRun(p)
  PROVE  IndInv'
<1> DEFINE L == Inventory(p, listing[p])
           ops == [k \in Keys |-> Planned(p, k, L[k])]
           conflicts == [k \in Keys |->
                           IF ops[k].op = "Conflict"
                           THEN [kind |-> ops[k].kind, local |-> L[k],
                                 heads |-> Heads(mem[p].commits, k)]
                           ELSE NoConflict]
           m == [mem[p] EXCEPT !.conflicts = conflicts]
<1> USE DEF IndInv
<1>1. /\ pc[p] = "inventory" /\ Goto(p, "read")
      /\ listing' = [listing EXCEPT ![p] = L]
      /\ plan' = [plan EXCEPT ![p] = ops]
      /\ mem' = [mem EXCEPT ![p] = m]
      /\ disk' = [disk EXCEPT ![p] = m]
      /\ UNCHANGED <<file, published, acks, scan, batch, job, held>>
      /\ UNCHANGED <<life, acts, faults, rewound>>
  BY DEF PlanRun, boundVars
<1>2. pc' \in [Clients -> Label] /\ pc'[p] = "read" /\ \A q \in Clients \ {p} : pc'[q] = pc[q]
  BY <1>1, GotoFacts DEF Label
<1>3. ClientInv(p) /\ mem[p] \in RuntimeState
  BY DEF TypeOK
<1>4. /\ L \in [Keys -> Resource]
      /\ \A k \in Keys : Sighted(file[p][k], L[k]) /\ Value(L[k].state) \in held[p][k]
  <2>1. /\ listing[p] \in [Keys -> Resource]
        /\ \A k \in Keys : /\ Sighted(file[p][k], listing[p][k])
                           /\ Value(listing[p][k].state) \in held[p][k]
    BY <1>3 DEF TypeOK, ClientInv, HostInv
  <2> QED BY <1>3, <2>1, InventoryFacts DEF ClientInv
<1> HIDE DEF L
<1>5. ASSUME NEW k \in Keys
      PROVE  ops[k] \in PlanOperation /\ conflicts[k] \in ConflictRecord \cup {NoConflict}
  <2>1. L[k] \in Resource
    BY <1>4
  <2>2. /\ ops[k] \in PlanOperation
        /\ ops[k].op = "Conflict" => ops[k].kind \in ConflictKind
        /\ mem[p].commits \subseteq Commit
    BY <2>1, PlannedFacts
  <2>3. Heads(mem[p].commits, k) \subseteq Id
    BY <2>2, HeadsFacts
  <2> QED BY <2>1, <2>2, <2>3 DEF ConflictRecord
<1>6. ops \in [Keys -> PlanOperation] /\ conflicts \in [Keys -> ConflictRecord \cup {NoConflict}]
  BY <1>5
<1>7. \A k \in Keys : ops[k] = Planned(p, k, L[k])
  OBVIOUS
<1> HIDE DEF ops, conflicts
<1>8. m \in RuntimeState /\ m.commits = mem[p].commits /\ m.cursors = mem[p].cursors
      /\ m.baselines = mem[p].baselines /\ m.counter = mem[p].counter
  BY <1>3, <1>6 DEF RuntimeState
<1> HIDE DEF m
<1>9. /\ listing' \in [Clients -> [Keys -> Resource]] /\ listing'[p] = L
      /\ plan' \in [Clients -> [Keys -> PlanOperation]] /\ plan'[p] = ops
      /\ mem' \in [Clients -> RuntimeState] /\ mem'[p] = m
      /\ disk' \in [Clients -> RuntimeState] /\ disk'[p] = m
      /\ \A q \in Clients \ {p} : /\ listing'[q] = listing[q] /\ plan'[q] = plan[q]
                                  /\ mem'[q] = mem[q] /\ disk'[q] = disk[q]
  BY <1>1, <1>4, <1>6, <1>8 DEF TypeOK
<1>10. TypeOK'
  BY <1>1, <1>2, <1>9 DEF TypeOK
<1>11. GraphInv'
  <2>1. \A a \in Clients : mem[a].counter \in Nat /\ mem'[a].counter = mem[a].counter
    BY <1>8, <1>9 DEF TypeOK, RuntimeState
  <2> QED BY <1>1, <1>10, <2>1, GraphFrame
<1>12. ASSUME NEW q \in Clients \ {p} PROVE ClientInv(q)'
  BY <1>1, <1>2, <1>9, RestFrame DEF Rests
<1>13. HostInv(p)'
  BY <1>1, <1>3, <1>4, <1>9 DEF ClientInv, HostInv
<1>14. batch[p] = {} /\ job[p] = NoJob
  BY <1>1, <1>3, QuietFacts
<1>15. BatchInv(p)'
  BY <1>1, <1>14, EmptyBatch
<1>16. CallInv(p)'
  <2>1. \A k \in Keys : ops[k] = Planned(p, k, listing[p][k])'
    BY <1>7, <1>8, <1>9 DEF Planned
  <2> QED BY <1>1, <1>2, <1>9, <1>14, <2>1 DEF CallInv
<1>17. StatesInv(p)'
  BY <1>1, <1>3, <1>8, <1>9, StaysMoves, StatesKept DEF ClientInv
<1> QED BY <1>10, <1>11, <1>12, <1>13, <1>15, <1>16, <1>17 DEF ClientInv

---------------------------------------------------------------------------
(* execute and the user's requests: new commits.                           *)

\* A step of p's own call, which publishes nothing.
LEMMA OwnStep ==
  ASSUME IndInv, NEW p \in Clients, TypeOK', ClientInv(p)',
         published' = published, life' = life, rewound' = rewound,
         mem'[p].counter >= mem[p].counter,
         \A q \in Clients \ {p} : Rests(q)
  PROVE  IndInv'
<1>1. \A a \in Clients : mem'[a].counter >= mem[a].counter
  <2> TAKE a \in Clients
  <2>1. mem[a].counter \in Nat
    BY DEF IndInv, TypeOK, RuntimeState
  <2>2. CASE a = p
    BY <2>2
  <2>3. CASE a # p
    BY <2>1, <2>3 DEF Rests
  <2> QED BY <2>2, <2>3
<1>2. GraphInv'
  BY <1>1, GraphFrame DEF IndInv
<1>3. ASSUME NEW q \in Clients \ {p} PROVE ClientInv(q)'
  BY RestFrame DEF IndInv
<1> QED BY <1>2, <1>3 DEF IndInv

\* A number above the client's counter is new.
LEMMA NewNumber ==
  ASSUME IndInv, NEW p \in Clients, NEW n \in Nat, n > mem[p].counter, NEW i \in Id,
         i.author = p, i.counter = n, i.life = life[p]
  PROVE  /\ \A d \in published : /\ d.id # i
                                 /\ p \notin rewound /\ d.id.author = p => d.id.counter < n
         /\ \A d \in mem[p].commits : d.id # i /\ i \notin d.parents
<1> USE DEF IndInv
<1>1. mem[p].counter \in Nat
  BY DEF TypeOK, RuntimeState
<1>2. ASSUME NEW d \in published, d.id.author = p, d.id.life = life[p] \/ p \notin rewound
      PROVE  d.id.counter < n
  <2>1. d.id.counter \in Nat /\ d.id.counter <= mem[p].counter
    BY <1>2 DEF GraphInv, TypeOK, Commit, Id
  <2> QED BY <1>1, <2>1
<1>3. ASSUME NEW d \in published PROVE d.id # i
  <2> SUFFICES ASSUME d.id = i PROVE FALSE
    OBVIOUS
  <2>1. d.id.counter < n
    BY <1>2
  <2> QED BY <2>1
<1>4. mem[p].commits \subseteq published
  BY DEF ClientInv, StatesInv, SoundState
<1>5. ASSUME NEW d \in published PROVE i \notin d.parents
  BY <1>3 DEF GraphInv
<1> QED BY <1>2, <1>3, <1>4, <1>5

LEMMA NewCommitFacts ==
  ASSUME IndInv, NEW p \in Clients, NEW k \in Keys, NEW n \in Nat, NEW change \in Change,
         NEW v \in Nat, NEW b,
         b = [commit |-> NewCommit(p, k, n, change), version |-> v],
         n > mem[p].counter, n <= mem'[p].counter, mem'[p].commits = mem[p].commits,
         life' = life, published' = published, rewound' = rewound, pc'[p] = "publish",
         Value(change) \in held'[p][k],
         IsPresent(change) => Sighted(file'[p][k], [state |-> change, version |-> v])
  PROVE  /\ b \in [commit : Commit, version : Nat] /\ NewInv(p, b)'
         /\ b.commit.key = k /\ b.commit.id.counter = n
<1> USE DEF IndInv
<1> DEFINE c == b.commit
<1>1. mem[p].commits \subseteq Commit /\ life[p] \in Nat /\ mem[p].counter \in Nat
  BY DEF TypeOK, RuntimeState
<1>2. Heads(mem[p].commits, k) \subseteq Id
  BY <1>1, HeadsFacts
<1>3. c = NewCommit(p, k, n, change) /\ b.version = v
  OBVIOUS
<1>4. /\ c \in Commit /\ c.key = k /\ c.change = change
      /\ c.parents = Heads(mem[p].commits, k)
      /\ c.id \in Id /\ c.id.author = p /\ c.id.counter = n /\ c.id.life = life[p]
  BY <1>1, <1>2, <1>3 DEF NewCommit, Commit, Id
<1>5. /\ \A d \in published : /\ d.id # c.id
                              /\ p \notin rewound /\ d.id.author = p => d.id.counter < n
      /\ \A d \in mem[p].commits : d.id # c.id /\ c.id \notin d.parents
  BY <1>4, NewNumber
<1>6. n > 0
  BY <1>1
<1>7. NewInv(p, b)'
  BY <1>3, <1>4, <1>5, <1>6 DEF NewInv
<1>8. b \in [commit : Commit, version : Nat]
  BY <1>3, <1>4
<1> QED BY <1>4, <1>7, <1>8


\* What a run reads it publishes as it was listed.
LEMMA ToPublishFacts ==
  ASSUME IndInv, NEW p \in Clients, NEW k \in ToPublish(p)
  PROVE  LET change == IF plan[p][k] = Op("Upload") THEN file[p][k].state ELSE Deleted
             v == listing[p][k].version
         IN  /\ k \in Keys /\ plan[p][k] \in {Op("Upload"), Op("PublishDelete")}
             /\ change \in Change /\ v \in Nat
             /\ Value(change) \in held[p][k]
             /\ IsPresent(change) => Sighted(file[p][k], [state |-> change, version |-> v])
<1> USE DEF IndInv
<1> DEFINE f == file[p][k]
           v == listing[p][k].version
<1>1. k \in Keys /\ plan[p][k] \in {Op("Upload"), Op("PublishDelete")}
  BY DEF ToPublish
<1>2. f \in Resource /\ v \in Nat /\ f.version \in Nat /\ f.state \in ReplicaState(Contents)
  BY <1>1 DEF TypeOK, Resource
<1>3. Missing \in held[p][k] /\ Value(f.state) \in held[p][k]
  BY <1>1 DEF ClientInv, HostInv
<1>4. CASE plan[p][k] = Op("Upload")
  <2>1. IsPresent(f.state) /\ f.version = v
    BY <1>4, OpsDiffer DEF ToPublish
  <2>2. Sighted(f, [state |-> f.state, version |-> v])
    BY <1>2, <2>1 DEF Sighted
  <2> QED BY <1>1, <1>2, <1>3, <1>4, <2>1, <2>2, ChangeFacts
<1>5. CASE plan[p][k] # Op("Upload")
  BY <1>1, <1>2, <1>3, <1>5, ChangeFacts, Presence DEF Change
<1> QED BY <1>4, <1>5

LEMMA ToPublishCount ==
  ASSUME NEW p \in Clients
  PROVE  Cardinality(ToPublish(p)) \in Nat
<1>1. ToPublish(p) \in SUBSET Keys
  BY DEF ToPublish
<1>2. IsFiniteSet(ToPublish(p))
  BY <1>1, ReconcileAssumption, FS_Subset
<1> QED BY <1>2, FS_CardinalityType

LEMMA ReadUploadsStep ==
  ASSUME IndInv, NEW p \in Clients, ReadUploads(p)
  PROVE  IndInv'
<1> USE DEF IndInv
<1> DEFINE K == ToPublish(p)
           change(k) == IF plan[p][k] = Op("Upload") THEN file[p][k].state ELSE Deleted
           N == Cardinality(K)
           m == [mem[p] EXCEPT !.counter = @ + N]
           label == IF K = {} THEN "apply" ELSE "publish"
<1>1. /\ pc[p] = "read" /\ Goto(p, label)
      /\ mem' = [mem EXCEPT ![p].counter = @ + N]
      /\ UNCHANGED <<file, published, acks, disk, scan, listing, plan, job, held>>
      /\ UNCHANGED <<life, acts, faults, rewound>>
  BY DEF ReadUploads, boundVars
<1>2. PICK order \in [K -> 1..N] :
           /\ \A j, k \in K : order[j] = order[k] => j = k
           /\ batch' = [batch EXCEPT ![p] =
                {[commit  |-> NewCommit(p, k, mem[p].counter + order[k], change(k)),
                  version |-> listing[p][k].version] : k \in K}]
  BY DEF ReadUploads
<1> DEFINE entry(k) == [commit  |-> NewCommit(p, k, mem[p].counter + order[k], change(k)),
                        version |-> listing[p][k].version]
           B == {entry(k) : k \in K}
<1>3. N \in Nat
  BY ToPublishCount
<1>4. ClientInv(p) /\ mem[p] \in RuntimeState /\ mem[p].counter \in Nat
  BY DEF TypeOK, RuntimeState
<1> HIDE DEF N
<1>5. mem' = [mem EXCEPT ![p] = m]
  BY <1>1, <1>4 DEF RuntimeState, TypeOK
<1>6. /\ m \in RuntimeState /\ m.commits = mem[p].commits /\ m.cursors = mem[p].cursors
      /\ m.baselines = mem[p].baselines /\ m.counter = mem[p].counter + N
  BY <1>3, <1>4 DEF RuntimeState
<1> HIDE DEF m
<1>7. /\ mem' \in [Clients -> RuntimeState] /\ mem'[p] = m
      /\ \A q \in Clients \ {p} : mem'[q] = mem[q]
  BY <1>5, <1>6 DEF TypeOK
<1>8. pc' \in [Clients -> Label] /\ pc'[p] = label /\ \A q \in Clients \ {p} : pc'[q] = pc[q]
  BY <1>1, GotoFacts DEF Label
<1>9. job[p] = NoJob
  BY <1>1, <1>4 DEF ClientInv, CallInv
<1>10. ASSUME NEW k \in K, NEW b, b = entry(k)
       PROVE  /\ b \in [commit : Commit, version : Nat] /\ NewInv(p, b)'
              /\ b.commit.key = k /\ b.commit.id.counter = mem[p].counter + order[k]
              /\ plan[p][k] \in {Op("Upload"), Op("PublishDelete")}
  <2> DEFINE n == mem[p].counter + order[k]
  <2>1. order[k] \in Nat /\ order[k] >= 1 /\ order[k] <= N
    BY <1>2, <1>3
  <2>2. n \in Nat /\ n > mem[p].counter /\ n <= mem'[p].counter
    <3>1. mem'[p].counter = mem[p].counter + N
      BY <1>6, <1>7
    <3> QED BY <1>3, <1>4, <2>1, <3>1
  <2>3. pc'[p] = "publish"
    BY <1>8
  <2>4. /\ k \in Keys /\ plan[p][k] \in {Op("Upload"), Op("PublishDelete")}
        /\ change(k) \in Change /\ listing[p][k].version \in Nat
        /\ Value(change(k)) \in held[p][k]
        /\ IsPresent(change(k)) =>
             Sighted(file[p][k], [state |-> change(k), version |-> listing[p][k].version])
    BY ToPublishFacts
  <2>5. /\ Value(change(k)) \in held'[p][k]
        /\ IsPresent(change(k)) =>
             Sighted(file'[p][k], [state |-> change(k), version |-> listing[p][k].version])
    BY <1>1, <2>4
  <2> HIDE DEF n, change
  <2>6. b = [commit |-> NewCommit(p, k, n, change(k)), version |-> listing[p][k].version]
    BY <1>10 DEF n
  <2>7. mem'[p].commits = mem[p].commits
    BY <1>6, <1>7
  <2> QED BY <1>1, <2>2, <2>3, <2>4, <2>5, <2>6, <2>7, NewCommitFacts DEF n
<1> HIDE DEF entry
<1>11. B \subseteq [commit : Commit, version : Nat] /\ batch' = [batch EXCEPT ![p] = B]
  BY <1>2, <1>10 DEF entry
<1>12. /\ batch' \in [Clients -> SUBSET [commit : Commit, version : Nat]] /\ batch'[p] = B
       /\ \A q \in Clients \ {p} : batch'[q] = batch[q]
  BY <1>11 DEF TypeOK
<1>13. TypeOK'
  BY <1>1, <1>7, <1>8, <1>12 DEF TypeOK
<1>14. Moves(p)
  BY <1>1, <1>4, StaysMoves DEF ClientInv
<1>15. HostInv(p)' /\ StatesInv(p)'
  BY <1>1, <1>4, <1>6, <1>7, <1>14, HostSame, StatesKept DEF ClientInv
<1>16. CallInv(p)'
  BY <1>1, <1>4, <1>6, <1>7, <1>8, <1>9, <1>14, CallAdvance DEF ClientInv
<1>17. BatchInv(p)'
  <2>1. B # {} => pc'[p] = "publish"
    BY <1>8
  <2>2. ASSUME NEW b \in B, NEW d \in B,
               b.commit.id = d.commit.id \/ b.commit.key = d.commit.key
        PROVE  b = d
    <3>1. PICK j \in K : b = entry(j)
      OBVIOUS
    <3>2. PICK k \in K : d = entry(k)
      OBVIOUS
    <3>3. order[j] \in Nat /\ order[k] \in Nat
      BY <1>2, <1>3
    <3>4. /\ b.commit.key = j /\ b.commit.id.counter = mem[p].counter + order[j]
          /\ d.commit.key = k /\ d.commit.id.counter = mem[p].counter + order[k]
      BY <1>10, <3>1, <3>2
    <3>5. j = k \/ order[j] = order[k]
      BY <1>4, <2>2, <3>3, <3>4
    <3> QED BY <1>2, <3>1, <3>2, <3>5
  <2>3. ASSUME NEW b \in B
        PROVE  NewInv(p, b)' /\ plan[p][b.commit.key] \in {Op("Upload"), Op("PublishDelete")}
    <3>1. PICK k \in K : b = entry(k)
      OBVIOUS
    <3> QED BY <1>10, <3>1
  <2> QED BY <1>1, <1>9, <1>12, <2>1, <2>2, <2>3 DEF BatchInv
<1>18. \A q \in Clients \ {p} : Rests(q)
  BY <1>1, <1>7, <1>8, <1>12 DEF Rests
<1>19. mem'[p].counter >= mem[p].counter
  BY <1>3, <1>4, <1>6, <1>7
<1> QED BY <1>1, <1>13, <1>15, <1>16, <1>17, <1>18, <1>19, OwnStep DEF ClientInv


\* A view stays sound when commits with numbers above its cursors appear.
LEMMA SoundPublished ==
  ASSUME NEW m \in RuntimeState, NEW f, NEW h, NEW P, P \subseteq Commit, NEW X,
         SoundState(m, f, h, P, X), NEW C, C \subseteq Commit,
         \A c \in C : /\ c.id.counter > 0
                      /\ c.id.author \notin X =>
                           \A d \in P : d.id.author = c.id.author => d.id.counter < c.id.counter
  PROVE  SoundState(m, f, h, P \cup C, X)
<1>1. ASSUME NEW c \in C, c.id.author \notin X PROVE ~(c.id.counter <= m.cursors[c.id.author])
  <2> DEFINE a == c.id.author
  <2>1. a \in Clients /\ c.id.counter \in Nat
    BY DEF Commit, Id
  <2>2. CASE m.cursors[a] = 0
    BY <2>1, <2>2
  <2>3. CASE \E d \in P : d.id.author = a /\ d.id.counter = m.cursors[a]
    <3>1. PICK d \in P : d.id.author = a /\ d.id.counter = m.cursors[a]
      BY <2>3
    <3>2. d.id.counter \in Nat /\ d.id.counter < c.id.counter
      BY <1>1, <3>1 DEF Commit, Id
    <3> QED BY <2>1, <3>1, <3>2
  <2> QED BY <2>1, <2>2, <2>3 DEF SoundState
<1>2. \A c \in P \cup C :
        c.id.author \notin X /\ c.id.counter <= m.cursors[c.id.author] => c \in m.commits
  BY <1>1 DEF SoundState
<1>3. /\ m.commits \subseteq P \cup C
      /\ \A a \in Clients : m.cursors[a] = 0
                            \/ \E c \in P \cup C : c.id.author = a /\ c.id.counter = m.cursors[a]
  BY DEF SoundState
<1> QED BY <1>2, <1>3 DEF SoundState

\* The commits of a batch that is about to be published.
LEMMA BatchFacts ==
  ASSUME IndInv, NEW p \in Clients, pc[p] = "publish", NEW b \in batch[p]
  PROVE  LET c == b.commit
         IN  /\ c \in Commit /\ c.key \in Keys /\ c.id.counter \in Nat
             /\ c.id.author = p /\ c.id.life = life[p]
             /\ c.id.counter > 0 /\ c.id.counter <= mem[p].counter
             /\ \A d \in published : /\ d.id # c.id
                                     /\ p \notin rewound /\ d.id.author = p =>
                                          d.id.counter < c.id.counter
             /\ \A i \in c.parents : \E d \in published : d.id = i
<1> USE DEF IndInv
<1> DEFINE c == b.commit
<1>1. c \in Commit /\ c.key \in Keys /\ c.id.counter \in Nat /\ mem[p].commits \subseteq Commit
  BY DEF TypeOK, Commit, Id, RuntimeState
<1>2. NewInv(p, b) /\ mem[p].commits \subseteq published
  BY DEF ClientInv, BatchInv, StatesInv, SoundState
<1>3. \A i \in c.parents : \E d \in published : d.id = i
  <2>1. c.parents = Heads(mem[p].commits, c.key)
    BY <1>2 DEF NewInv
  <2>2. \A i \in Heads(mem[p].commits, c.key) : \E d \in mem[p].commits : d.id = i
    BY DEF Heads, HeadCommits, ResourceCommits
  <2> QED BY <1>2, <2>1, <2>2
<1> QED BY <1>1, <1>2, <1>3 DEF NewInv

LEMMA PublishStep ==
  ASSUME IndInv, NEW p \in Clients, Publish(p)
  PROVE  IndInv'
<1> USE DEF IndInv
<1> DEFINE C == {b.commit : b \in batch[p]}
<1>1. /\ pc[p] = "publish" /\ Goto(p, "integrate") /\ published' = published \cup C
      /\ UNCHANGED <<file, acks, mem, disk, scan, listing, plan, batch, job, held>>
      /\ UNCHANGED <<life, acts, faults, rewound>>
  BY DEF Publish, callVars, boundVars
<1>2. pc' \in [Clients -> Label] /\ pc'[p] = "integrate" /\ \A q \in Clients \ {p} : pc'[q] = pc[q]
  BY <1>1, GotoFacts DEF Label
<1>3. ASSUME NEW c \in C
      PROVE  /\ c \in Commit /\ c.id.counter \in Nat
             /\ c.id.author = p /\ c.id.life = life[p]
             /\ c.id.counter > 0 /\ c.id.counter <= mem[p].counter
             /\ \A d \in published : /\ d.id # c.id
                                     /\ p \notin rewound /\ d.id.author = p =>
                                          d.id.counter < c.id.counter
             /\ \A i \in c.parents : \E d \in published : d.id = i
  BY <1>1, BatchFacts
<1>4. \A b, d \in batch[p] : b.commit.id = d.commit.id \/ b.commit.key = d.commit.key => b = d
  BY DEF ClientInv, BatchInv
<1>5. \A c, d \in C : c.id = d.id => c = d
  BY <1>4
<1>6. \A c \in C : \E b \in batch[p] : c = b.commit
  OBVIOUS
<1>7. \A b \in batch[p] : b.commit \in C
  OBVIOUS
<1> HIDE DEF C
<1>8. TypeOK'
  BY <1>1, <1>2, <1>3 DEF TypeOK
<1>9. GraphInv'
  <2>1. \E n \in Nat : \A c \in published' : c.id.counter <= n
    <3>1. PICK m \in Nat : \A c \in published : c.id.counter <= m
      BY DEF GraphInv
    <3>2. mem[p].counter \in Nat
      BY DEF TypeOK, RuntimeState
    <3>3. m + mem[p].counter \in Nat
      BY <3>1, <3>2
    <3>4. ASSUME NEW c \in published' PROVE c.id.counter <= m + mem[p].counter
      <4>1. c.id.counter \in Nat
        BY <1>8 DEF TypeOK, Commit, Id
      <4>2. CASE c \in published
        <5>1. c.id.counter <= m
          BY <3>1, <4>2
        <5> QED BY <3>1, <3>2, <4>1, <5>1
      <4>3. CASE c \in C
        <5>1. c.id.counter <= mem[p].counter
          BY <1>3, <4>3
        <5> QED BY <3>1, <3>2, <4>1, <5>1
      <4> QED BY <1>1, <4>2, <4>3
    <3> QED BY <3>3, <3>4
  <2>2. \A c, d \in published' : c.id = d.id => c = d
    BY <1>1, <1>3, <1>5 DEF GraphInv
  <2>3. ASSUME NEW c \in published'
        PROVE  LET a == c.id.author
               IN  /\ c.id.counter > 0 /\ c.id.life <= life[a]
                   /\ c.id.life = life[a] \/ a \notin rewound => c.id.counter <= mem[a].counter
                   /\ \A i \in c.parents : \E d \in published' : d.id = i
    <3>1. CASE c \in published
      BY <1>1, <3>1 DEF GraphInv
    <3>2. CASE c \in C
      <4>1. life[p] \in Nat
        BY DEF TypeOK
      <4> QED BY <1>1, <1>3, <3>2, <4>1
    <3> QED BY <1>1, <3>1, <3>2
  <2> QED BY <1>1, <2>1, <2>2, <2>3 DEF GraphInv
<1>10. ASSUME NEW q \in Clients, NEW m \in RuntimeState,
              SoundState(m, file[q], held[q], published, rewound)
       PROVE  SoundState(m, file[q], held[q], published', rewound)
  <2>1. published \subseteq Commit /\ C \subseteq Commit
    BY <1>3 DEF TypeOK
  <2> QED BY <1>1, <1>3, <1>10, <2>1, SoundPublished
<1>11. ASSUME NEW q \in Clients PROVE StatesInv(q)'
  <2>1. mem[q] \in RuntimeState /\ disk[q] \in RuntimeState
    BY DEF TypeOK
  <2> QED BY <1>1, <1>10, <2>1 DEF ClientInv, StatesInv
<1>12. ASSUME NEW q \in Clients PROVE HostInv(q)'
  BY <1>1 DEF ClientInv, HostInv
<1>13. ASSUME NEW q \in Clients, NEW b \in batch[q] PROVE NewInv(q, b)'
  <2>1. NewInv(q, b)
    BY DEF ClientInv, BatchInv
  <2>2. CASE q = p
    BY <1>1, <1>2, <1>7, <2>1, <2>2 DEF NewInv
  <2>3. CASE q # p
    <3>1. \A d \in C : d.id # b.commit.id /\ d.id.author # q
      BY <1>3, <2>1, <2>3 DEF NewInv
    <3> QED BY <1>1, <1>2, <2>1, <2>3, <3>1 DEF NewInv
  <2> QED BY <2>2, <2>3
<1>14. ASSUME NEW q \in Clients PROVE BatchInv(q)'
  <2>1. CASE q = p
    BY <1>1, <1>2, <1>13, <2>1 DEF ClientInv, BatchInv
  <2>2. CASE q # p
    BY <1>1, <1>2, <1>13, <2>2 DEF ClientInv, BatchInv
  <2> QED BY <2>1, <2>2
<1>15. ASSUME NEW q \in Clients PROVE CallInv(q)'
  <2>1. Moves(q) /\ CallInv(q)
    BY <1>1, StaysMoves DEF ClientInv
  <2>2. CASE q = p
    BY <1>1, <1>2, <2>1, <2>2, CallAdvance
  <2>3. CASE q # p
    BY <1>1, <1>2, <2>1, <2>3, CallFrame
  <2> QED BY <2>2, <2>3
<1> QED BY <1>8, <1>9, <1>11, <1>12, <1>14, <1>15 DEF ClientInv


\* The baseline a commit of the batch becomes.
LEMMA BaselineOfFacts ==
  ASSUME IndInv, NEW p \in Clients, NEW b \in batch[p]
  PROVE  /\ BaselineOf(b) \in Baseline /\ BaselineOf(b).state = b.commit.change
         /\ b.commit.key \in Keys
         /\ Value(b.commit.change) \in held[p][b.commit.key]
         /\ IsPresent(b.commit.change) => Sighted(file[p][b.commit.key], BaselineOf(b))
         /\ IsPresent(b.commit.change) => BaselineOf(b).version = b.version
<1> USE DEF IndInv
<1> DEFINE c == b.commit
<1>1. c.change \in Change /\ b.version \in Nat /\ c.key \in Keys
  BY DEF TypeOK, Commit
<1>2. /\ BaselineOf(b) \in Baseline /\ BaselineOf(b).state = c.change
      /\ IsPresent(c.change) => BaselineOf(b).version = b.version
  BY <1>1, ChangeFacts DEF BaselineOf, Baseline
<1>3. NewInv(p, b)
  BY DEF ClientInv, BatchInv
<1>4. IsPresent(c.change) => Sighted(file[p][c.key], [state |-> c.change, version |-> b.version])
  BY <1>3 DEF NewInv
<1>5. IsPresent(c.change) => Sighted(file[p][c.key], BaselineOf(b))
  BY <1>2, <1>4 DEF Sighted
<1> QED BY <1>1, <1>2, <1>3, <1>5 DEF NewInv

\* What Integrate does to the client's state.
LEMMA IntegrateFacts ==
  ASSUME IndInv, NEW p \in Clients, Integrate(p)
  PROVE  LET C == {b.commit : b \in batch[p]}
             m == mem'[p]
         IN  /\ pc[p] = "integrate"
             /\ mem' \in [Clients -> RuntimeState]
             /\ \A q \in Clients \ {p} : mem'[q] = mem[q]
             /\ m.commits = mem[p].commits \cup C /\ m.cursors = mem[p].cursors
             /\ m.counter = mem[p].counter
             /\ C \subseteq published
             /\ \A b \in batch[p] : m.baselines[b.commit.key] = BaselineOf(b)
             /\ \A k \in Keys :
                  (\A b \in batch[p] : b.commit.key # k) => m.baselines[k] = mem[p].baselines[k]
<1> USE DEF IndInv
<1> DEFINE C == {b.commit : b \in batch[p]}
           bases == [k \in Keys |->
              IF \E b \in batch[p] : b.commit.key = k
              THEN BaselineOf(CHOOSE b \in batch[p] : b.commit.key = k) ELSE mem[p].baselines[k]]
           confs == [k \in Keys |->
              IF job[p].call = "resolve" /\ job[p].key = k THEN NoConflict
              ELSE mem[p].conflicts[k]]
           m == [mem[p] EXCEPT !.commits = @ \cup C, !.baselines = bases, !.conflicts = confs]
<1>1. mem \in [Clients -> RuntimeState] /\ mem[p] \in RuntimeState
  BY DEF TypeOK
<1>2. mem' = [mem EXCEPT ![p] = m]
  BY <1>1 DEF Integrate, RuntimeState
<1>3. pc[p] = "integrate"
  BY DEF Integrate
<1>4. C \subseteq published /\ C \subseteq Commit
  <2>1. ASSUME NEW b \in batch[p] PROVE b.commit \in published
    <3>1. NewInv(p, b)
      BY DEF ClientInv, BatchInv
    <3> QED BY <1>3, <3>1 DEF NewInv
  <2> QED BY <2>1 DEF TypeOK
<1>5. ASSUME NEW k \in Keys, NEW b \in batch[p], b.commit.key = k
      PROVE  (CHOOSE d \in batch[p] : d.commit.key = k) = b
  BY <1>5 DEF ClientInv, BatchInv
<1>6. ASSUME NEW b \in batch[p] PROVE bases[b.commit.key] = BaselineOf(b)
  BY <1>5, BaselineOfFacts
<1>7. ASSUME NEW k \in Keys, \A b \in batch[p] : b.commit.key # k
      PROVE  bases[k] = mem[p].baselines[k]
  BY <1>7
<1>8. bases \in [Keys -> Baseline]
  <2>1. ASSUME NEW k \in Keys PROVE bases[k] \in Baseline
    <3>1. CASE \E b \in batch[p] : b.commit.key = k
      BY <1>6, <3>1, BaselineOfFacts
    <3>2. CASE \A b \in batch[p] : b.commit.key # k
      BY <1>1, <1>7, <3>2 DEF RuntimeState
    <3> QED BY <3>1, <3>2
  <2> QED BY <2>1
<1>9. confs \in [Keys -> ConflictRecord \cup {NoConflict}]
  BY <1>1 DEF RuntimeState
<1> HIDE DEF C, bases, confs
<1>10. /\ m \in RuntimeState /\ m.commits = mem[p].commits \cup C /\ m.cursors = mem[p].cursors
       /\ m.counter = mem[p].counter /\ m.baselines = bases
  BY <1>1, <1>4, <1>8, <1>9 DEF RuntimeState
<1> HIDE DEF m
<1>11. /\ mem' \in [Clients -> RuntimeState] /\ mem'[p] = m
       /\ \A q \in Clients \ {p} : mem'[q] = mem[q]
  BY <1>1, <1>2, <1>10
<1> QED BY <1>3, <1>4, <1>6, <1>7, <1>10, <1>11 DEF C

LEMMA IntegrateStep ==
  ASSUME IndInv, NEW p \in Clients, Integrate(p)
  PROVE  IndInv'
<1> USE DEF IndInv
<1> DEFINE C == {b.commit : b \in batch[p]}
           m == mem'[p]
<1>1. /\ pc[p] = "integrate" /\ Goto(p, "save") /\ batch' = [batch EXCEPT ![p] = {}]
      /\ UNCHANGED <<file, published, acks, disk, scan, listing, plan, job, held>>
      /\ UNCHANGED <<life, acts, faults, rewound>>
  BY DEF Integrate, boundVars
<1>2. /\ mem' \in [Clients -> RuntimeState]
      /\ \A q \in Clients \ {p} : mem'[q] = mem[q]
      /\ m.commits = mem[p].commits \cup C /\ m.cursors = mem[p].cursors
      /\ m.counter = mem[p].counter
      /\ C \subseteq published
      /\ \A b \in batch[p] : m.baselines[b.commit.key] = BaselineOf(b)
      /\ \A k \in Keys :
           (\A b \in batch[p] : b.commit.key # k) => m.baselines[k] = mem[p].baselines[k]
  BY IntegrateFacts
<1>3. \A c \in C : \E b \in batch[p] : c = b.commit
  OBVIOUS
<1>4. \A b \in batch[p] : b.commit \in C
  OBVIOUS
<1> HIDE DEF C, m
<1>5. pc' \in [Clients -> Label] /\ pc'[p] = "save" /\ \A q \in Clients \ {p} : pc'[q] = pc[q]
  BY <1>1, GotoFacts DEF Label
<1>6. /\ batch' \in [Clients -> SUBSET [commit : Commit, version : Nat]] /\ batch'[p] = {}
      /\ \A q \in Clients \ {p} : batch'[q] = batch[q]
  BY <1>1 DEF TypeOK
<1>7. TypeOK'
  BY <1>1, <1>2, <1>5, <1>6 DEF TypeOK
<1>8. ClientInv(p) /\ Moves(p)
  BY <1>1, StaysMoves DEF ClientInv
<1>9. SoundState(m, file[p], held[p], published, rewound)
  <2>1. SoundState(mem[p], file[p], held[p], published, rewound)
    BY <1>8 DEF ClientInv, StatesInv
  <2>2. /\ m.commits \subseteq published
        /\ \A a \in Clients :
             m.cursors[a] = 0 \/ \E c \in published : c.id.author = a /\ c.id.counter = m.cursors[a]
        /\ \A c \in published :
             c.id.author \notin rewound /\ c.id.counter <= m.cursors[c.id.author] => c \in m.commits
    BY <1>2, <2>1 DEF SoundState
  <2>4. ASSUME NEW k \in Keys
        PROVE  LET b == m.baselines[k]
               IN  /\ b.state # NoBaseline =>
                        Value(b.state) \in held[p][k] /\ b.state \in ContentsIn(m.commits, k)
                   /\ IsPresent(b.state) => Sighted(file[p][k], b)
    <3>1. CASE \A b \in batch[p] : b.commit.key # k
      <4>1. ContentsIn(mem[p].commits, k) \subseteq ContentsIn(m.commits, k)
        BY <1>2 DEF ContentsIn, ResourceCommits
      <4> QED BY <1>2, <2>1, <3>1, <4>1 DEF SoundState
    <3>2. CASE \E b \in batch[p] : b.commit.key = k
      <4>1. PICK b \in batch[p] : b.commit.key = k
        BY <3>2
      <4>2. m.baselines[k] = BaselineOf(b)
        BY <1>2, <4>1
      <4>3. b.commit.change \in ContentsIn(m.commits, k)
        BY <1>2, <1>4, <4>1 DEF ContentsIn, ResourceCommits
      <4> QED BY <4>1, <4>2, <4>3, BaselineOfFacts
    <3> QED BY <3>1, <3>2
  <2> QED BY <2>2, <2>4 DEF SoundState
<1>10. StatesInv(p)'
  BY <1>1, <1>8, <1>9 DEF ClientInv, StatesInv, m
<1>11. HostInv(p)'
  BY <1>1, <1>8, HostSame DEF ClientInv
<1>12. BatchInv(p)'
  BY <1>5, <1>6 DEF BatchInv
<1>13. CallInv(p)'
  <2>1. ASSUME NEW k \in Keys, plan[p][k] \in Mutations \cup Records
        PROVE  m.baselines[k] = mem[p].baselines[k]
               /\ RemoteState(m.commits, k) = RemoteState(mem[p].commits, k)
    <3>1. job[p] = NoJob
      BY <1>8, <2>1, NoopFacts DEF ClientInv, CallInv
    <3>2. \A b \in batch[p] : b.commit.key # k
      BY <1>8, <2>1, <3>1, NoopFacts DEF ClientInv, BatchInv
    <3>3. \A d \in C : d.key # k
      BY <1>3, <3>2
    <3>4. RemoteState(mem[p].commits \cup C, k) = RemoteState(mem[p].commits, k)
      BY <3>3, RemoteStateLocal
    <3> QED BY <1>2, <3>2, <3>4
  <2> QED BY <1>1, <1>5, <1>8, <2>1, CallAdvance DEF ClientInv, m
<1>14. \A q \in Clients \ {p} : Rests(q)
  BY <1>1, <1>2, <1>5, <1>6 DEF Rests
<1>15. mem'[p].counter >= mem[p].counter
  BY <1>2 DEF m, TypeOK, RuntimeState
<1> QED BY <1>1, <1>7, <1>10, <1>11, <1>12, <1>13, <1>14, <1>15, OwnStep DEF ClientInv


---------------------------------------------------------------------------
(* execute: saving, and the ends of a run.                                 *)

LEMMA SaveStep ==
  ASSUME IndInv, NEW p \in Clients, Save(p)
  PROVE  IndInv'
<1> USE DEF IndInv
<1> DEFINE label == IF job[p] = NoJob THEN "apply" ELSE "idle"
<1>1. /\ pc[p] = "save" /\ Goto(p, label)
      /\ disk' = [disk EXCEPT ![p] = mem[p]] /\ job' = [job EXCEPT ![p] = NoJob]
      /\ UNCHANGED <<file, published, acks, mem, scan, listing, plan, batch, held>>
      /\ UNCHANGED <<life, acts, faults, rewound>>
  BY DEF Save, boundVars
<1>2. pc' \in [Clients -> Label] /\ pc'[p] = label /\ \A q \in Clients \ {p} : pc'[q] = pc[q]
  BY <1>1, GotoFacts DEF Label
<1>3. /\ disk' \in [Clients -> RuntimeState] /\ disk'[p] = mem[p]
      /\ job' \in [Clients -> Job \cup {NoJob}] /\ job'[p] = NoJob
      /\ \A q \in Clients \ {p} : disk'[q] = disk[q] /\ job'[q] = job[q]
  BY <1>1 DEF TypeOK
<1>4. TypeOK'
  BY <1>1, <1>2, <1>3 DEF TypeOK
<1>5. ClientInv(p) /\ Moves(p)
  BY <1>1, StaysMoves DEF ClientInv
<1>6. batch[p] = {}
  BY <1>1, <1>5 DEF ClientInv, BatchInv
<1>7. HostInv(p)' /\ BatchInv(p)' /\ StatesInv(p)'
  BY <1>1, <1>3, <1>5, <1>6, HostSame, EmptyBatch, StatesKept DEF ClientInv
<1>8. CallInv(p)'
  <2>1. CASE job[p] = NoJob
    BY <1>1, <1>2, <1>3, <1>5, <2>1, CallAdvance DEF ClientInv
  <2>2. CASE job[p] # NoJob
    <3>1. \A k \in Keys : plan[p][k] = Op("Noop")
      BY <1>5, <2>2 DEF ClientInv, CallInv
    <3> QED BY <1>1, <1>2, <1>3, <2>2, <3>1, QuietCall
  <2> QED BY <2>1, <2>2
<1>9. \A q \in Clients \ {p} : Rests(q)
  BY <1>1, <1>2, <1>3 DEF Rests
<1>10. mem'[p].counter >= mem[p].counter
  BY <1>1 DEF TypeOK, RuntimeState
<1> QED BY <1>1, <1>4, <1>7, <1>8, <1>9, <1>10, OwnStep DEF ClientInv

LEMMA DoneFacts ==
  ASSUME TypeOK, NEW p \in Clients, NEW k \in Keys, Done(p, k)
  PROVE  /\ plan' \in [Clients -> [Keys -> PlanOperation]]
         /\ \A q \in Clients \ {p} : plan'[q] = plan[q]
         /\ plan'[p][k] = Op("Noop")
         /\ \A j \in Keys \ {k} : plan'[p][j] = plan[p][j]
<1>1. plan \in [Clients -> [Keys -> PlanOperation]]
  BY DEF TypeOK
<1>2. plan' = [plan EXCEPT ![p][k] = Op("Noop")]
  BY DEF Done
<1>3. Op("Noop") \in PlanOperation
  BY NoopFacts
<1> HIDE DEF Op
<1> QED BY <1>1, <1>2, <1>3

\* An operation fails: it is dropped and the run goes on.
LEMMA DroppedStep ==
  ASSUME IndInv, NEW p \in Clients, NEW k \in Keys,
         pc[p] = "apply", Done(p, k), Goto(p, "save"), faults' \in Nat,
         UNCHANGED <<file, published, acks, mem, disk, scan, listing, batch, job, held, life, acts,
                     rewound>>
  PROVE  IndInv'
<1> USE DEF IndInv
<1>1. pc' \in [Clients -> Label] /\ pc'[p] = "save" /\ \A q \in Clients \ {p} : pc'[q] = pc[q]
  BY GotoFacts DEF Label
<1>2. /\ plan' \in [Clients -> [Keys -> PlanOperation]]
      /\ \A q \in Clients \ {p} : plan'[q] = plan[q]
      /\ \A j \in Keys : plan'[p][j] = plan[p][j] \/ plan'[p][j] = Op("Noop")
  BY DoneFacts
<1>3. TypeOK'
  BY <1>1, <1>2 DEF TypeOK
<1>4. ClientInv(p) /\ Moves(p)
  BY StaysMoves DEF ClientInv
<1>5. batch[p] = {} /\ job[p] = NoJob
  BY <1>4 DEF ClientInv, BatchInv, CallInv
<1>6. HostInv(p)' /\ BatchInv(p)' /\ StatesInv(p)'
  BY <1>4, <1>5, HostSame, EmptyBatch, StatesKept DEF ClientInv
<1>7. CallInv(p)'
  BY <1>1, <1>2, <1>4, CallAdvance DEF ClientInv
<1>8. \A q \in Clients \ {p} : Rests(q)
  BY <1>1, <1>2 DEF Rests
<1>9. mem'[p].counter >= mem[p].counter
  BY DEF TypeOK, RuntimeState
<1> QED BY <1>3, <1>6, <1>7, <1>8, <1>9, OwnStep DEF ClientInv

LEMMA NoListingFacts ==
  ASSUME TypeOK, NEW p \in Clients, HostInv(p), file' = file, held' = held,
         listing'[p] = NoListing
  PROVE  HostInv(p)' /\ NoListing \in [Keys -> Resource] /\ NoPlan \in [Keys -> PlanOperation]
<1>1. Nothing \in Resource /\ Nothing.state = Missing
  BY DEF Nothing, Resource, ReplicaState
<1>2. ASSUME NEW k \in Keys
      PROVE  /\ NoListing[k] = Nothing
             /\ Sighted(file[p][k], Nothing) /\ Value(Nothing.state) \in held[p][k]
  <2>1. file[p][k] \in Resource
    BY DEF TypeOK
  <2> QED BY <1>1, <2>1, SightedFile, ChangeFacts DEF HostInv, NoListing
<1>3. HostInv(p)'
  BY <1>2 DEF HostInv
<1> QED BY <1>1, <1>3, NoopFacts DEF NoListing, NoPlan

LEMMA AcknowledgeStep ==
  ASSUME IndInv, NEW p \in Clients, Acknowledge(p)
  PROVE  IndInv'
<1> USE DEF IndInv
<1> DEFINE A == [k \in Keys |-> IF mem[p].conflicts[k] = NoConflict
                                THEN Heads(mem[p].commits, k) ELSE acks[p][k]]
<1>1. /\ pc[p] = "apply" /\ Goto(p, "idle") /\ acks' = [acks EXCEPT ![p] = A]
      /\ disk' = [disk EXCEPT ![p] = mem[p]]
      /\ listing' = [listing EXCEPT ![p] = NoListing]
      /\ plan' = [plan EXCEPT ![p] = NoPlan]
      /\ UNCHANGED <<file, published, mem, scan, batch, job, held, life, acts, faults, rewound>>
  BY DEF Acknowledge, boundVars
<1>2. pc' \in [Clients -> Label] /\ pc'[p] = "idle" /\ \A q \in Clients \ {p} : pc'[q] = pc[q]
  BY <1>1, GotoFacts DEF Label
<1>3. ClientInv(p) /\ Moves(p)
  BY <1>1, StaysMoves DEF ClientInv
<1>4. listing'[p] = NoListing
  BY <1>1 DEF TypeOK
<1>5. HostInv(p)' /\ NoListing \in [Keys -> Resource] /\ NoPlan \in [Keys -> PlanOperation]
  BY <1>1, <1>3, <1>4, NoListingFacts DEF ClientInv
<1>6. A \in [Keys -> SUBSET Id]
  <2>1. mem[p].commits \subseteq Commit /\ acks[p] \in [Keys -> SUBSET Id]
    BY DEF TypeOK, RuntimeState
  <2> QED BY <2>1, HeadsFacts
<1> HIDE DEF A
<1>7. /\ acks' \in [Clients -> [Keys -> SUBSET Id]]
      /\ disk' \in [Clients -> RuntimeState] /\ disk'[p] = mem[p]
      /\ listing' \in [Clients -> [Keys -> Resource]]
      /\ plan' \in [Clients -> [Keys -> PlanOperation]] /\ plan'[p] = NoPlan
      /\ \A q \in Clients \ {p} : /\ disk'[q] = disk[q] /\ listing'[q] = listing[q]
                                  /\ plan'[q] = plan[q]
  BY <1>1, <1>5, <1>6 DEF TypeOK
<1>8. TypeOK'
  BY <1>1, <1>2, <1>7 DEF TypeOK
<1>9. batch[p] = {} /\ job[p] = NoJob
  BY <1>1, <1>3 DEF ClientInv, BatchInv, CallInv
<1>10. BatchInv(p)' /\ StatesInv(p)'
  BY <1>1, <1>3, <1>7, <1>9, EmptyBatch, StatesKept DEF ClientInv
<1>11. CallInv(p)'
  BY <1>1, <1>2, <1>7, <1>9, QuietCall DEF NoPlan
<1>12. \A q \in Clients \ {p} : Rests(q)
  BY <1>1, <1>2, <1>7 DEF Rests
<1>13. mem'[p].counter >= mem[p].counter
  BY <1>1 DEF TypeOK, RuntimeState
<1> QED BY <1>1, <1>5, <1>8, <1>10, <1>11, <1>12, <1>13, OwnStep DEF ClientInv

\* A call that is given up leaves nothing under way.
LEMMA AbandonFacts ==
  ASSUME TypeOK, NEW p \in Clients, HostInv(p), Abandon(p), file' = file, held' = held
  PROVE  /\ pc' \in [Clients -> Label] /\ scan' \in [Clients -> Scan]
         /\ listing' \in [Clients -> [Keys -> Resource]]
         /\ plan' \in [Clients -> [Keys -> PlanOperation]]
         /\ batch' \in [Clients -> SUBSET [commit : Commit, version : Nat]]
         /\ job' \in [Clients -> Job \cup {NoJob}]
         /\ \A q \in Clients \ {p} : /\ pc'[q] = pc[q] /\ listing'[q] = listing[q]
                                     /\ plan'[q] = plan[q] /\ batch'[q] = batch[q]
                                     /\ job'[q] = job[q]
         /\ HostInv(p)' /\ BatchInv(p)' /\ CallInv(p)'
<1>1. /\ Goto(p, "idle")
      /\ listing' = [listing EXCEPT ![p] = NoListing]
      /\ plan' = [plan EXCEPT ![p] = NoPlan]
      /\ batch' = [batch EXCEPT ![p] = {}]
      /\ job' = [job EXCEPT ![p] = NoJob]
  BY DEF Abandon
<1>2. /\ pc' \in [Clients -> Label] /\ pc'[p] = "idle" /\ \A q \in Clients \ {p} : pc'[q] = pc[q]
      /\ scan' \in [Clients -> Scan]
  BY <1>1, GotoFacts DEF Label, Abandon, TypeOK, Scan, NoScan
<1>3. listing'[p] = NoListing
  BY <1>1 DEF TypeOK
<1>4. HostInv(p)' /\ NoListing \in [Keys -> Resource] /\ NoPlan \in [Keys -> PlanOperation]
  BY <1>3, NoListingFacts
<1>5. /\ listing' \in [Clients -> [Keys -> Resource]]
      /\ plan' \in [Clients -> [Keys -> PlanOperation]] /\ plan'[p] = NoPlan
      /\ batch' \in [Clients -> SUBSET [commit : Commit, version : Nat]] /\ batch'[p] = {}
      /\ job' \in [Clients -> Job \cup {NoJob}] /\ job'[p] = NoJob
      /\ \A q \in Clients \ {p} : /\ listing'[q] = listing[q] /\ plan'[q] = plan[q]
                                  /\ batch'[q] = batch[q] /\ job'[q] = job[q]
  BY <1>1, <1>4 DEF TypeOK
<1>6. BatchInv(p)' /\ CallInv(p)'
  BY <1>2, <1>5, EmptyBatch, QuietCall DEF NoPlan
<1> QED BY <1>2, <1>4, <1>5, <1>6

\* The call returns an error.
LEMMA AbandonStep ==
  ASSUME IndInv, NEW p \in Clients, Abandon(p), faults' \in Nat,
         UNCHANGED <<file, published, acks, mem, disk, held, life, acts, rewound>>
  PROVE  IndInv'
<1> USE DEF IndInv
<1>1. ClientInv(p) /\ Moves(p)
  BY StaysMoves DEF ClientInv
<1>2. /\ pc' \in [Clients -> Label] /\ scan' \in [Clients -> Scan]
      /\ listing' \in [Clients -> [Keys -> Resource]]
      /\ plan' \in [Clients -> [Keys -> PlanOperation]]
      /\ batch' \in [Clients -> SUBSET [commit : Commit, version : Nat]]
      /\ job' \in [Clients -> Job \cup {NoJob}]
      /\ \A q \in Clients \ {p} : /\ pc'[q] = pc[q] /\ listing'[q] = listing[q]
                                  /\ plan'[q] = plan[q] /\ batch'[q] = batch[q]
                                  /\ job'[q] = job[q]
      /\ HostInv(p)' /\ BatchInv(p)' /\ CallInv(p)'
  BY <1>1, AbandonFacts DEF ClientInv
<1>3. TypeOK'
  BY <1>2 DEF TypeOK
<1>4. StatesInv(p)'
  BY <1>1, StatesKept DEF ClientInv
<1>5. \A q \in Clients \ {p} : Rests(q)
  BY <1>2 DEF Rests
<1>6. mem'[p].counter >= mem[p].counter
  BY DEF TypeOK, RuntimeState
<1> QED BY <1>2, <1>3, <1>4, <1>5, <1>6, OwnStep DEF ClientInv


LEMMA CrashStep ==
  ASSUME IndInv, NEW p \in Clients, Crash(p)
  PROVE  IndInv'
<1> USE DEF IndInv
<1> DEFINE new == {a \in {p} : \E c \in published : c.id.author = a /\ c.id.counter > disk[p].counter}
<1>1. /\ Abandon(p) /\ mem' = [mem EXCEPT ![p] = disk[p]]
      /\ life' = [life EXCEPT ![p] = @ + 1] /\ faults' = faults + 1
      /\ rewound' = rewound \cup new
      /\ UNCHANGED <<file, published, acks, disk, held, acts>>
  BY DEF Crash
<1>2. ClientInv(p) /\ Moves(p) /\ disk[p] \in RuntimeState
  BY <1>1, StaysMoves DEF ClientInv, TypeOK
<1>3. /\ pc' \in [Clients -> Label] /\ scan' \in [Clients -> Scan]
      /\ listing' \in [Clients -> [Keys -> Resource]]
      /\ plan' \in [Clients -> [Keys -> PlanOperation]]
      /\ batch' \in [Clients -> SUBSET [commit : Commit, version : Nat]]
      /\ job' \in [Clients -> Job \cup {NoJob}]
      /\ \A q \in Clients \ {p} : /\ pc'[q] = pc[q] /\ listing'[q] = listing[q]
                                  /\ plan'[q] = plan[q] /\ batch'[q] = batch[q]
                                  /\ job'[q] = job[q]
      /\ HostInv(p)' /\ BatchInv(p)' /\ CallInv(p)'
  BY <1>1, <1>2, AbandonFacts DEF ClientInv
<1>4. /\ mem' \in [Clients -> RuntimeState] /\ mem'[p] = disk[p]
      /\ life' \in [Clients -> Nat] /\ life'[p] = life[p] + 1
      /\ \A q \in Clients \ {p} : mem'[q] = mem[q] /\ life'[q] = life[q]
  BY <1>1, <1>2 DEF TypeOK
<1>5. rewound' \subseteq Clients /\ rewound \subseteq rewound' /\ faults' \in Nat
  BY <1>1 DEF TypeOK
<1>6. TypeOK'
  BY <1>1, <1>3, <1>4, <1>5 DEF TypeOK
<1>7. GraphInv'
  <2>1. ASSUME NEW c \in published
        PROVE  LET a == c.id.author
               IN  /\ c.id.counter > 0 /\ c.id.life <= life'[a]
                   /\ c.id.life = life'[a] \/ a \notin rewound' => c.id.counter <= mem'[a].counter
                   /\ \A i \in c.parents : \E d \in published : d.id = i
    <3> DEFINE a == c.id.author
    <3>1. /\ c.id.counter > 0 /\ c.id.life <= life[a]
          /\ c.id.life = life[a] \/ a \notin rewound => c.id.counter <= mem[a].counter
          /\ \A i \in c.parents : \E d \in published : d.id = i
      BY DEF GraphInv
    <3>2. a \in Clients /\ c.id.counter \in Nat /\ c.id.life \in Nat /\ life[a] \in Nat
      BY DEF TypeOK, Commit, Id
    <3>3. CASE a # p
      BY <1>4, <1>5, <3>1, <3>2, <3>3
    <3>4. CASE a = p
      <4>1. c.id.life < life'[a]
        BY <1>4, <3>1, <3>2, <3>4
      <4>2. a \notin rewound' => ~(c.id.counter > disk[p].counter)
        BY <1>1, <3>4
      <4>3. disk[p].counter \in Nat
        BY <1>2 DEF RuntimeState
      <4>4. life'[a] \in Nat
        BY <1>4, <3>2
      <4>5. a \notin rewound' => c.id.counter <= mem'[a].counter
        BY <1>4, <3>2, <3>4, <4>2, <4>3
      <4>6. c.id.life <= life'[a] /\ c.id.life # life'[a]
        BY <3>2, <4>1, <4>4
      <4> QED BY <3>1, <4>5, <4>6
    <3> QED BY <3>3, <3>4
  <2> QED BY <1>1, <2>1 DEF GraphInv
<1>8. ASSUME NEW q \in Clients \ {p} PROVE ClientInv(q)'
  BY <1>1, <1>3, <1>4, <1>5, RestFrame DEF Rests
<1>9. StatesInv(p)'
  <2>1. SoundState(disk[p], file'[p], held'[p], published', rewound')
    BY <1>1, <1>2, <1>5, StatesFrame DEF ClientInv
  <2> QED BY <1>1, <1>4, <2>1 DEF StatesInv
<1> QED BY <1>3, <1>6, <1>7, <1>8, <1>9 DEF ClientInv

\* What the loop of execute does to the client's state.
LEMMA RecordFacts ==
  ASSUME IndInv, NEW p \in Clients, NEW k \in Keys, NEW v \in Nat,
         plan[p][k] \in Mutations \cup Records, RecordBaseline(p, k, v)
  PROVE  LET s == BaselineAfter(plan[p][k], listing[p][k].state, mem[p].baselines[k].state,
                                RemoteState(mem[p].commits, k))
             m == mem'[p]
         IN  /\ mem' \in [Clients -> RuntimeState]
             /\ \A q \in Clients \ {p} : mem'[q] = mem[q]
             /\ m.commits = mem[p].commits /\ m.cursors = mem[p].cursors
             /\ m.counter = mem[p].counter
             /\ \A j \in Keys \ {k} : m.baselines[j] = mem[p].baselines[j]
             /\ m.baselines[k].state = s
             /\ IsPresent(s) => m.baselines[k].version = v
             /\ s \in Change /\ s \in ContentsIn(mem[p].commits, k)
<1> USE DEF IndInv
<1> DEFINE l == listing[p][k].state
           b == mem[p].baselines[k].state
           r == RemoteState(mem[p].commits, k)
           op == plan[p][k]
           s == BaselineAfter(op, l, b, r)
           new == [state |-> s, version |-> IF IsPresent(s) THEN v ELSE 0]
           m == [mem[p] EXCEPT !.baselines[k] = new]
<1>1. mem \in [Clients -> RuntimeState] /\ mem[p] \in RuntimeState
  BY DEF TypeOK
<1>2. /\ op = Planned(p, k, listing[p][k])
      /\ op \in {Op("Download"), Op("ApplyDelete"), Op("EstablishBaseline"),
                 Op("EstablishDeletedBaseline")}
  BY DEF ClientInv, CallInv, Mutations, Records
<1>3. listing[p][k] \in Resource
  BY DEF TypeOK
<1>4. /\ l \in ReplicaState(Contents) /\ b \in BaselineState(Contents) \cup {NoBaseline}
      /\ r \in RemoteResourceState(Contents) /\ op = PlanResource(l, b, r)
      /\ mem[p].commits \subseteq Commit
  BY <1>2, <1>3, PlannedFacts
<1>5. /\ op = Op("Download") => IsPresent(r)
      /\ op = Op("ApplyDelete") => r = Deleted
      /\ op = Op("EstablishBaseline") => IsPresent(r) /\ l = r
      /\ op = Op("EstablishDeletedBaseline") => r = Deleted
  BY <1>4, PlanFacts
<1>6. s = r /\ (IsPresent(r) \/ r = Deleted)
  BY <1>2, <1>5, BaselineFacts
<1>7. s \in Change /\ s \in ContentsIn(mem[p].commits, k)
  <2>1. r \in Change
    BY <1>4, <1>6, Presence DEF RemoteResourceState, Change
  <2>2. r \in ContentsIn(mem[p].commits, k)
    BY <1>4, <2>1, RemoteStateFacts
  <2> QED BY <1>6, <2>1, <2>2
<1> HIDE DEF s
<1>8. new \in Baseline /\ new.state = s /\ (IsPresent(s) => new.version = v)
  BY <1>7, ChangeFacts DEF Baseline
<1>9. mem' = [mem EXCEPT ![p].baselines[k] = new]
  BY DEF RecordBaseline, s
<1> HIDE DEF new
<1>10. mem' = [mem EXCEPT ![p] = m]
  BY <1>1, <1>9 DEF RuntimeState
<1>11. /\ m \in RuntimeState /\ m.commits = mem[p].commits /\ m.cursors = mem[p].cursors
       /\ m.counter = mem[p].counter
       /\ m.baselines = [mem[p].baselines EXCEPT ![k] = new]
  BY <1>1, <1>8 DEF RuntimeState
<1> HIDE DEF m
<1>12. /\ m.baselines[k] = new /\ \A j \in Keys \ {k} : m.baselines[j] = mem[p].baselines[j]
  BY <1>1, <1>11 DEF RuntimeState
<1>13. /\ mem' \in [Clients -> RuntimeState] /\ mem'[p] = m
       /\ \A q \in Clients \ {p} : mem'[q] = mem[q]
  BY <1>1, <1>10, <1>11
<1> QED BY <1>7, <1>8, <1>11, <1>12, <1>13 DEF s


\* An operation is carried out, and what both sides have is recorded.
LEMMA AppliedStep ==
  ASSUME IndInv, NEW p \in Clients, NEW k \in Keys, NEW v \in Nat,
         pc[p] = "apply", plan[p][k] \in Mutations \cup Records, RecordBaseline(p, k, v),
         Done(p, k), Goto(p, "save"), Moves(p),
         held' \in [Clients -> [Keys -> SUBSET ReplicaState(Contents)]],
         \A q \in Clients \ {p} : file'[q] = file[q] /\ held'[q] = held[q],
         UNCHANGED <<published, acks, disk, scan, listing, batch, job, life, acts, faults, rewound>>,
         Value(mem'[p].baselines[k].state) \in held'[p][k],
         IsPresent(mem'[p].baselines[k].state) => Sighted(file'[p][k], mem'[p].baselines[k])
  PROVE  IndInv'
<1> USE DEF IndInv
<1> DEFINE m == mem'[p]
<1>1. pc' \in [Clients -> Label] /\ pc'[p] = "save" /\ \A q \in Clients \ {p} : pc'[q] = pc[q]
  BY GotoFacts DEF Label
<1>2. /\ plan' \in [Clients -> [Keys -> PlanOperation]]
      /\ \A q \in Clients \ {p} : plan'[q] = plan[q]
      /\ plan'[p][k] = Op("Noop") /\ \A j \in Keys \ {k} : plan'[p][j] = plan[p][j]
  BY DoneFacts
<1>3. /\ mem' \in [Clients -> RuntimeState]
      /\ \A q \in Clients \ {p} : mem'[q] = mem[q]
      /\ m.commits = mem[p].commits /\ m.cursors = mem[p].cursors
      /\ m.counter = mem[p].counter
      /\ \A j \in Keys \ {k} : m.baselines[j] = mem[p].baselines[j]
      /\ m.baselines[k].state \in ContentsIn(mem[p].commits, k)
  BY RecordFacts
<1> HIDE DEF m
<1>4. file' \in [Clients -> [Keys -> Resource]]
  BY DEF Moves
<1>5. TypeOK'
  BY <1>1, <1>2, <1>3, <1>4 DEF TypeOK
<1>6. ClientInv(p)
  OBVIOUS
<1>7. batch[p] = {} /\ job[p] = NoJob
  BY <1>6 DEF ClientInv, BatchInv, CallInv
<1>8. HostInv(p)' /\ BatchInv(p)'
  BY <1>6, <1>7, HostFrame, EmptyBatch DEF ClientInv
<1>9. /\ SoundState(mem[p], file'[p], held'[p], published', rewound')
      /\ SoundState(disk[p], file'[p], held'[p], published', rewound')
  BY <1>6, StatesFrame DEF ClientInv
<1>10. SoundState(m, file'[p], held'[p], published', rewound')
  <2>1. ASSUME NEW j \in Keys
        PROVE  LET b == m.baselines[j]
               IN  /\ b.state # NoBaseline =>
                        Value(b.state) \in held'[p][j] /\ b.state \in ContentsIn(m.commits, j)
                   /\ IsPresent(b.state) => Sighted(file'[p][j], b)
    <3>1. CASE j = k
      BY <1>3, <3>1 DEF m
    <3>2. CASE j # k
      BY <1>3, <1>9, <3>2 DEF SoundState
    <3> QED BY <3>1, <3>2
  <2> QED BY <1>3, <1>9, <2>1 DEF SoundState
<1>11. StatesInv(p)'
  BY <1>9, <1>10 DEF StatesInv, m
<1>12. CallInv(p)'
  <2>1. ASSUME NEW j \in Keys
        PROVE  /\ plan'[p][j] = plan[p][j] \/ plan'[p][j] = Op("Noop")
               /\ plan'[p][j] \in Mutations \cup Records =>
                    /\ mem'[p].baselines[j] = mem[p].baselines[j]
                    /\ RemoteState(mem'[p].commits, j) = RemoteState(mem[p].commits, j)
    BY <1>2, <1>3, NoopFacts DEF m
  <2> QED BY <1>1, <1>6, <2>1, CallAdvance DEF ClientInv
<1>13. \A q \in Clients \ {p} : Rests(q)
  BY <1>1, <1>2, <1>3 DEF Rests
<1>14. mem'[p].counter >= mem[p].counter
  BY <1>3 DEF m, TypeOK, RuntimeState
<1> QED BY <1>5, <1>8, <1>11, <1>12, <1>13, <1>14, OwnStep DEF ClientInv

LEMMA MutateStep ==
  ASSUME IndInv, NEW p \in Clients, NEW k \in Keys, Mutate(p, k)
  PROVE  IndInv'
<1> USE DEF IndInv
<1> DEFINE l == listing[p][k].state
           b == mem[p].baselines[k].state
           r == RemoteState(mem[p].commits, k)
           op == plan[p][k]
           s == LocalAfter(op, l, r)
           t == IF IsPresent(s) THEN s ELSE Absent(p)
           v == file[p][k].version + 1
<1>1. /\ pc[p] = "apply" /\ op \in Mutations /\ SetFile(p, k, t) /\ RecordBaseline(p, k, v)
      /\ Done(p, k) /\ Goto(p, "save")
      /\ UNCHANGED <<published, acks, disk, scan, listing, batch, job, life, acts, faults, rewound>>
  BY DEF Mutate, boundVars
<1>2. v \in Nat /\ file[p][k].version \in Nat
  BY DEF TypeOK, Resource
<1>3. op \in Mutations \cup Records /\ op \in {Op("Download"), Op("ApplyDelete")}
  BY <1>1 DEF Mutations
<1>4. /\ mem'[p].baselines[k].state = BaselineAfter(op, l, b, r)
      /\ IsPresent(BaselineAfter(op, l, b, r)) => mem'[p].baselines[k].version = v
  BY <1>1, <1>2, <1>3, RecordFacts
<1>5. /\ op = Planned(p, k, listing[p][k]) /\ listing[p][k] \in Resource
  BY <1>3 DEF ClientInv, CallInv, TypeOK
<1>6. /\ l \in ReplicaState(Contents) /\ b \in BaselineState(Contents) \cup {NoBaseline}
      /\ r \in RemoteResourceState(Contents) /\ op = PlanResource(l, b, r)
  BY <1>5, PlannedFacts
<1>7. op = Op("Download") => IsPresent(r)
  <2> HIDE DEF op, l, b, r
  <2>1. PlanResource(l, b, r) = Op("Download") => IsPresent(r)
    BY <1>6, PlanFacts
  <2> QED BY <1>6, <2>1
<1>8. Absent(p) \in ReplicaState(Contents) /\ ~IsPresent(Absent(p)) /\ Value(Absent(p)) = Missing
  BY Presence, ChangeFacts DEF Absent, ReplicaState
<1>9. \/ t = r /\ IsPresent(r) /\ BaselineAfter(op, l, b, r) = r /\ r \in ReplicaState(Contents)
      \/ t = Absent(p) /\ BaselineAfter(op, l, b, r) = Deleted
  <2>1. CASE op = Op("Download")
    BY <1>6, <1>7, <2>1, BaselineFacts, Presence DEF RemoteResourceState, ReplicaState
  <2>2. CASE op = Op("ApplyDelete")
    BY <2>2, BaselineFacts, Presence
  <2> QED BY <1>3, <2>1, <2>2
<1> HIDE DEF t, op, l, r, b
<1>10. t \in ReplicaState(Contents)
  BY <1>8, <1>9
<1>11. /\ Moves(p) /\ held' \in [Clients -> [Keys -> SUBSET ReplicaState(Contents)]]
       /\ \A q \in Clients \ {p} : file'[q] = file[q] /\ held'[q] = held[q]
       /\ file'[p][k].state = t /\ file'[p][k].version = v
       /\ held'[p][k] = held[p][k] \cup {Value(t)}
  BY <1>1, <1>10, SetFileFacts, MovesFacts DEF ClientInv
<1>12. Value(mem'[p].baselines[k].state) \in held'[p][k]
  BY <1>4, <1>8, <1>9, <1>11, ChangeFacts
<1>13. IsPresent(mem'[p].baselines[k].state) => Sighted(file'[p][k], mem'[p].baselines[k])
  <2>1. CASE t = r /\ IsPresent(r) /\ BaselineAfter(op, l, b, r) = r
    BY <1>2, <1>4, <1>11, <2>1 DEF Sighted
  <2>2. CASE BaselineAfter(op, l, b, r) = Deleted
    BY <1>4, <2>2, Presence
  <2> QED BY <1>9, <2>1, <2>2
<1> HIDE DEF v
<1> QED BY <1>1, <1>2, <1>3, <1>11, <1>12, <1>13, AppliedStep DEF op

LEMMA RecordStep ==
  ASSUME IndInv, NEW p \in Clients, NEW k \in Keys, Record(p, k)
  PROVE  IndInv'
<1> USE DEF IndInv
<1> DEFINE l == listing[p][k].state
           b == mem[p].baselines[k].state
           r == RemoteState(mem[p].commits, k)
           op == plan[p][k]
           v == listing[p][k].version
           s == BaselineAfter(op, l, b, r)
<1>1. /\ pc[p] = "apply" /\ op \in Records /\ RecordBaseline(p, k, v)
      /\ Done(p, k) /\ Goto(p, "save")
      /\ UNCHANGED <<file, published, acks, disk, scan, listing, batch, job, held>>
      /\ UNCHANGED <<life, acts, faults, rewound>>
  BY DEF Record, boundVars
<1>2. v \in Nat /\ file[p][k].version \in Nat /\ op \in Mutations \cup Records
  BY <1>1 DEF TypeOK, Resource
<1>3. mem'[p].baselines[k].state = s /\ (IsPresent(s) => mem'[p].baselines[k].version = v)
  BY <1>1, <1>2, RecordFacts
<1>4. s = l \/ s = Deleted
  BY <1>1, BaselineFacts DEF Records
<1>5. /\ Missing \in held[p][k] /\ Value(l) \in held[p][k]
      /\ Sighted(file[p][k], listing[p][k])
  BY DEF ClientInv, HostInv
<1>6. Value(mem'[p].baselines[k].state) \in held'[p][k]
  BY <1>1, <1>3, <1>4, <1>5, ChangeFacts
<1>7. IsPresent(mem'[p].baselines[k].state) => Sighted(file'[p][k], mem'[p].baselines[k])
  <2>1. CASE s = l
    BY <1>1, <1>3, <1>5, <2>1 DEF Sighted
  <2>2. CASE s = Deleted
    BY <1>3, <2>2, Presence
  <2> QED BY <1>4, <2>1, <2>2
<1>8. Moves(p) /\ held' \in [Clients -> [Keys -> SUBSET ReplicaState(Contents)]]
  BY <1>1, StaysMoves DEF ClientInv, TypeOK
<1> HIDE DEF v, op, s
<1>9. plan[p][k] \in Mutations \cup Records
  BY <1>2 DEF op
<1> QED BY <1>1, <1>2, <1>6, <1>7, <1>8, <1>9, AppliedStep


---------------------------------------------------------------------------
(* resolve and rollback.                                                   *)

LEMMA RequestStep ==
  ASSUME IndInv, NEW p \in Clients, NEW call \in {"resolve", "rollback"}, NEW k \in Keys,
         NEW want \in Change \cup {KeepLocal},
         NEW copy \in PresentStates(Contents) \cup {KeepLocal, NoCopy}, NEW target \in Keys,
         copy # NoCopy => target # k,
         Request(p, call, k, want, copy, target)
  PROVE  IndInv'
<1> USE DEF IndInv
<1> DEFINE j == [call |-> call, want |-> want, key |-> k, current |-> Current(p, k),
                 copy |-> copy, target |-> target, copied |-> NoCopy]
<1>1. /\ pc[p] = "idle" /\ Goto(p, "user") /\ acts' = acts + 1
      /\ job' = [job EXCEPT ![p] = j]
      /\ UNCHANGED <<file, published, acks, mem, disk, scan, listing, plan, batch, held, life, faults,
                     rewound>>
  BY DEF Request
<1>2. pc' \in [Clients -> Label] /\ pc'[p] = "user" /\ \A q \in Clients \ {p} : pc'[q] = pc[q]
  BY <1>1, GotoFacts DEF Label
<1>3. ClientInv(p) /\ Moves(p)
  BY <1>1, StaysMoves DEF ClientInv
<1>4. Current(p, k) \in Resource /\ Sighted(file[p][k], Current(p, k))
  <2>1. /\ Listed(p) \in [Keys -> Resource]
        /\ \A i \in Keys : /\ Sighted(file[p][i], Listed(p)[i])
                           /\ Value(Listed(p)[i].state) \in held[p][i]
    BY <1>3, ListedFacts DEF ClientInv
  <2>2. /\ Inventory(p, Listed(p)) \in [Keys -> Resource]
        /\ Sighted(file[p][k], Inventory(p, Listed(p))[k])
    BY <1>3, <2>1, InventoryFacts DEF ClientInv
  <2> QED BY <2>2 DEF Current
<1>5. /\ j \in Job /\ j.key = k /\ j.current = Current(p, k) /\ j.copy = copy
      /\ j.target = target /\ j.copied = NoCopy
  BY <1>4 DEF Job
<1> HIDE DEF j
<1>6. /\ job' \in [Clients -> Job \cup {NoJob}] /\ job'[p] = j
      /\ \A q \in Clients \ {p} : job'[q] = job[q]
  BY <1>1, <1>5 DEF TypeOK
<1>7. TypeOK'
  <2>1. acts' \in Nat
    BY <1>1 DEF TypeOK
  <2> QED BY <1>1, <1>2, <1>6, <2>1 DEF TypeOK
<1>8. batch[p] = {} /\ \A i \in Keys : plan[p][i] = Op("Noop")
  BY <1>1, <1>3, QuietFacts
<1>9. HostInv(p)' /\ StatesInv(p)'
  BY <1>1, <1>3, HostSame, StatesKept DEF ClientInv
<1>10. BatchInv(p)'
  BY <1>1, <1>2, <1>8 DEF BatchInv
<1>11. JobInv(p)'
  BY <1>1, <1>4, <1>5, <1>6 DEF JobInv
<1>12. CallInv(p)'
  BY <1>1, <1>2, <1>5, <1>6, <1>8, <1>11, NoJobFacts, NoopFacts DEF CallInv
<1>13. \A q \in Clients \ {p} : Rests(q)
  BY <1>1, <1>2, <1>6 DEF Rests
<1>14. mem'[p].counter >= mem[p].counter
  BY <1>1 DEF TypeOK, RuntimeState
<1> QED BY <1>1, <1>7, <1>9, <1>10, <1>12, <1>13, <1>14, OwnStep DEF ClientInv

LEMMA VersionChoicesFacts ==
  ASSUME IndInv, NEW p \in Clients, NEW k \in Keys, NEW v \in VersionChoices(p, k)
  PROVE  /\ v \in Change \cup {KeepLocal}
         /\ v # Deleted => v \in PresentStates(Contents) \cup {KeepLocal} /\ v # NoCopy
<1>1. mem[p].commits \subseteq Commit
  BY DEF IndInv, TypeOK, RuntimeState
<1>2. v \in Change \cup {KeepLocal}
  BY <1>1 DEF VersionChoices, HeadCommits, ResourceCommits, Commit, Change
<1> QED BY <1>2, RequestTags DEF Change

LEMMA ResolveStep ==
  ASSUME IndInv, NEW p \in Clients, NEW k \in Keys, Resolve(p, k)
  PROVE  IndInv'
<1>1. PICK want \in VersionChoices(p, k) :
        \/ Request(p, "resolve", k, want, NoCopy, k)
        \/ \E copy \in VersionChoices(p, k) \ {Deleted}, target \in Keys \ {k} :
             Request(p, "resolve", k, want, copy, target)
  BY DEF Resolve
<1>2. want \in Change \cup {KeepLocal}
  BY VersionChoicesFacts
<1>3. CASE Request(p, "resolve", k, want, NoCopy, k)
  BY <1>2, <1>3, RequestStep
<1>4. ASSUME NEW copy \in VersionChoices(p, k) \ {Deleted}, NEW target \in Keys \ {k},
             Request(p, "resolve", k, want, copy, target)
      PROVE  IndInv'
  <2>1. copy \in PresentStates(Contents) \cup {KeepLocal, NoCopy}
    BY VersionChoicesFacts
  <2> QED BY <1>2, <1>4, <2>1, RequestStep
<1> QED BY <1>1, <1>3, <1>4

LEMMA RollbackStep ==
  ASSUME IndInv, NEW p \in Clients, NEW k \in Keys, NEW c \in mem[p].commits, Rollback(p, k, c)
  PROVE  IndInv'
<1>1. c \in Commit
  BY DEF IndInv, TypeOK, RuntimeState
<1>2. c.change \in Change \cup {KeepLocal}
  BY <1>1 DEF Commit
<1> QED BY <1>2, RequestStep DEF Rollback

LEMMA DropConflictStep ==
  ASSUME IndInv, NEW p \in Clients, NEW k \in Keys, DropConflict(p, k)
  PROVE  IndInv'
<1> USE DEF IndInv
<1> DEFINE m == [mem[p] EXCEPT !.conflicts[k] = NoConflict]
<1>1. /\ pc[p] = "idle" /\ mem' = [mem EXCEPT ![p] = m] /\ disk' = [disk EXCEPT ![p] = m]
      /\ UNCHANGED <<file, published, acks, pc, scan, listing, plan, batch, job, held>>
      /\ UNCHANGED <<life, acts, faults, rewound>>
  BY DEF DropConflict, callVars, boundVars
<1>2. mem[p] \in RuntimeState /\ ClientInv(p) /\ Moves(p)
  BY <1>1, StaysMoves DEF TypeOK, ClientInv
<1>3. /\ m \in RuntimeState /\ m.commits = mem[p].commits /\ m.cursors = mem[p].cursors
      /\ m.counter = mem[p].counter /\ m.baselines = mem[p].baselines
  BY <1>2 DEF RuntimeState
<1> HIDE DEF m
<1>4. /\ mem' \in [Clients -> RuntimeState] /\ mem'[p] = m
      /\ disk' \in [Clients -> RuntimeState] /\ disk'[p] = m
      /\ \A q \in Clients \ {p} : mem'[q] = mem[q] /\ disk'[q] = disk[q]
  BY <1>1, <1>3 DEF TypeOK
<1>5. TypeOK'
  BY <1>1, <1>4 DEF TypeOK
<1>6. batch[p] = {} /\ job[p] = NoJob /\ \A j \in Keys : plan[p][j] = Op("Noop")
  BY <1>1, <1>2, QuietFacts
<1>7. HostInv(p)' /\ BatchInv(p)' /\ CallInv(p)' /\ StatesInv(p)'
  BY <1>1, <1>2, <1>3, <1>4, <1>6, HostSame, EmptyBatch, QuietCall, StatesKept DEF ClientInv
<1>8. \A q \in Clients \ {p} : Rests(q)
  BY <1>1, <1>4 DEF Rests
<1>9. mem'[p].counter >= mem[p].counter
  BY <1>2, <1>3, <1>4 DEF RuntimeState
<1> QED BY <1>1, <1>5, <1>7, <1>8, <1>9, OwnStep DEF ClientInv

\* A user's request numbers its commit, after it may have changed the replica.
LEMMA UserCommitStep ==
  ASSUME IndInv, NEW p \in Clients, NEW change \in Change, NEW v \in Nat, pc[p] = "user",
         UserCommit(p, change, v), Moves(p),
         held' \in [Clients -> [Keys -> SUBSET ReplicaState(Contents)]],
         \A q \in Clients \ {p} : file'[q] = file[q] /\ held'[q] = held[q],
         Value(change) \in held'[p][job[p].key],
         IsPresent(change) =>
           Sighted(file'[p][job[p].key], [state |-> change, version |-> v])
  PROVE  IndInv'
<1> USE DEF IndInv
<1> DEFINE k == job[p].key
           n == mem[p].counter + 1
           e == [commit |-> NewCommit(p, k, n, change), version |-> v]
           m == [mem[p] EXCEPT !.counter = @ + 1]
<1>1. /\ batch' = [batch EXCEPT ![p] = {e}] /\ mem' = [mem EXCEPT ![p].counter = @ + 1]
      /\ Goto(p, "publish")
      /\ UNCHANGED <<published, acks, disk, scan, listing, plan, job, life, acts, faults, rewound>>
  BY DEF UserCommit, boundVars
<1>2. ClientInv(p) /\ job[p] # NoJob /\ k \in Keys
  <2>1. job[p] # NoJob
    BY DEF ClientInv, CallInv
  <2> QED BY <2>1 DEF TypeOK, Job
<1>3. mem[p] \in RuntimeState /\ mem[p].counter \in Nat
  BY DEF TypeOK, RuntimeState
<1>4. mem' = [mem EXCEPT ![p] = m]
  BY <1>1, <1>3 DEF RuntimeState, TypeOK
<1>5. /\ m \in RuntimeState /\ m.commits = mem[p].commits /\ m.cursors = mem[p].cursors
      /\ m.baselines = mem[p].baselines /\ m.counter = n /\ n \in Nat /\ n > mem[p].counter
  <2>1. n \in Nat /\ n > mem[p].counter
    BY <1>3
  <2>2. m = [mem[p] EXCEPT !.counter = n]
    OBVIOUS
  <2> HIDE DEF n, m
  <2>3. /\ m.commits = mem[p].commits /\ m.cursors = mem[p].cursors
        /\ m.baselines = mem[p].baselines /\ m.counter = n
    BY <1>3, <2>2 DEF RuntimeState
  <2>4. m \in RuntimeState
    BY <1>3, <2>1, <2>2 DEF RuntimeState
  <2> QED BY <2>1, <2>3, <2>4
<1> HIDE DEF m, n, k
<1>6. /\ mem' \in [Clients -> RuntimeState] /\ mem'[p] = m
      /\ \A q \in Clients \ {p} : mem'[q] = mem[q]
  BY <1>4, <1>5 DEF TypeOK
<1>7. pc' \in [Clients -> Label] /\ pc'[p] = "publish" /\ \A q \in Clients \ {p} : pc'[q] = pc[q]
  BY <1>1, GotoFacts DEF Label
<1>8. PICK b : b = e
  OBVIOUS
<1> HIDE DEF e
<1>9. b \in [commit : Commit, version : Nat] /\ NewInv(p, b)' /\ b.commit.key = k
  <2>1. n <= mem'[p].counter /\ mem'[p].commits = mem[p].commits
    BY <1>5, <1>6
  <2>2. b = [commit |-> NewCommit(p, k, n, change), version |-> v]
    BY <1>8 DEF e
  <2>3. /\ Value(change) \in held'[p][k]
        /\ IsPresent(change) => Sighted(file'[p][k], [state |-> change, version |-> v])
    BY DEF k
  <2> QED BY <1>1, <1>2, <1>5, <1>7, <2>1, <2>2, <2>3, NewCommitFacts
<1>10. /\ batch' \in [Clients -> SUBSET [commit : Commit, version : Nat]] /\ batch'[p] = {b}
       /\ \A q \in Clients \ {p} : batch'[q] = batch[q]
  BY <1>1, <1>8, <1>9 DEF TypeOK
<1>11. TypeOK'
  BY <1>1, <1>6, <1>7, <1>10 DEF TypeOK, Moves
<1>12. HostInv(p)' /\ StatesInv(p)'
  BY <1>1, <1>2, <1>5, <1>6, HostFrame, StatesKept DEF ClientInv
<1>13. BatchInv(p)'
  BY <1>1, <1>2, <1>7, <1>9, <1>10 DEF BatchInv, k
<1>14. CallInv(p)'
  BY <1>1, <1>2, <1>5, <1>6, <1>7, CallAdvance DEF ClientInv
<1>15. \A q \in Clients \ {p} : Rests(q)
  BY <1>1, <1>6, <1>7, <1>10 DEF Rests
<1>16. mem'[p].counter >= mem[p].counter
  BY <1>3, <1>5, <1>6
<1> QED BY <1>1, <1>11, <1>12, <1>13, <1>14, <1>15, <1>16, OwnStep DEF ClientInv


\* What a request under way is about.
LEMMA JobFacts ==
  ASSUME IndInv, NEW p \in Clients, pc[p] = "user"
  PROVE  /\ job[p] \in Job /\ JobInv(p)
         /\ job[p].key \in Keys /\ job[p].target \in Keys /\ job[p].current \in Resource
         /\ job[p].want \in Change \cup {KeepLocal}
         /\ file[p][job[p].key] \in Resource
         /\ file[p][job[p].key].version \in Nat
         /\ file[p][job[p].key].state \in ReplicaState(Contents)
<1> USE DEF IndInv
<1>1. job[p] # NoJob /\ JobInv(p)
  BY DEF ClientInv, CallInv
<1>2. /\ job[p] \in Job /\ job[p].key \in Keys /\ job[p].target \in Keys
      /\ job[p].current \in Resource /\ job[p].want \in Change \cup {KeepLocal}
  BY <1>1 DEF TypeOK, Job
<1>3. file[p][job[p].key] \in Resource
  BY <1>2 DEF TypeOK
<1> QED BY <1>1, <1>2, <1>3 DEF Resource

LEMMA CopyDataFacts ==
  ASSUME IndInv, NEW p \in Clients, pc[p] = "user", IsPresent(CopyData(p))
  PROVE  /\ CopyData(p) \in PresentStates(Contents) /\ CopyData(p) \in ReplicaState(Contents)
         /\ job[p].copy = KeepLocal => CopyData(p) = file[p][job[p].key].state
<1> DEFINE f == file[p][job[p].key]
<1>1. f.state \in ReplicaState(Contents)
  BY JobFacts
<1>2. job[p].copy \in PresentStates(Contents) \cup {KeepLocal, NoCopy}
  BY JobFacts DEF Job
<1>3. CASE job[p].copy = KeepLocal
  <2>1. CopyData(p) = Value(f.state)
    BY <1>3 DEF CopyData
  <2>2. IsPresent(f.state)
    BY <2>1, Presence DEF Value
  <2> QED BY <1>1, <2>1, <2>2, Presence DEF Value, ReplicaState
<1>4. CASE job[p].copy # KeepLocal
  BY <1>2, <1>4, RequestTags DEF CopyData, ReplicaState
<1> QED BY <1>3, <1>4

LEMMA UserCopyStep ==
  ASSUME IndInv, NEW p \in Clients, UserCopy(p)
  PROVE  IndInv'
<1> USE DEF IndInv
<1> DEFINE s == CopyData(p)
           t == job[p].target
           j == [job[p] EXCEPT !.copied = s]
<1>1. /\ pc[p] = "user" /\ job[p].copy # NoCopy /\ IsPresent(s) /\ SetFile(p, t, s)
      /\ job' = [job EXCEPT ![p].copied = s]
      /\ UNCHANGED <<published, acks, mem, disk, pc, scan, listing, plan, batch, life, acts, faults,
                     rewound>>
  BY DEF UserCopy, boundVars
<1>2. /\ job[p] \in Job /\ JobInv(p) /\ job[p].key \in Keys /\ t \in Keys
  BY <1>1, JobFacts
<1>3. /\ s \in PresentStates(Contents) /\ s \in ReplicaState(Contents)
      /\ job[p].copy = KeepLocal => s = file[p][job[p].key].state
  BY <1>1, CopyDataFacts
<1> HIDE DEF s
<1>4. job' = [job EXCEPT ![p] = j]
  BY <1>1, <1>2 DEF Job, TypeOK
<1>5. /\ j \in Job /\ j.key = job[p].key /\ j.current = job[p].current /\ j.copy = job[p].copy
      /\ j.target = t /\ j.copied = s
  BY <1>2, <1>3 DEF Job
<1> HIDE DEF j
<1>6. /\ job' \in [Clients -> Job \cup {NoJob}] /\ job'[p] = j
      /\ \A q \in Clients \ {p} : job'[q] = job[q]
  BY <1>4, <1>5 DEF TypeOK
<1>7. /\ file' \in [Clients -> [Keys -> Resource]]
      /\ held' \in [Clients -> [Keys -> SUBSET ReplicaState(Contents)]]
      /\ \A q \in Clients \ {p} : file'[q] = file[q] /\ held'[q] = held[q]
      /\ \A i \in Keys \ {t} : file'[p][i] = file[p][i]
  BY <1>1, <1>2, <1>3, SetFileFacts
<1>8. TypeOK'
  BY <1>1, <1>6, <1>7 DEF TypeOK
<1>9. ClientInv(p) /\ Moves(p)
  BY <1>1, <1>2, <1>3, MovesFacts DEF ClientInv
<1>10. HostInv(p)' /\ StatesInv(p)'
  BY <1>1, <1>9, HostFrame, StatesKept DEF ClientInv
<1>11. batch[p] = {}
  BY <1>1, <1>9 DEF ClientInv, BatchInv
<1>12. BatchInv(p)'
  BY <1>1, <1>11 DEF BatchInv
<1>13. JobInv(p)'
  <2>1. file'[p][job[p].key] = file[p][job[p].key]
    BY <1>1, <1>2, <1>7 DEF JobInv
  <2> QED BY <1>2, <1>3, <1>5, <1>6, <2>1 DEF JobInv
<1>14. CallInv(p)'
  <2>1. job[p] # NoJob /\ j # NoJob
    BY <1>2, <1>5, NoJobFacts
  <2>2. \A k \in Keys : plan[p][k] = Op("Noop")
    BY <1>1, <1>9, <2>1 DEF ClientInv, CallInv
  <2> QED BY <1>1, <1>6, <1>13, <2>1, <2>2, NoopFacts DEF CallInv
<1>15. \A q \in Clients \ {p} : Rests(q)
  BY <1>1, <1>6, <1>7 DEF Rests
<1>16. mem'[p].counter >= mem[p].counter
  BY <1>1 DEF TypeOK, RuntimeState
<1> QED BY <1>1, <1>8, <1>10, <1>12, <1>14, <1>15, <1>16, OwnStep DEF ClientInv

LEMMA UserKeepStep ==
  ASSUME IndInv, NEW p \in Clients, UserKeep(p)
  PROVE  IndInv'
<1> DEFINE f == file[p][job[p].key]
<1>1. /\ pc[p] = "user" /\ IsPresent(f.state) /\ UserCommit(p, f.state, f.version)
      /\ UNCHANGED <<file, held>>
  BY DEF UserKeep, Copied
<1>2. f.version \in Nat /\ f.state \in ReplicaState(Contents) /\ job[p].key \in Keys
  BY <1>1, JobFacts
<1>3. f.state \in Change /\ Value(f.state) \in held[p][job[p].key]
  BY <1>1, <1>2, ChangeFacts DEF IndInv, ClientInv, HostInv
<1>4. Sighted(f, [state |-> f.state, version |-> f.version])
  BY <1>2 DEF Sighted
<1>5. Moves(p) /\ held' \in [Clients -> [Keys -> SUBSET ReplicaState(Contents)]]
  BY <1>1, StaysMoves DEF IndInv, ClientInv, TypeOK
<1>6. /\ Value(f.state) \in held'[p][job[p].key]
      /\ Sighted(file'[p][job[p].key], [state |-> f.state, version |-> f.version])
  BY <1>1, <1>3, <1>4
<1> HIDE DEF f
<1> QED BY <1>1, <1>2, <1>3, <1>5, <1>6, UserCommitStep

LEMMA UserMutateStep ==
  ASSUME IndInv, NEW p \in Clients, UserMutate(p)
  PROVE  IndInv'
<1> DEFINE k == job[p].key
           want == job[p].want
           t == IF want = Deleted THEN Absent(p) ELSE want
           v == file[p][k].version + 1
<1>1. pc[p] = "user" /\ want # KeepLocal /\ SetFile(p, k, t) /\ UserCommit(p, want, v)
  BY DEF UserMutate, Copied
<1>2. k \in Keys /\ want \in Change /\ v \in Nat
  BY <1>1, JobFacts
<1>3. Absent(p) \in ReplicaState(Contents) /\ Value(Absent(p)) = Missing
  BY ChangeFacts DEF Absent, ReplicaState
<1>4. t \in ReplicaState(Contents) /\ Value(t) = Value(want) /\ (IsPresent(want) => t = want)
  BY <1>2, <1>3, ChangeFacts, Presence DEF Change, ReplicaState
<1> HIDE DEF t
<1>5. /\ Moves(p) /\ held' \in [Clients -> [Keys -> SUBSET ReplicaState(Contents)]]
      /\ \A q \in Clients \ {p} : file'[q] = file[q] /\ held'[q] = held[q]
      /\ file'[p][k].state = t /\ file'[p][k].version = v
      /\ held'[p][k] = held[p][k] \cup {Value(t)}
  BY <1>1, <1>2, <1>4, SetFileFacts, MovesFacts DEF IndInv, ClientInv
<1>6. Value(want) \in held'[p][k]
  BY <1>4, <1>5
<1>7. IsPresent(want) => Sighted(file'[p][k], [state |-> want, version |-> v])
  BY <1>2, <1>4, <1>5 DEF Sighted
<1> HIDE DEF v, want
<1> QED BY <1>1, <1>2, <1>5, <1>6, <1>7, UserCommitStep

LEMMA UserConfirmDeleteStep ==
  ASSUME IndInv, NEW p \in Clients, UserConfirmDelete(p)
  PROVE  IndInv'
<1>1. pc[p] = "user" /\ UserCommit(p, Deleted, 0) /\ UNCHANGED <<file, held>>
  BY DEF UserConfirmDelete, Copied
<1>2. job[p].key \in Keys
  BY <1>1, JobFacts
<1>3. Value(Deleted) \in held'[p][job[p].key] /\ ~IsPresent(Deleted) /\ Deleted \in Change
  BY <1>1, <1>2, ChangeFacts, Presence DEF IndInv, ClientInv, HostInv, Change
<1>4. Moves(p) /\ held' \in [Clients -> [Keys -> SUBSET ReplicaState(Contents)]]
  BY <1>1, StaysMoves DEF IndInv, ClientInv, TypeOK
<1> QED BY <1>1, <1>3, <1>4, UserCommitStep

---------------------------------------------------------------------------
(* The invariant is inductive.                                             *)

LEMMA InitIndInv == Init => IndInv
<1> SUFFICES ASSUME Init PROVE IndInv
  OBVIOUS
<1>1. SoundState(FreshState, NoListing, [k \in Keys |-> {Missing}], {}, {})
      /\ FreshState \in RuntimeState
  BY SoundFresh
<1>2. Nothing \in Resource /\ Nothing.state = Missing /\ Sighted(Nothing, Nothing)
  BY SightedFile DEF Nothing, Resource, ReplicaState
<1>3. NoListing \in [Keys -> Resource] /\ NoPlan \in [Keys -> PlanOperation]
  BY <1>2, NoopFacts DEF NoListing, NoPlan
<1>4. Missing \in ReplicaState(Contents)
  BY DEF ReplicaState
<1>5. TypeOK
  BY <1>1, <1>3, <1>4 DEF Init, TypeOK, Label, Scan, NoScan
<1>6. GraphInv
  BY DEF Init, GraphInv
<1>7. ASSUME NEW p \in Clients PROVE ClientInv(p)
  <2>1. HostInv(p)
    BY <1>2, ChangeFacts DEF Init, HostInv, NoListing
  <2>2. StatesInv(p)
    BY <1>1 DEF Init, StatesInv
  <2>3. BatchInv(p) /\ CallInv(p)
    BY NoopFacts DEF Init, BatchInv, CallInv, NoPlan
  <2> QED BY <2>1, <2>2, <2>3 DEF ClientInv
<1> QED BY <1>5, <1>6, <1>7 DEF IndInv

LEMMA NextIndInv == IndInv /\ ScansInv /\ [Next]_vars => IndInv'
<1> SUFFICES ASSUME IndInv, ScansInv, [Next]_vars PROVE IndInv'
  OBVIOUS
<1>1. CASE UNCHANGED vars
  <2>1. /\ UNCHANGED <<file, published, acks, mem, disk, pc, scan, listing, plan, batch, job, held>>
        /\ UNCHANGED <<life, acts, faults, rewound>>
    BY <1>1 DEF vars, callVars, boundVars
  <2>2. TypeOK' /\ GraphInv'
    BY <2>1 DEF IndInv, TypeOK, GraphInv
  <2>3. ASSUME NEW q \in Clients PROVE ClientInv(q)'
    BY <2>1, RestFrame DEF IndInv, Rests
  <2> QED BY <2>2, <2>3 DEF IndInv
<1>2. ASSUME NEW p \in Clients, Scanning(p) \/ Step(p) \/ User(p) \/ Fault(p) PROVE IndInv'
  <2>1. CASE Scanning(p)
    BY <2>1, RefreshStep, ScanAuthorStep DEF Scanning
  <2>2. CASE List(p) \/ PlanRun(p) \/ ReadUploads(p) \/ Publish(p) \/ Integrate(p) \/ Save(p)
    BY <2>2, ListStep, PlanRunStep, ReadUploadsStep, PublishStep, IntegrateStep, SaveStep
  <2>3. ASSUME NEW k \in Keys, Mutate(p, k) \/ Record(p, k) PROVE IndInv'
    BY <2>3, MutateStep, RecordStep
  <2>4. ASSUME NEW k \in Keys, Refuse(p, k) \/ OperationFails(p, k) PROVE IndInv'
    <3>1. faults' \in Nat
      BY <2>4 DEF Refuse, OperationFails, boundVars, IndInv, TypeOK
    <3> QED BY <2>4, <3>1, DroppedStep DEF Refuse, OperationFails, boundVars
  <2>5. CASE Acknowledge(p)
    BY <2>5, AcknowledgeStep
  <2>6. CASE UserCopy(p) \/ UserKeep(p) \/ UserMutate(p) \/ UserConfirmDelete(p)
    BY <2>6, UserCopyStep, UserKeepStep, UserMutateStep, UserConfirmDeleteStep
  <2>7. CASE GiveUp(p) \/ Fail(p)
    <3>1. faults' \in Nat
      BY <2>7 DEF GiveUp, Fail, boundVars, IndInv, TypeOK
    <3> QED BY <2>7, <3>1, AbandonStep DEF GiveUp, Fail, boundVars
  <2>8. CASE User(p)
    BY <2>8, EditStep, ResolveStep, DropConflictStep, RollbackStep DEF User
  <2>9. CASE Crash(p)
    BY <2>9, CrashStep
  <2>10. Step(p) => \/ List(p) \/ PlanRun(p) \/ ReadUploads(p) \/ Publish(p) \/ Integrate(p)
                    \/ Save(p) \/ Acknowledge(p)
                    \/ \E k \in Keys : Mutate(p, k) \/ Record(p, k) \/ Refuse(p, k)
                    \/ UserCopy(p) \/ UserKeep(p) \/ UserMutate(p) \/ UserConfirmDelete(p)
                    \/ GiveUp(p)
    BY DEF Step
  <2>11. Fault(p) => Fail(p) \/ Crash(p) \/ \E k \in Keys : OperationFails(p, k)
    BY DEF Fault
  <2> QED BY <1>2, <2>1, <2>2, <2>3, <2>4, <2>5, <2>6, <2>7, <2>8, <2>9, <2>10, <2>11
<1> QED BY <1>1, <1>2 DEF Next

\* The other steps of a call leave the graph, the scans and the cursors alone, or
\* end the scan.
LEMMA ScanKept ==
  ASSUME IndInv, NEW p \in Clients, Step(p) \/ User(p) \/ Fault(p)
  PROVE  /\ rewound \subseteq rewound'
         /\ published' = published \/ Publish(p)
         /\ \A q \in Clients :
              \/ scan'[q] = NoScan(q)
              \/ scan'[q] = scan[q] /\ mem'[q].cursors = mem[q].cursors
<1>1. mem \in [Clients -> RuntimeState] /\ disk \in [Clients -> RuntimeState]
      /\ scan \in [Clients -> Scan]
  BY DEF IndInv, TypeOK
<1> DEFINE Same == UNCHANGED <<scan, published, rewound>>
<1>2. CASE List(p) \/ Save(p) \/ Acknowledge(p) \/ UserCopy(p)
  BY <1>2 DEF List, Save, Acknowledge, UserCopy, boundVars
<1>3. CASE Publish(p)
  BY <1>3 DEF Publish, callVars, boundVars
<1>4. CASE PlanRun(p)
  BY <1>1, <1>4 DEF PlanRun, boundVars, RuntimeState
<1>5. CASE ReadUploads(p)
  <2>1. Same /\ mem' = [mem EXCEPT ![p].counter = @ + Cardinality(ToPublish(p))]
    BY <1>5 DEF ReadUploads, boundVars
  <2> QED BY <1>1, <2>1 DEF RuntimeState
<1>6. CASE Integrate(p)
  <2>1. Same
    BY <1>6 DEF Integrate, boundVars
  <2>2. mem'[p].cursors = mem[p].cursors /\ \A q \in Clients \ {p} : mem'[q] = mem[q]
    BY <1>6, IntegrateFacts
  <2> QED BY <2>1, <2>2
<1>7. ASSUME NEW k \in Keys, Mutate(p, k) \/ Record(p, k)
      PROVE  Same /\ \A q \in Clients : mem'[q].cursors = mem[q].cursors
  <2>1. Same /\ \E b : mem' = [mem EXCEPT ![p].baselines[k] = b]
    BY <1>7 DEF Mutate, Record, RecordBaseline, boundVars
  <2> QED BY <1>1, <2>1 DEF RuntimeState
<1>8. ASSUME NEW k \in Keys, Refuse(p, k) \/ OperationFails(p, k) PROVE Same /\ mem' = mem
  BY <1>8 DEF Refuse, OperationFails, boundVars
<1>9. CASE UserKeep(p) \/ UserMutate(p) \/ UserConfirmDelete(p)
  <2>1. \E change, version : UserCommit(p, change, version)
    BY <1>9 DEF UserKeep, UserMutate, UserConfirmDelete
  <2> QED BY <1>1, <2>1 DEF UserCommit, boundVars, RuntimeState
<1>10. ASSUME Abandon(p)
      PROVE  scan'[p] = NoScan(p) /\ \A q \in Clients \ {p} : scan'[q] = scan[q]
  BY <1>1, <1>10 DEF Abandon
<1>11. CASE GiveUp(p) \/ Fail(p)
  <2>1. Abandon(p) /\ UNCHANGED <<published, mem, rewound>>
    BY <1>11 DEF GiveUp, Fail, boundVars
  <2> QED BY <1>10, <2>1
<1>12. CASE Crash(p)
  <2>1. /\ Abandon(p) /\ published' = published /\ rewound \subseteq rewound'
        /\ \A q \in Clients \ {p} : mem'[q] = mem[q]
    <3>1. mem' = [mem EXCEPT ![p] = disk[p]]
      BY <1>12 DEF Crash
    <3>2. \A q \in Clients \ {p} : mem'[q] = mem[q]
      BY <1>1, <3>1
    <3>3. Abandon(p) /\ published' = published /\ rewound \subseteq rewound'
      BY <1>12 DEF Crash
    <3> QED BY <3>2, <3>3
  <2> QED BY <1>10, <2>1
<1>13. ASSUME NEW k \in Keys, NEW s, Edit(p, k, s) PROVE Same /\ mem' = mem
  BY <1>13 DEF Edit, callVars
<1>14. ASSUME NEW k \in Keys, Resolve(p, k) \/ \E c \in mem[p].commits : Rollback(p, k, c)
       PROVE  Same /\ mem' = mem
  BY <1>14 DEF Resolve, Rollback, Request
<1>15. ASSUME NEW k \in Keys, DropConflict(p, k)
       PROVE  Same /\ \A q \in Clients : mem'[q].cursors = mem[q].cursors
  BY <1>1, <1>15 DEF DropConflict, callVars, boundVars, RuntimeState
<1>16. CASE Step(p)
  BY <1>2, <1>3, <1>4, <1>5, <1>7, <1>8, <1>9, <1>11, <1>16, <1>6 DEF Step
<1>17. CASE User(p)
  BY <1>13, <1>14, <1>15, <1>17 DEF User
<1>18. CASE Fault(p)
  BY <1>8, <1>11, <1>12, <1>18 DEF Fault
<1> QED BY <1>16, <1>17, <1>18

\* A scan is complete up to what it found, whatever is published meanwhile:
\* an author's numbers grow.
LEMMA ScanPublished ==
  ASSUME IndInv, NEW p \in Clients, Publish(p), NEW q \in Clients, ScanInv(q),
         scan'[q] = scan[q], mem'[q].cursors = mem[q].cursors, rewound' = rewound
  PROVE  ScanInv(q)'
<1> USE DEF IndInv
<1>1. pc[p] = "publish" /\ published' = published \cup {b.commit : b \in batch[p]}
  BY DEF Publish
<1>2. ASSUME NEW d \in scan[q].found, NEW b \in batch[p],
             b.commit.id.author = d.id.author, b.commit.id.author \notin rewound
      PROVE  ~(b.commit.id.counter <= d.id.counter)
  <2>1. d \in published /\ d.id.counter \in Nat
    BY DEF ScanInv, TypeOK, Commit, Id
  <2>2. /\ b.commit.id.counter \in Nat /\ b.commit.id.author = p
        /\ d.id.author = p /\ p \notin rewound => d.id.counter < b.commit.id.counter
    BY <1>1, <2>1, BatchFacts
  <2> QED BY <1>2, <2>1, <2>2
<1> QED BY <1>1, <1>2 DEF ScanInv

LEMMA NextScansInv == IndInv /\ ScansInv /\ [Next]_vars => ScansInv'
<1> SUFFICES ASSUME IndInv, ScansInv, [Next]_vars, NEW q \in Clients PROVE ScanInv(q)'
  BY DEF ScansInv
<1>1. ScanInv(q) /\ scan \in [Clients -> Scan]
  BY DEF ScansInv, IndInv, TypeOK
<1>2. ASSUME scan'[q] = NoScan(q) PROVE ScanInv(q)'
  BY <1>2 DEF ScanInv, NoScan
<1>3. ASSUME scan'[q] = scan[q], mem'[q].cursors = mem[q].cursors, published' = published,
             rewound \subseteq rewound'
      PROVE  ScanInv(q)'
  BY <1>1, <1>3 DEF ScanInv
<1>4. CASE UNCHANGED vars
  BY <1>3, <1>4 DEF vars, callVars, boundVars
<1>5. ASSUME NEW p \in Clients, Step(p) \/ User(p) \/ Fault(p) PROVE ScanInv(q)'
  <2>1. Publish(p) => rewound' = rewound /\ scan' = scan /\ mem' = mem
    BY DEF Publish, callVars, boundVars
  <2> QED BY <1>1, <1>2, <1>3, <1>5, <2>1, ScanKept, ScanPublished
<1>6. ASSUME NEW p \in Clients, Refresh(p) PROVE ScanInv(q)'
  <2>1. /\ scan' = [scan EXCEPT ![p] = NoScan(p)] /\ published' = published
        /\ rewound' = rewound /\ \A r \in Clients \ {p} : mem'[r] = mem[r]
    BY <1>6 DEF Refresh, boundVars, IndInv, TypeOK
  <2> QED BY <1>1, <1>2, <1>3, <2>1
<1>7. ASSUME NEW p \in Clients, NEW a \in Clients, ScanAuthor(p, a) PROVE ScanInv(q)'
  <2>1. /\ scan' = [scan EXCEPT ![p] = [left |-> @.left \ {a}, found |-> @.found \cup Unread(p, a)]]
        /\ UNCHANGED <<published, mem, rewound>>
    BY <1>7 DEF ScanAuthor, boundVars
  <2>2. CASE p # q
    BY <1>1, <1>3, <2>1, <2>2
  <2>3. CASE p = q
    <3>1. scan'[q].found = scan[q].found \cup Unread(q, a)
      BY <1>1, <2>1, <2>3 DEF Scan
    <3> QED BY <1>1, <2>1, <3>1 DEF ScanInv, Unread
  <2> QED BY <2>2, <2>3
<1> QED BY <1>4, <1>5, <1>6, <1>7 DEF Next, Scanning


---------------------------------------------------------------------------
(* The theorems.                                                           *)

\* The inductive invariant holds throughout: every stretch of every call, every
\* edit, error and crash preserves it.
THEOREM Invariance == Spec => [](IndInv /\ ScansInv)
<1>1. Init => IndInv /\ ScansInv
  BY InitIndInv DEF Init, ScansInv, ScanInv, NoScan
<1> QED BY <1>1, NextIndInv, NextScansInv, PTL DEF Spec

\* The files, commits, runtime states, plans, batches and requests of the model
\* are always of the shapes that TypeOK gives.
THEOREM TypeCorrect == Spec => []TypeOK
<1>1. IndInv => TypeOK
  BY DEF IndInv
<1> QED BY <1>1, Invariance, PTL

\* A baseline in memory or on disk is a state the replica has had and a commit
\* the client knows, whatever was interrupted (RuntimeState.baselines).
THEOREM BaselinesAreShared == Spec => []BaselinesShared
<1>1. IndInv => BaselinesShared
  BY DEF IndInv, ClientInv, StatesInv, SoundState, BaselinesShared, SharedBaselines
<1> QED BY <1>1, Invariance, PTL

\* A commit that a client's commits were made over is known to the client or will
\* be read by its next scan, in memory and on disk, however others publish during
\* its scans, as long as its author was not rewound (the cursors of scan_catalog).
THEOREM ParentsArrive == Spec => []NoParentPassed
<1>1. ASSUME IndInv, NEW p \in Clients, NEW m \in {mem[p], disk[p]}, NEW c \in m.commits,
             NEW i \in c.parents, i.author \notin rewound
      PROVE  i.counter > m.cursors[i.author] \/ \E d \in m.commits : d.id = i
  <2>1. SoundState(m, file[p], held[p], published, rewound) /\ m \in RuntimeState
    BY <1>1 DEF IndInv, TypeOK, ClientInv, StatesInv
  <2>2. PICK d \in published : d.id = i
    BY <1>1, <2>1 DEF IndInv, GraphInv, SoundState
  <2>3. d.id.counter \in Nat /\ d.id.author \in Clients /\ m.cursors[d.id.author] \in Nat
    BY <1>1, <2>1 DEF IndInv, TypeOK, Commit, Id, RuntimeState
  <2>4. d.id.counter <= m.cursors[d.id.author] => d \in m.commits
    BY <1>1, <2>1, <2>2 DEF SoundState
  <2> QED BY <2>2, <2>3, <2>4
<1>2. IndInv => NoParentPassed
  BY <1>1 DEF NoParentPassed
<1> QED BY <1>2, Invariance, PTL

\* What a listed state says of the resource when the host accepts a mutation.
LEMMA Accepted ==
  ASSUME NEW p, NEW k, NEW r, Sighted(file[p][k], r), Precondition(p, k, r),
         IsPresent(file[p][k].state)
  PROVE  r.version = file[p][k].version /\ r.state = file[p][k].state
BY Presence DEF Sighted, Precondition

\* A reconciliation overwrites or removes nothing that is not in the commits the
\* client knows, whenever the user edits (the preconditions of execute).
THEOREM OverwritesPublished == Spec => NoUnpublishedOverwrite
<1> DEFINE Safe == \A p \in Clients, k \in Keys :
                     Mutate(p, k) /\ IsPresent(file[p][k].state)
                       => file[p][k].state \in ContentsIn(mem[p].commits, k)
<1>1. IndInv => Safe
  <2> SUFFICES ASSUME IndInv, NEW p \in Clients, NEW k \in Keys, Mutate(p, k),
                      IsPresent(file[p][k].state)
               PROVE  file[p][k].state \in ContentsIn(mem[p].commits, k)
    OBVIOUS
  <2> DEFINE l == listing[p][k].state
             b == mem[p].baselines[k].state
             r == RemoteState(mem[p].commits, k)
  <2>1. plan[p][k] \in Mutations /\ Precondition(p, k, listing[p][k])
    BY DEF Mutate
  <2>2. l = file[p][k].state
    BY <2>1, Accepted DEF IndInv, ClientInv, HostInv
  <2>3. plan[p][k] = Planned(p, k, listing[p][k]) /\ listing[p][k] \in Resource /\ TypeOK
    BY <2>1 DEF IndInv, ClientInv, CallInv, TypeOK
  <2>4. /\ l \in ReplicaState(Contents) /\ b \in BaselineState(Contents) \cup {NoBaseline}
        /\ r \in RemoteResourceState(Contents) /\ plan[p][k] = PlanResource(l, b, r)
    BY <2>3, PlannedFacts
  <2>5. /\ PlanResource(l, b, r) = Op("Download") => IsPresent(r) /\ (IsPresent(l) => b = l)
        /\ PlanResource(l, b, r) = Op("ApplyDelete") => r = Deleted /\ IsPresent(l) /\ b = l
    <3> HIDE DEF l, b, r
    <3> QED BY <2>4, PlanFacts
  <2>6. b = l
    BY <2>1, <2>2, <2>4, <2>5 DEF Mutations
  <2>7. b # NoBaseline
    BY <2>2, <2>6, Presence
  <2>8. b \in ContentsIn(mem[p].commits, k)
    BY <2>7 DEF IndInv, ClientInv, StatesInv, SoundState
  <2> QED BY <2>2, <2>6, <2>8
<1>2. IndInv => [Safe]_vars
  BY <1>1
<1> QED BY <1>2, Invariance, PTL DEF NoUnpublishedOverwrite

\* A reconciliation publishes over a head only when the replica has had the
\* head's state (the plan of build_plan and the parents of its commits).
THEOREM SupersedesSeen == Spec => NoUnseenSupersede
<1> DEFINE Safe == \A p \in Clients : ReadUploads(p) =>
                     \A b \in batch'[p], c \in mem[p].commits :
                       c.id \in b.commit.parents => Value(c.change) \in held[p][c.key]
<1>1. IndInv => Safe
  <2> SUFFICES ASSUME IndInv, NEW p \in Clients, ReadUploads(p), NEW e \in batch'[p],
                      NEW c \in mem[p].commits, c.id \in e.commit.parents
               PROVE  Value(c.change) \in held[p][c.key]
    OBVIOUS
  <2>1. PICK k \in ToPublish(p) : e.commit.parents = Heads(mem[p].commits, k)
    BY DEF ReadUploads, NewCommit, IndInv, TypeOK
  <2> DEFINE l == listing[p][k].state
             b == mem[p].baselines[k].state
             r == RemoteState(mem[p].commits, k)
             op == plan[p][k]
  <2>2. k \in Keys /\ op \in {Op("Upload"), Op("PublishDelete")}
    BY ToPublishFacts
  <2>3. mem[p].commits \subseteq Commit /\ mem[p].commits \subseteq published
    BY DEF IndInv, TypeOK, RuntimeState, ClientInv, StatesInv, SoundState
  <2>4. c \in HeadCommits(mem[p].commits, k)
    <3>1. PICK d \in HeadCommits(mem[p].commits, k) : d.id = c.id
      BY <2>1 DEF Heads
    <3>2. d \in published /\ c \in published
      BY <2>3 DEF HeadCommits, ResourceCommits
    <3>3. d = c
      BY <3>1, <3>2 DEF IndInv, GraphInv
    <3> QED BY <3>1, <3>3
  <2>5. c.key = k
    BY <2>4 DEF HeadCommits, ResourceCommits
  <2>6. op = Planned(p, k, listing[p][k]) /\ listing[p][k] \in Resource /\ TypeOK
    <3>1. pc[p] = "read"
      BY DEF ReadUploads
    <3> QED BY <2>2, <3>1 DEF IndInv, ClientInv, CallInv, TypeOK
  <2>7. /\ l \in ReplicaState(Contents) /\ b \in BaselineState(Contents) \cup {NoBaseline}
        /\ r \in RemoteResourceState(Contents) /\ op = PlanResource(l, b, r)
    BY <2>2, <2>6, PlannedFacts
  <2>8. /\ PlanResource(l, b, r) = Op("Upload") =>
             r \in {Missing, Deleted} \/ (IsPresent(r) /\ b = r)
        /\ PlanResource(l, b, r) = Op("PublishDelete") => IsPresent(r) /\ b = r
    <3> HIDE DEF l, b, r, op
    <3> QED BY <2>7, PlanFacts
  <2>9. r \in {Missing, Deleted} \/ (IsPresent(r) /\ b = r)
    BY <2>2, <2>7, <2>8
  <2>10. r # Missing
    BY <2>2, <2>3, <2>4, RemoteStateFacts
  <2>11. r \in Change
    BY <2>7, <2>9, <2>10, Presence DEF RemoteResourceState, Change
  <2>12. c.change = r
    BY <2>2, <2>3, <2>4, <2>11, RemoteStateFacts
  <2>13. CASE r = Deleted
    BY <2>2, <2>5, <2>12, <2>13, ChangeFacts DEF IndInv, ClientInv, HostInv
  <2>14. CASE IsPresent(r) /\ b = r
    <3>1. b # NoBaseline
      BY <2>14, Presence
    <3>2. Value(b) \in held[p][k]
      BY <2>2, <3>1 DEF IndInv, ClientInv, StatesInv, SoundState
    <3> QED BY <2>5, <2>12, <2>14, <3>2
  <2> QED BY <2>9, <2>10, <2>13, <2>14
<1>2. IndInv => [Safe]_vars
  BY <1>1
<1> QED BY <1>2, Invariance, PTL DEF NoUnseenSupersede

\* What resolve overwrites after preserving the local version is what it copied
\* (CreateCopy, and the precondition taken from the inventory).
THEOREM PreservesLocal == Spec => LocalPreserved
<1> DEFINE Safe == \A p \in Clients :
                     UserMutate(p) /\ job[p].copy = KeepLocal /\ IsPresent(file[p][job[p].key].state)
                       => file[p][job[p].key].state = job[p].copied
<1>1. IndInv => Safe
  <2> SUFFICES ASSUME IndInv, NEW p \in Clients, UserMutate(p), job[p].copy = KeepLocal,
                      IsPresent(file[p][job[p].key].state)
               PROVE  file[p][job[p].key].state = job[p].copied
    OBVIOUS
  <2>1. pc[p] = "user" /\ job[p].copied # NoCopy /\ Precondition(p, job[p].key, job[p].current)
    BY RequestTags DEF UserMutate, Copied
  <2>2. JobInv(p)
    BY <2>1, JobFacts
  <2>3. job[p].current.version = file[p][job[p].key].version
    BY <2>1, <2>2, Accepted DEF JobInv
  <2> QED BY <2>1, <2>2, <2>3 DEF JobInv
<1>2. IndInv => [Safe]_vars
  BY <1>1
<1> QED BY <1>2, Invariance, PTL DEF LocalPreserved

\* A request settles its resource: with the replica untouched since, the next plan
\* only records a baseline (resolve and rollback, then reconcile).
THEOREM RequestsSettle == Spec => RequestSettles
<1> DEFINE Safe == \A p \in Clients :
        Integrate(p) /\ job[p] # NoJob =>
          LET k == job[p].key
              b == mem'[p].baselines[k]
          IN  (IsPresent(b.state) => file[p][k].version = b.version)
              /\ (~IsPresent(b.state) => ~IsPresent(file[p][k].state))
              => PlanResource(file[p][k].state, b.state, RemoteState(mem'[p].commits, k))
                   \in Records
<1>1. IndInv => Safe
  <2> SUFFICES ASSUME IndInv, NEW p \in Clients, Integrate(p), job[p] # NoJob,
                      LET k == job[p].key
                          b == mem'[p].baselines[k]
                      IN  (IsPresent(b.state) => file[p][k].version = b.version)
                          /\ (~IsPresent(b.state) => ~IsPresent(file[p][k].state))
               PROVE  LET k == job[p].key
                      IN  PlanResource(file[p][k].state, mem'[p].baselines[k].state,
                                       RemoteState(mem'[p].commits, k)) \in Records
    OBVIOUS
  <2> DEFINE k == job[p].key
             s == file[p][k].state
             C == {b.commit : b \in batch[p]}
  <2>1. /\ pc[p] = "integrate" /\ mem'[p].commits = mem[p].commits \cup C
        /\ \A b \in batch[p] : mem'[p].baselines[b.commit.key] = BaselineOf(b)
    BY IntegrateFacts
  <2>2. BatchInv(p)
    BY DEF IndInv, ClientInv
  <2>3. batch[p] # {}
    BY <2>1, <2>2 DEF BatchInv
  <2>4. PICK b \in batch[p] : TRUE
    BY <2>3
  <2>5. b.commit.key = k /\ C = {b.commit}
    BY <2>2, <2>4 DEF BatchInv
  <2>6. k \in Keys /\ s \in ReplicaState(Contents) /\ b.commit.change \in Change
    <3>1. k \in Keys
      BY <2>5, BaselineOfFacts
    <3>2. b.commit \in Commit /\ file[p][k] \in Resource
      BY <3>1 DEF IndInv, TypeOK
    <3> QED BY <3>1, <3>2 DEF Commit, Resource
  <2>7. /\ mem'[p].baselines[k] = BaselineOf(b) /\ BaselineOf(b).state = b.commit.change
        /\ IsPresent(b.commit.change) => Sighted(file[p][k], BaselineOf(b))
    BY <2>1, <2>5, BaselineOfFacts
  <2>8. RemoteState(mem'[p].commits, k) = b.commit.change
    <3>1. NewInv(p, b)
      BY <2>2 DEF BatchInv
    <3>2. /\ b.commit.parents = Heads(mem[p].commits, b.commit.key)
          /\ \A d \in mem[p].commits : b.commit.id # d.id /\ b.commit.id \notin d.parents
      BY <3>1 DEF NewInv
    <3>3. RemoteState(mem[p].commits \cup {b.commit}, b.commit.key) = b.commit.change
      BY <3>2, RemoteStateAfter
    <3> QED BY <2>1, <2>5, <3>3
  <2>9. CASE IsPresent(b.commit.change)
    <3>1. b.commit.change = s
      BY <2>7, <2>9, Presence DEF Sighted
    <3>2. PlanResource(s, s, s) = Op("EstablishBaseline")
      BY <2>6, <2>9, <3>1, Presence, Distinct DEF PlanResource, PlanAgainstPresent
    <3> QED BY <2>7, <2>8, <3>1, <3>2 DEF Records
  <2>10. CASE ~IsPresent(b.commit.change)
    <3>1. b.commit.change = Deleted /\ ~IsPresent(s)
      BY <2>6, <2>7, <2>10, ChangeFacts
    <3>2. PlanResource(s, Deleted, Deleted) = Op("EstablishDeletedBaseline")
      BY <3>1, Presence, Distinct DEF PlanResource, PlanAgainstDeleted
    <3> QED BY <2>7, <2>8, <3>1, <3>2 DEF Records
  <2> QED BY <2>9, <2>10
<1>2. IndInv => [Safe]_vars
  BY <1>1
<1> QED BY <1>2, Invariance, PTL DEF RequestSettles


============================================================================
