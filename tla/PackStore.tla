----------------------------- MODULE PackStore -----------------------------
(***************************************************************************)
(* The chunks of binary resources: uploads that look up which chunks are   *)
(* stored and pack the others (publish_bytes and execute in                *)
(* src/src/runtime.rs, build_packs in src/src/binary.rs, commit_batch in   *)
(* src/src/v2_remote.rs), downloads (content_for_remote) and the           *)
(* collection of packs at the end of maintain.                             *)
(*                                                                         *)
(* A content is its manifest, the sequence of its chunks; chunks have the  *)
(* same size.  A pack's id is the hash of its bytes, so a pack is its      *)
(* sequence of chunks.  Of the commits only their contents matter: a       *)
(* content is visible while some visible commit has it.                    *)
(***************************************************************************)
EXTENDS Naturals, Sequences, FiniteSets, SequencesExt, Subsequences

CONSTANTS
  Clients,
  Chunks,
  Manifests,         \* the contents users may have
  PackSize,          \* chunks that fill a pack (TARGET_PACK_SIZE)
  MaxUploads,        \* bound: uploads begun
  MaxFaults          \* bound: calls that fail or die

ASSUME PackStoreAssumption ==
  /\ Manifests \subseteq Seq(Chunks)
  /\ PackSize \in Nat \ {0}
  /\ MaxUploads \in Nat /\ MaxFaults \in Nat

VARIABLES
  packs,      \* packs stored
  indexes,    \* packs whose index is stored
  strays,     \* packs whose index is stored under a temporary name
  visible,    \* contents of the visible commits
  mem,        \* mem[p]: contents of the commits p knows
  job,        \* job[p]: the call p is in
  uploads,    \* uploads so far
  faults,     \* failures so far
  orphans,    \* history: indexes that a collection has left without their pack
              \* or that were written for a pack a collection had deleted
  exposed     \* history: visible contents last uploaded while a collection ran,
              \* or there when two collections ran at once

vars == <<packs, indexes, strays, visible, mem, job, uploads, faults, orphans, exposed>>

Pack == {k \in Seq(Chunks) : Len(k) \in 1..PackSize}

\* `packs' and `indexes' are left to write, or to delete; `found' is what
\* lookup_chunks returned; `content' is the upload's; `obsolete' is what maintain
\* has dropped from memory and not saved; `raced' is history: whether
\* another call ran meanwhile, one of the two a collection.
Job == [pc : {"idle", "upload", "read", "list", "delete"}, content : Seq(Chunks),
        packs : SUBSET Pack, indexes : SUBSET Pack, found : SUBSET Pack,
        obsolete : SUBSET Manifests, raced : BOOLEAN]

Idle == [pc |-> "idle", content |-> <<>>, packs |-> {}, indexes |-> {}, found |-> {},
         obsolete |-> {}, raced |-> FALSE]

TypeOK ==
  /\ packs \subseteq Pack
  /\ indexes \subseteq Pack /\ strays \subseteq Pack
  /\ visible \subseteq Manifests
  /\ mem \in [Clients -> SUBSET Manifests]
  /\ job \in [Clients -> Job]
  /\ uploads \in 0..MaxUploads /\ faults \in 0..MaxFaults
  /\ orphans \subseteq Pack /\ exposed \subseteq visible

Init ==
  /\ packs = {} /\ indexes = {} /\ strays = {} /\ visible = {}
  /\ orphans = {} /\ exposed = {}
  /\ mem = [p \in Clients |-> {}]
  /\ job = [p \in Clients |-> Idle]
  /\ uploads = 0 /\ faults = 0

Collecting(p) == job[p].pc \in {"list", "delete"}

Start(p, new) == job' = [job EXCEPT ![p] = new]

\* A call begins.
Enter(p, new) ==
  LET races(q) == q # p /\ job[q].pc # "idle" /\ (Collecting(q) \/ new.pc = "list")
  IN  /\ job[p].pc = "idle"
      /\ job' = [q \in Clients |->
           IF q = p THEN [new EXCEPT !.raced = \E r \in Clients : races(r)]
           ELSE [job[q] EXCEPT !.raced = @ \/ races(q)]]

---------------------------------------------------------------------------
(* Chunks and packs.                                                       *)

ChunksOf(S) == UNION {ToSet(s) : s \in S}

\* lookup_chunks reads every file of the directory, whatever its name.
Indexed == indexes \cup strays

\* The results lookup_chunks may give: for every chunk that some index lists,
\* the pack of one such index, whichever is read first.
LookupChunks(hashes) ==
  {{at[c] : c \in DOMAIN at} :
     at \in {f \in [hashes \cap ChunksOf(Indexed) -> Indexed] : \A c \in DOMAIN f : Contains(f[c], c)}}

\* A chunk that is repeated counts once.
Distinct(s) == Pick(s, {i \in 1..Len(s) : \A j \in 1..(i - 1) : s[j] # s[i]})

\* Pack number n of s, counted from 0.
NthPack(s, n) == SubSeq(s, n * PackSize + 1, Min({(n + 1) * PackSize, Len(s)}))

\* Faulty: seals the last pack also when nothing is left for it.
BuildPacksEmpty(chunks) ==
  LET s == Distinct(chunks)
  IN  {NthPack(s, n) : n \in {n \in 0..Len(s) : n * PackSize <= Len(s)}}

\* build_packs: a pack is sealed when full, and the last when chunks are left.
BuildPacks(chunks) ==
  LET s == Distinct(chunks)
  IN  {NthPack(s, n) : n \in {n \in 0..Len(s) : n * PackSize < Len(s)}}

---------------------------------------------------------------------------
(* An upload.                                                              *)

Step(p, field, k) == job' = [job EXCEPT ![p][field] = @ \ {k}]

\* publish_bytes and execute look up the chunks of what they upload and pack
\* those that no index lists.
Lookup(p, m) ==
  LET new == BuildPacks(Pick(m, {i \in 1..Len(m) : m[i] \notin ChunksOf(Indexed)}))
  IN  /\ uploads < MaxUploads /\ uploads' = uploads + 1
      /\ Enter(p, [Idle EXCEPT !.pc = "upload", !.content = m, !.packs = new, !.indexes = new])
      /\ UNCHANGED <<packs, indexes, strays, visible, mem, faults, orphans, exposed>>

\* commit_batch writes all packs, then all indexes, then what makes the commit
\* visible.
WritePack(p, k) ==
  /\ job[p].pc = "upload"
  /\ k \in job[p].packs
  /\ packs' = packs \cup {k}
  /\ Step(p, "packs", k)
  /\ UNCHANGED <<indexes, strays, visible, mem, uploads, faults, orphans, exposed>>

\* Faulty: does not wait for the packs.
WriteIndexEarly(p, k) ==
  /\ job[p].pc = "upload"
  /\ k \in job[p].indexes
  /\ indexes' = indexes \cup {k}
  /\ Step(p, "indexes", k)
  /\ orphans' = IF job[p].raced THEN orphans \cup ({k} \ packs) ELSE orphans
  /\ UNCHANGED <<packs, strays, visible, mem, uploads, faults, exposed>>

WriteIndex(p, k) ==
  /\ job[p].pc = "upload"
  /\ job[p].packs = {}
  /\ k \in job[p].indexes
  /\ indexes' = indexes \cup {k}
  /\ Step(p, "indexes", k)
  /\ orphans' = IF job[p].raced THEN orphans \cup ({k} \ packs) ELSE orphans
  /\ UNCHANGED <<packs, strays, visible, mem, uploads, faults, exposed>>

\* write_immutable has written the index of k under its temporary name and the
\* call fails, or dies, before the rename: nobody ever removes that file.
StrayIndex(p, k) ==
  /\ job[p].pc = "upload"
  /\ job[p].packs = {}
  /\ k \in job[p].indexes
  /\ faults < MaxFaults /\ faults' = faults + 1
  /\ strays' = strays \cup {k}
  /\ orphans' = IF job[p].raced THEN orphans \cup ({k} \ packs) ELSE orphans
  /\ Start(p, Idle)
  /\ UNCHANGED <<packs, indexes, visible, mem, uploads, exposed>>

Publish(p) ==
  /\ job[p].pc = "upload"
  /\ job[p].packs = {} /\ job[p].indexes = {}
  /\ visible' = visible \cup {job[p].content}
  /\ mem' = [mem EXCEPT ![p] = @ \cup {job[p].content}]
  /\ exposed' = IF job[p].raced THEN exposed \cup {job[p].content}
                ELSE exposed \ {job[p].content}
  /\ Start(p, Idle)
  /\ UNCHANGED <<packs, indexes, strays, uploads, faults, orphans>>

---------------------------------------------------------------------------
(* A download.                                                             *)

\* content_for_remote of a head that the refresh has just shown.  It fails here
\* if a chunk is in no index, and in read_ranges if a pack is gone.
Locate(p, m) ==
  /\ m \in visible
  /\ mem' = [mem EXCEPT ![p] = @ \cup visible]
  /\ ToSet(m) \subseteq ChunksOf(Indexed)
  /\ \E found \in LookupChunks(ToSet(m)) :
       Enter(p, [Idle EXCEPT !.pc = "read", !.found = found])
  /\ UNCHANGED <<packs, indexes, strays, visible, uploads, faults, orphans, exposed>>

ReadRanges(p) ==
  /\ job[p].pc = "read"
  /\ Start(p, Idle)
  /\ UNCHANGED <<packs, indexes, strays, visible, mem, uploads, faults, orphans, exposed>>

---------------------------------------------------------------------------
(* maintain.                                                               *)

\* maintain up to the lookup of the chunks that are live: it refreshes, makes
\* some commits obsolete (module Maintenance says which) and takes the chunks
\* of the others for live.
Survey(p, obsolete) ==
  LET known == (mem[p] \cup visible) \ obsolete
  IN  /\ visible' = visible \ obsolete
      /\ mem' = [mem EXCEPT ![p] = known]
      /\ \E found \in LookupChunks(ChunksOf(known)) :
           Enter(p, [Idle EXCEPT !.pc = "list", !.found = found, !.obsolete = obsolete])
      /\ exposed' = IF \E q \in Clients : Collecting(q) THEN visible' ELSE exposed \ obsolete
      /\ UNCHANGED <<packs, indexes, strays, uploads, faults, orphans>>

\* Faulty: lists the packs that have an index.
DeadIndexed(live) == indexes \ live

\* list_pack_ids, without the live ones.
Dead(live) == packs \ live

ListPacks(p) ==
  /\ job[p].pc = "list"
  /\ Start(p, [job[p] EXCEPT !.pc = "delete", !.packs = Dead(job[p].found)])
  /\ UNCHANGED <<packs, indexes, strays, visible, mem, uploads, faults, orphans, exposed>>

\* delete_pack_objects removes a pack and then its index, one after the other.
DeletePack(p, k) ==
  /\ job[p].pc = "delete"
  /\ k \in job[p].packs /\ job[p].indexes = {}
  /\ packs' = packs \ {k}
  /\ orphans' = orphans \cup ({k} \cap strays)
  /\ Start(p, [job[p] EXCEPT !.packs = @ \ {k}, !.indexes = {k}])
  /\ UNCHANGED <<indexes, strays, visible, mem, uploads, faults, exposed>>

DeleteIndex(p, k) ==
  /\ job[p].pc = "delete"
  /\ k \in job[p].indexes
  /\ indexes' = indexes \ {k}
  /\ Step(p, "indexes", k)
  /\ UNCHANGED <<packs, strays, visible, mem, uploads, faults, orphans, exposed>>

Finish(p) ==
  /\ job[p].pc = "delete"
  /\ job[p].packs = {} /\ job[p].indexes = {}
  /\ Start(p, Idle)
  /\ UNCHANGED <<packs, indexes, strays, visible, mem, uploads, faults, orphans, exposed>>

---------------------------------------------------------------------------
\* A call fails, or its process dies: then what it has not saved is forgotten.
Fail(p) ==
  /\ job[p].pc # "idle"
  /\ faults < MaxFaults
  /\ faults' = faults + 1
  /\ \E remembered \in {{}, job[p].obsolete} :
       mem' = [mem EXCEPT ![p] = @ \cup remembered]
  /\ orphans' = IF Collecting(p) THEN orphans \cup job[p].indexes ELSE orphans
  /\ Start(p, Idle)
  /\ UNCHANGED <<packs, indexes, strays, visible, uploads, exposed>>

Next ==
  \E p \in Clients :
    \/ \E m \in Manifests : Lookup(p, m) \/ Locate(p, m)
    \/ \E k \in job[p].packs : WritePack(p, k) \/ DeletePack(p, k)
    \/ \E k \in job[p].indexes : WriteIndex(p, k) \/ StrayIndex(p, k) \/ DeleteIndex(p, k)
    \/ Publish(p) \/ ReadRanges(p)
    \/ \E obsolete \in SUBSET (mem[p] \cup visible) : Survey(p, obsolete)
    \/ ListPacks(p) \/ Finish(p) \/ Fail(p)

Spec == Init /\ [][Next]_vars

---------------------------------------------------------------------------
(* Properties.                                                             *)

\* Every chunk of a visible content is in a pack that is stored and indexed, so
\* that the uploads that did not send it, because another upload had, were
\* right to rely on it, unless an orphaned index lists it or the content was
\* uploaded during a collection.
ChunksStored ==
  \A m \in visible \ exposed : ToSet(m) \subseteq ChunksOf((packs \cap Indexed) \cup orphans)

\* A download reads what its lookup has found: no pack vanishes and no index
\* but an orphaned one points to a pack that is not there, although chunks are
\* stored twice by uploads that overlap and by uploads that were cut short,
\* unless a collection ran meanwhile.
DownloadReadable ==
  \A p \in Clients :
    job[p].pc = "read" /\ ~job[p].raced => job[p].found \subseteq packs \cup orphans

\* A collection that runs to its end, alone, leaves no pack without a chunk of a
\* commit its client knows, not even packs that never got an index.
GarbageCollected ==
  [][ \A p \in Clients : Finish(p) /\ ~job[p].raced =>
        \A k \in packs' : \E m \in mem'[p] : ToSet(k) \cap ToSet(m) # {} ]_vars

============================================================================
