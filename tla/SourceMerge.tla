----------------------------- MODULE SourceMerge -----------------------------
(***************************************************************************)
(* How the descriptor sources of a collection become one set of            *)
(* definitions (service/workspace/sources.go).  The sources come in the     *)
(* order of the list.  A source that resolved to something has a snapshot:  *)
(* the proto files it holds, the services each of them defines, and the     *)
(* services the source says it has.  Two sources may hold files of one name *)
(* that differ.  What a file says besides its services is left out.         *)
(***************************************************************************)
EXTENDS Naturals, Sequences

CONSTANTS Unresolved   \* instead of the snapshot of a source that has none

\* One source as the merge sees it: its id, whether it is a server that can be
\* called, and its snapshot.
Holds(r, f) == r.snap # Unresolved /\ f \in r.snap.files
Lists(r, s) == r.snap # Unresolved /\ s \in r.snap.listed

FilesOf(rs) == UNION { rs[i].snap.files : i \in { j \in DOMAIN rs : rs[j].snap # Unresolved } }

LastClaimant(rs, f) == CHOOSE i \in DOMAIN rs :
                         Holds(rs[i], f) /\ \A j \in (i + 1)..Len(rs) : ~Holds(rs[j], f)

\* The first source that holds a file of this name claims it.
Claimant(rs, f) == CHOOSE i \in DOMAIN rs :
                     Holds(rs[i], f) /\ \A j \in 1..(i - 1) : ~Holds(rs[j], f)

\* The services a claimed file defines, as its claimant has it.
Defined(rs, f) == rs[Claimant(rs, f)].snap.defines[f]

\* The claimed files do not link when two of them define the same service.
Conflict(rs) == \E f, g \in FilesOf(rs) : f # g /\ Defined(rs, f) \cap Defined(rs, g) # {}

\* What can be called: a linked service that some source lists.
Offered(rs) == { s \in UNION { Defined(rs, f) : f \in FilesOf(rs) } :
                   \E i \in DOMAIN rs : Lists(rs[i], s) }

\* Which source's summary counts a service as its own.
WonBy(rs, s) == rs[CHOOSE i \in DOMAIN rs : \E f \in FilesOf(rs) :
                     i = Claimant(rs, f) /\ s \in Defined(rs, f)].id

Servers(rs, s) == { i \in DOMAIN rs : rs[i].reflects /\ Lists(rs[i], s) }

\* The server a service is called on unless the request names another: the
\* first that lists it, whoever won it.
Dial(rs, s) == CHOOSE i \in Servers(rs, s) : \A j \in Servers(rs, s) : i <= j
==============================================================================
