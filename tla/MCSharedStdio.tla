--------------------------- MODULE MCSharedStdio ---------------------------
(***************************************************************************)
(* The shared stdio binding for TLC, twice: callers that reuse request IDs *)
(* ("ids", the constants of the configuration), and two handshakes with a  *)
(* legacy request beside them ("guard").  With it the observation that the *)
(* binding's reads and writes feed ("observation").                        *)
(***************************************************************************)
EXTENDS SharedStdio, TLC

CONSTANTS i, j, n, p

VARIABLES which, o, alive, catalog, firstCatalog, wire, asked, conn, retired, missed

Guard == INSTANCE SharedStdio WITH
           Commands <- {i, j, n, p}, Initializes <- {i, j}, Notices <- {n}, Modern <- {},
           IDs <- {1}, maxRetiredResponseIDs <- 1, MaxChatter <- 0

(* Two catalogs of two pages, one after the other, with room in the        *)
(* observation for the names of one of them.                               *)
Page(names, next) == [names |-> names, next |-> next, limited |-> FALSE]
catalogs == << <<Page({1}, 1), Page({2}, 0)>>, <<Page({3}, 1), Page({4}, 0)>> >>
Observation == INSTANCE ProtocolObservation WITH
                 Catalogs <- catalogs, MaxEpoch <- 1, MaxRevision <- 2,
                 maxObservationPages <- 2, maxObservationToolNames <- 2,
                 MaxGen <- 2, MaxRetired <- 1

observation == <<o, alive, catalog, firstCatalog, wire, asked, conn, retired, missed>>
allVars == <<which, vars, observation>>

MCInit ==
  /\ Observation!Init
  /\ \/ which \in {"ids", "observation"} /\ Init
     \/ which = "guard" /\ Guard!Init
  /\ which = "observation" => callerID = [c \in Commands |-> CHOOSE id \in IDs : TRUE]

MCNext ==
  /\ UNCHANGED which
  /\ \/ which = "ids" /\ Next /\ UNCHANGED observation
     \/ which = "guard" /\ Guard!Next /\ UNCHANGED observation
     \/ which = "observation" /\ Observation!Next /\ UNCHANGED vars

MCSpec == MCInit /\ [][MCNext]_allVars

(* Self-contained requests are interchangeable, and so are initializes.    *)
Symmetry == Permutations(Modern) \cup Permutations({i, j})

-----------------------------------------------------------------------------
(* What /health shows of the child's protocol rests on answers of that     *)
(* very child, and a catalog reported complete is one first-to-last        *)
(* traversal.                                                              *)
EvidenceIsCurrent ==
    which = "observation" => Observation!CompleteIsOneTraversal /\ Observation!EvidenceIsSameChild
=============================================================================
