--------------------- MODULE ReputationMinerClientProofs ---------------------
(***************************************************************************)
(* What the loop of the miner client submits and what its oracle answers,  *)
(* for every number of cycles, rivals, entries and stops, as long as none  *)
(* of the rare events happens.                                             *)
(*                                                                         *)
(* What the client holds is right only as of the cycle whose contract it   *)
(* read (addr); the invariant says of every place what follows as long as  *)
(* that is the active cycle, and that an entry prepared in an earlier one  *)
(* meets a closed or too young window.                                     *)
(***************************************************************************)
EXTENDS ReputationMinerClient, SetLemmas, TLAPS

\* Before the client is at doBlockChecks' second half, or while it starts.
Preparing == {"ensure", "sync", "syncing", "since", "process", "replaying", "save", "cache", "best"}

Trees == {<<>>} \cup (Int \X Int)

TreesOK == TypeOK /\ saved = begun /\ cache \in Trees /\ justified \in Trees

ChainOK ==
    /\ cycle \in Nat \ {0} /\ cycle <= MaxCycle /\ age \in Nat
    /\ mine \subseteq 1 .. Entries

ProcessOK ==
    /\ addr \in 0 .. cycle /\ logRead \in 0 .. cycle
    /\ blockCycle \in 0 .. cycle /\ miningCycleAddress \in 0 .. cycle /\ bestOf \in 0 .. cycle
    /\ blockAge \in Nat /\ submissionIndex \in Nat \ {0}
    /\ pc = "submit" => submissionIndex <= Entries

FlagsOK == starting \in BOOLEAN /\ closing \in BOOLEAN /\ blockSeenWhileLocked \in BOOLEAN

ClientTypeOK == TreesOK /\ ChainOK /\ ProcessOK /\ FlagsOK

\* A cycle that counts as seen is one whose state the client has.
StateKnown == ~starting /\ miningCycleAddress = cycle => local = cycle + 1

Prepares ==
    /\ starting => pc \in Preparing \ {"ensure"}
    /\ ~starting /\ pc \in Preparing => miningCycleAddress < cycle

\* The part of the preparation that holds whether or not the cycle has changed.
OnTheWay ==
    /\ starting /\ pc \in {"sync", "syncing"} => local = Empty
    /\ starting /\ pc = "since" => local <= cycle
    /\ pc = "process" => local <= cycle
    /\ pc = "replaying" => previous <= logRead /\ local = Wrong
    /\ pc \in {"save", "cache"} =>
          justified # <<>> /\ (justified[2] = justified[1] + 1 \/ justified[1] < cycle)
    /\ cache # <<>> => cache[2] = cache[1] + 1 \/ cache[1] < cycle

\* The part that holds as long as the contract read is the active one.
UpToDate ==
    addr = cycle =>
        /\ starting /\ pc = "syncing" => logRead = cycle
        /\ starting /\ pc = "since" => logRead = cycle /\ local = cycle
        /\ pc = "process" => local = cycle
        /\ pc = "replaying" => previous = cycle /\ logRead = cycle
        /\ pc \in {"save", "cache", "best", "auto", "submit"} => local = cycle + 1

\* An entry prepared for a cycle that is over comes before the first entry of
\* the next one is due.
OutOfDate ==
    /\ ~starting /\ pc \in Waiting \ {"readCycle"} => blockCycle <= addr
    /\ pc = "auto" /\ addr # cycle => age = 0 \/ blockCycle < bestOf
    /\ pc = "submit" /\ addr # cycle => age = 0

\* What a tree holds is in the database, but for the moment before it is saved.
Kept ==
    /\ pc # "save" => local \in saved \cup {Empty, Wrong}
    /\ previous \in saved \cup {Empty, Wrong}

ClientInv ==
    /\ ClientTypeOK /\ StateKnown /\ Prepares /\ OnTheWay /\ UpToDate /\ OutOfDate /\ Kept
    /\ OnlyRightSubmitted

USE DEF vars, chain, disk, tree, book, block, Waiting, Empty, Wrong, None

-----------------------------------------------------------------------------
(* The database, when no save is torn, gives back all of a state or nothing. *)

\* A state that was saved is found, another is not.
LEMMA Restore ==
  ASSUME saved = begun, NEW s
  PROVE  getAllReputationsInHash(s) = IF s \in saved THEN {s} ELSE {Empty}
BY DEF getAllReputationsInHash

\* The newest known state of a range is one of the range, in the database, and is
\* loaded as it is.
LEMMA NewestInRange ==
  ASSUME saved = begun, NEW lo \in Nat, NEW hi \in Nat, newestKnown(lo .. hi) # {}
  PROVE  /\ Max(newestKnown(lo .. hi)) \in lo .. hi
         /\ Max(newestKnown(lo .. hi)) \in saved
         /\ getAllReputationsInHash(Max(newestKnown(lo .. hi))) = {Max(newestKnown(lo .. hi))}
<1> DEFINE known == newestKnown(lo .. hi)
<1>1. known # {} /\ known \subseteq 0 .. hi BY DEF newestKnown
<1>2. Max(known) \in known
  <2> HIDE DEF known
  <2> QED BY <1>1, MaxUpTo
<1>3. Max(known) \in lo .. hi /\ Max(known) \in saved
  BY <1>2 DEF newestKnown, cycleCompleteEventIsKnownState
<1> QED BY <1>3, Restore

\* The first round of sync works on the very state it starts from.
LEMMA SyncFromState ==
  ASSUME ClientTypeOK
  PROVE  /\ syncBase(1 .. logRead) = {syncStart(1 .. logRead)}
         /\ \/ syncStart(1 .. logRead) = local
            \/ syncStart(1 .. logRead) \in saved /\ syncStart(1 .. logRead) \in 1 .. logRead
<1> DEFINE known == newestKnown(1 .. logRead)
<1>1. saved = begun /\ logRead \in Nat BY DEF ClientTypeOK, TreesOK, ProcessOK, ChainOK
<1>2. CASE known = {} BY <1>2 DEF syncBase, syncStart
<1>3. CASE known # {}
  <2>1. Max(known) \in 1 .. logRead /\ Max(known) \in saved
        /\ getAllReputationsInHash(Max(known)) = {Max(known)}
    BY <1>1, <1>3, NewestInRange
  <2> QED BY <2>1, <1>3 DEF syncBase, syncStart
<1> QED BY <1>2, <1>3

\* What is replayed from a state of the database, or from the empty one, up to a
\* state of the chain is kept.
LEMMA ReplayKept ==
  ASSUME ClientInv, NEW start \in saved \cup {Empty}, NEW upTo \in Nat,
         start \in 0 .. upTo - 1, upTo <= cycle, Replay(start, start, upTo)
  PROVE  /\ saved' = begun' /\ begun' \subseteq Wrong .. MaxCycle + 1
         /\ local' \in Wrong .. MaxCycle + 1 /\ previous' \in Wrong .. MaxCycle + 1
         /\ local' \in saved' \cup {Empty, Wrong} /\ previous' \in saved' \cup {Empty, Wrong}
<1>1. start + 1 .. upTo \subseteq Wrong .. MaxCycle + 1 /\ upTo <= MaxCycle
  BY ClientAssumption DEF ClientInv, ClientTypeOK, ChainOK
<1>2. saved' = saved \cup (start + 1 .. upTo) /\ begun' = saved'
  BY DEF Replay, ClientInv, ClientTypeOK, TreesOK
<1>3. local' = upTo /\ previous' = upTo - 1 BY DEF Replay
<1>4. begun' \subseteq Wrong .. MaxCycle + 1
  BY <1>1, <1>2 DEF ClientInv, ClientTypeOK, TreesOK, TypeOK
<1>5. upTo \in start + 1 .. upTo /\ (upTo - 1 = start \/ upTo - 1 \in start + 1 .. upTo)
  OBVIOUS
<1>6. local' \in saved' /\ previous' \in saved' \cup {Empty}
  BY <1>2, <1>3, <1>5
<1>7. local' \in Wrong .. MaxCycle + 1 /\ previous' \in Wrong .. MaxCycle + 1
  BY <1>1, <1>3, ClientAssumption
<1> QED BY <1>2, <1>4, <1>6, <1>7

\* So is what was replayed before the run ended half-way.
LEMMA HalfReplayedKept ==
  ASSUME ClientInv, NEW start \in saved \cup {Empty}, NEW upTo \in Nat, pc # "save",
         start \in 0 .. upTo - 1, upTo <= cycle, HalfReplayed(start, start, upTo)
  PROVE  /\ saved' = begun' /\ begun' \subseteq Wrong .. MaxCycle + 1
         /\ local' \in Wrong .. MaxCycle + 1 /\ previous' \in Wrong .. MaxCycle + 1
         /\ local' \in saved' \cup {Empty, Wrong} /\ previous' \in saved' \cup {Empty, Wrong}
<1>1. PICK n \in start .. upTo - 1 :
        /\ saved' = saved \cup (start + 1 .. n) /\ begun' = begun \cup (start + 1 .. n)
        /\ \/ local' = n /\ previous' = (IF n = start THEN previous ELSE n - 1)
           \/ local' = Wrong /\ previous' = n
  BY DEF HalfReplayed
<1>2. /\ start + 1 .. n \subseteq Wrong .. MaxCycle + 1
      /\ n \in Nat /\ n <= MaxCycle /\ MaxCycle \in Nat
  BY ClientAssumption DEF ClientInv, ClientTypeOK, ChainOK
<1>3. saved' = begun' BY <1>1 DEF ClientInv, ClientTypeOK, TreesOK
<1>4. begun' \subseteq Wrong .. MaxCycle + 1
  BY <1>1, <1>2 DEF ClientInv, ClientTypeOK, TreesOK, TypeOK
<1>5. n = start \/ n \in start + 1 .. n OBVIOUS
<1>6. n = start \/ n - 1 = start \/ n - 1 \in start + 1 .. n OBVIOUS
<1>7. local' \in saved' \cup {Empty, Wrong} /\ previous' \in saved' \cup {Empty, Wrong}
  BY <1>1, <1>5, <1>6 DEF ClientInv, Kept
<1>8. local' \in Wrong .. MaxCycle + 1 /\ previous' \in Wrong .. MaxCycle + 1
  BY <1>1, <1>2 DEF ClientInv, ClientTypeOK, TreesOK, TypeOK
<1> QED BY <1>3, <1>4, <1>7, <1>8

\* The second round of sync starts from a state of the database, and never when
\* the first one has read the active cycle.
LEMMA SinceFromState ==
  ASSUME ClientInv, pc = "since", NEW head \in {0, 1}, newestKnown(sinceEvents(head)) # {}
  PROVE  /\ Max(newestKnown(sinceEvents(head))) \in saved
         /\ Max(newestKnown(sinceEvents(head))) \in 1 .. cycle
         /\ getAllReputationsInHash(Max(newestKnown(sinceEvents(head))))
              = {Max(newestKnown(sinceEvents(head)))}
         /\ logRead # cycle
<1> DEFINE lo == logRead + 2 - head
<1>1. saved = begun /\ lo \in Nat /\ lo >= 1 /\ cycle \in Nat /\ logRead \in Nat
  BY DEF ClientInv, ClientTypeOK, TreesOK, ProcessOK, ChainOK
<1>2. sinceEvents(head) = lo .. cycle BY DEF sinceEvents
<1>3. Max(newestKnown(lo .. cycle)) \in lo .. cycle
      /\ Max(newestKnown(lo .. cycle)) \in saved
      /\ getAllReputationsInHash(Max(newestKnown(lo .. cycle))) = {Max(newestKnown(lo .. cycle))}
  <2> HIDE DEF lo
  <2> QED BY <1>1, <1>2, NewestInRange
<1>4. logRead # cycle BY <1>1, <1>3
<1>5. lo .. cycle \subseteq 1 .. cycle BY <1>1
<1> QED BY <1>2, <1>3, <1>4, <1>5

-----------------------------------------------------------------------------
(* Every step keeps the invariant.                                         *)

\* One lemma per step of the others, of the chain and of the client.
LEMMA OthersSubmitInv ==
  ASSUME ClientInv, OthersSubmit, Mishaps = {}
  PROVE  ClientInv'
<1>1. TreesOK'
  BY ClientAssumption
     DEF ClientInv, ClientTypeOK, ChainOK, ProcessOK, TreesOK, TypeOK, Trees, Places,
         OthersSubmit, OthersOnly
<1>2. ChainOK'
  BY ClientAssumption DEF ClientInv, ClientTypeOK, ChainOK, ProcessOK, OthersSubmit, OthersOnly
<1>3. ProcessOK'
  BY ClientAssumption
     DEF ClientInv, ClientTypeOK, ChainOK, ProcessOK, TreesOK, TypeOK, Places, OthersSubmit,
         OthersOnly
<1>10. FlagsOK'
  BY ClientAssumption DEF ClientInv, ClientTypeOK, FlagsOK, OthersSubmit, OthersOnly
<1>4. StateKnown' /\ Prepares'
  BY ClientAssumption
     DEF ClientInv, ClientTypeOK, TreesOK, ChainOK, ProcessOK, StateKnown, Prepares, OutOfDate,
         UpToDate, Preparing, OthersSubmit, OthersOnly
<1>5. OnTheWay'
  BY ClientAssumption
     DEF ClientInv, ClientTypeOK, ChainOK, ProcessOK, TreesOK, TypeOK, OnTheWay, UpToDate, Trees,
         Prepares, Preparing, StateKnown, OthersSubmit, OthersOnly
<1>6. UpToDate'
  BY ClientAssumption
     DEF ClientInv, ClientTypeOK, TreesOK, ChainOK, ProcessOK, OnTheWay, UpToDate, StateKnown,
         Prepares, Preparing, OthersSubmit, OthersOnly
<1>7. OutOfDate'
  BY ClientAssumption
     DEF ClientInv, ClientTypeOK, ChainOK, ProcessOK, TreesOK, TypeOK, Prepares, OutOfDate,
         UpToDate, Preparing, Places, OthersSubmit, OthersOnly
<1>8. Kept'
  BY ClientAssumption DEF ClientInv, ClientTypeOK, TreesOK, Kept, OthersSubmit, OthersOnly
<1>9. OnlyRightSubmitted'
  BY ClientAssumption
     DEF ClientInv, OnlyRightSubmitted, ClientTypeOK, ChainOK, ProcessOK, UpToDate, OutOfDate,
         OthersSubmit, OthersOnly
<1> QED BY <1>1, <1>2, <1>3, <1>4, <1>5, <1>6, <1>7, <1>8, <1>9, <1>10 DEF ClientInv, ClientTypeOK

LEMMA OthersSettleInv ==
  ASSUME ClientInv, OthersSettle, Mishaps = {}
  PROVE  ClientInv'
<1>1. TreesOK'
  BY ClientAssumption
     DEF ClientInv, ClientTypeOK, ChainOK, ProcessOK, TreesOK, TypeOK, Trees, Places,
         OthersSettle, OthersOnly
<1>2. ChainOK'
  BY ClientAssumption DEF ClientInv, ClientTypeOK, ChainOK, ProcessOK, OthersSettle, OthersOnly
<1>3. ProcessOK'
  BY ClientAssumption
     DEF ClientInv, ClientTypeOK, ChainOK, ProcessOK, TreesOK, TypeOK, Places, OthersSettle,
         OthersOnly
<1>10. FlagsOK'
  BY ClientAssumption DEF ClientInv, ClientTypeOK, FlagsOK, OthersSettle, OthersOnly
<1>4. StateKnown' /\ Prepares'
  BY ClientAssumption
     DEF ClientInv, ClientTypeOK, TreesOK, ChainOK, ProcessOK, StateKnown, Prepares, OutOfDate,
         UpToDate, Preparing, OthersSettle, OthersOnly
<1>5. OnTheWay'
  BY ClientAssumption
     DEF ClientInv, ClientTypeOK, ChainOK, ProcessOK, TreesOK, TypeOK, OnTheWay, UpToDate, Trees,
         Prepares, Preparing, StateKnown, OthersSettle, OthersOnly
<1>6. UpToDate'
  BY ClientAssumption
     DEF ClientInv, ClientTypeOK, TreesOK, ChainOK, ProcessOK, OnTheWay, UpToDate, StateKnown,
         Prepares, Preparing, OthersSettle, OthersOnly
<1>7. OutOfDate'
  BY ClientAssumption
     DEF ClientInv, ClientTypeOK, ChainOK, ProcessOK, TreesOK, TypeOK, Prepares, OutOfDate,
         UpToDate, Preparing, Places, OthersSettle, OthersOnly
<1>8. Kept'
  BY ClientAssumption DEF ClientInv, ClientTypeOK, TreesOK, Kept, OthersSettle, OthersOnly
<1>9. OnlyRightSubmitted'
  BY ClientAssumption
     DEF ClientInv, OnlyRightSubmitted, ClientTypeOK, ChainOK, ProcessOK, UpToDate, OutOfDate,
         OthersSettle, OthersOnly
<1> QED BY <1>1, <1>2, <1>3, <1>4, <1>5, <1>6, <1>7, <1>8, <1>9, <1>10 DEF ClientInv, ClientTypeOK

LEMMA OthersConfirmInv ==
  ASSUME ClientInv, OthersConfirm, Mishaps = {}
  PROVE  ClientInv'
<1>1. TreesOK'
  BY ClientAssumption
     DEF ClientInv, ClientTypeOK, ChainOK, ProcessOK, TreesOK, TypeOK, Trees, Places,
         OthersConfirm, OthersOnly, NextCycle
<1>2. ChainOK'
  BY ClientAssumption
     DEF ClientInv, ClientTypeOK, ChainOK, ProcessOK, OthersConfirm, OthersOnly, NextCycle
<1>3. ProcessOK'
  BY ClientAssumption
     DEF ClientInv, ClientTypeOK, ChainOK, ProcessOK, TreesOK, TypeOK, Places, OthersConfirm,
         OthersOnly, NextCycle
<1>10. FlagsOK'
  BY ClientAssumption DEF ClientInv, ClientTypeOK, FlagsOK, OthersConfirm, OthersOnly, NextCycle
<1>4. StateKnown' /\ Prepares'
  BY ClientAssumption
     DEF ClientInv, ClientTypeOK, TreesOK, ChainOK, ProcessOK, StateKnown, Prepares, OutOfDate,
         UpToDate, Preparing, OthersConfirm, OthersOnly, NextCycle
<1>5. OnTheWay'
  BY ClientAssumption
     DEF ClientInv, ClientTypeOK, ChainOK, ProcessOK, TreesOK, TypeOK, OnTheWay, UpToDate, Trees,
         Prepares, Preparing, StateKnown, OthersConfirm, OthersOnly, NextCycle
<1>6. UpToDate'
  BY ClientAssumption
     DEF ClientInv, ClientTypeOK, TreesOK, ChainOK, ProcessOK, OnTheWay, UpToDate, StateKnown,
         Prepares, Preparing, OthersConfirm, OthersOnly, NextCycle
<1>7. OutOfDate'
  BY ClientAssumption
     DEF ClientInv, ClientTypeOK, ChainOK, ProcessOK, TreesOK, TypeOK, Prepares, OutOfDate,
         UpToDate, Preparing, Places, OthersConfirm, OthersOnly, NextCycle
<1>8. Kept'
  BY ClientAssumption
     DEF ClientInv, ClientTypeOK, TreesOK, Kept, OthersConfirm, OthersOnly, NextCycle
<1>9. OnlyRightSubmitted'
  BY ClientAssumption
     DEF ClientInv, OnlyRightSubmitted, ClientTypeOK, ChainOK, ProcessOK, UpToDate, OutOfDate,
         OthersConfirm, OthersOnly, NextCycle
<1> QED BY <1>1, <1>2, <1>3, <1>4, <1>5, <1>6, <1>7, <1>8, <1>9, <1>10 DEF ClientInv, ClientTypeOK

LEMMA NewBlockInv ==
  ASSUME ClientInv, NewBlock, Mishaps = {}
  PROVE  ClientInv'
<1>1. TreesOK'
  BY ClientAssumption
     DEF ClientInv, ClientTypeOK, ChainOK, ProcessOK, TreesOK, TypeOK, Trees, Places, NewBlock
<1>2. ChainOK'
  BY ClientAssumption DEF ClientInv, ClientTypeOK, ChainOK, ProcessOK, NewBlock
<1>3. ProcessOK'
  BY ClientAssumption
     DEF ClientInv, ClientTypeOK, ChainOK, ProcessOK, TreesOK, TypeOK, Places, NewBlock
<1>10. FlagsOK'
  BY ClientAssumption DEF ClientInv, ClientTypeOK, FlagsOK, NewBlock
<1>4. StateKnown' /\ Prepares'
  BY ClientAssumption
     DEF ClientInv, ClientTypeOK, TreesOK, ChainOK, ProcessOK, StateKnown, Prepares, OutOfDate,
         UpToDate, Preparing, NewBlock
<1>5. OnTheWay'
  BY ClientAssumption
     DEF ClientInv, ClientTypeOK, ChainOK, ProcessOK, TreesOK, TypeOK, OnTheWay, UpToDate, Trees,
         Prepares, Preparing, StateKnown, NewBlock
<1>6. UpToDate'
  BY ClientAssumption
     DEF ClientInv, ClientTypeOK, TreesOK, ChainOK, ProcessOK, OnTheWay, UpToDate, StateKnown,
         Prepares, Preparing, NewBlock
<1>7. OutOfDate'
  BY ClientAssumption
     DEF ClientInv, ClientTypeOK, ChainOK, ProcessOK, TreesOK, TypeOK, Prepares, OutOfDate,
         UpToDate, Preparing, Places, NewBlock
<1>8. Kept'
  BY ClientAssumption DEF ClientInv, ClientTypeOK, TreesOK, Kept, NewBlock
<1>9. OnlyRightSubmitted'
  BY ClientAssumption
     DEF ClientInv, OnlyRightSubmitted, ClientTypeOK, ChainOK, ProcessOK, UpToDate, OutOfDate,
         NewBlock
<1> QED BY <1>1, <1>2, <1>3, <1>4, <1>5, <1>6, <1>7, <1>8, <1>9, <1>10 DEF ClientInv, ClientTypeOK

LEMMA readCycleInv ==
  ASSUME ClientInv, readCycle, Mishaps = {}
  PROVE  ClientInv'
<1>1. TreesOK'
  BY ClientAssumption
     DEF ClientInv, ClientTypeOK, ChainOK, ProcessOK, TreesOK, TypeOK, Trees, Places, readCycle,
         cycleIsNew, GoTo, endDoBlockChecks
<1>2. ChainOK'
  BY ClientAssumption
     DEF ClientInv, ClientTypeOK, ChainOK, ProcessOK, readCycle, cycleIsNew, GoTo,
         endDoBlockChecks
<1>3. ProcessOK'
  BY ClientAssumption
     DEF ClientInv, ClientTypeOK, ChainOK, ProcessOK, TreesOK, TypeOK, Places, readCycle,
         cycleIsNew, GoTo, endDoBlockChecks
<1>10. FlagsOK'
  BY ClientAssumption
     DEF ClientInv, ClientTypeOK, FlagsOK, readCycle, cycleIsNew, GoTo, endDoBlockChecks
<1>4. StateKnown' /\ Prepares'
  BY ClientAssumption
     DEF ClientInv, ClientTypeOK, TreesOK, ChainOK, ProcessOK, StateKnown, Prepares, OutOfDate,
         UpToDate, Preparing, readCycle, cycleIsNew, GoTo, endDoBlockChecks
<1>5. OnTheWay'
  BY ClientAssumption
     DEF ClientInv, ClientTypeOK, ChainOK, ProcessOK, TreesOK, TypeOK, OnTheWay, UpToDate, Trees,
         Prepares, Preparing, StateKnown, readCycle, cycleIsNew, GoTo, endDoBlockChecks
<1>6. UpToDate'
  BY ClientAssumption
     DEF ClientInv, ClientTypeOK, TreesOK, ChainOK, ProcessOK, OnTheWay, UpToDate, StateKnown,
         Prepares, Preparing, readCycle, cycleIsNew, GoTo, endDoBlockChecks
<1>7. OutOfDate'
  BY ClientAssumption
     DEF ClientInv, ClientTypeOK, ChainOK, ProcessOK, TreesOK, TypeOK, Prepares, OutOfDate,
         UpToDate, Preparing, Places, readCycle, cycleIsNew, GoTo, endDoBlockChecks
<1>8. Kept'
  BY ClientAssumption
     DEF ClientInv, ClientTypeOK, TreesOK, Kept, readCycle, cycleIsNew, GoTo, endDoBlockChecks
<1>9. OnlyRightSubmitted'
  BY ClientAssumption
     DEF ClientInv, OnlyRightSubmitted, ClientTypeOK, ChainOK, ProcessOK, UpToDate, OutOfDate,
         readCycle, cycleIsNew, GoTo, endDoBlockChecks
<1> QED BY <1>1, <1>2, <1>3, <1>4, <1>5, <1>6, <1>7, <1>8, <1>9, <1>10 DEF ClientInv, ClientTypeOK

LEMMA ensureSyncedInv ==
  ASSUME ClientInv, ensureSynced, Mishaps = {}
  PROVE  ClientInv'
<1>1. TreesOK'
  BY ClientAssumption
     DEF ClientInv, ClientTypeOK, ChainOK, ProcessOK, TreesOK, TypeOK, Trees, Places,
         ensureSynced, GoTo
<1>2. ChainOK'
  BY ClientAssumption DEF ClientInv, ClientTypeOK, ChainOK, ProcessOK, ensureSynced, GoTo
<1>3. ProcessOK'
  BY ClientAssumption
     DEF ClientInv, ClientTypeOK, ChainOK, ProcessOK, TreesOK, TypeOK, Places, ensureSynced, GoTo
<1>10. FlagsOK'
  BY ClientAssumption DEF ClientInv, ClientTypeOK, FlagsOK, ensureSynced, GoTo
<1>4. StateKnown' /\ Prepares'
  BY ClientAssumption
     DEF ClientInv, ClientTypeOK, TreesOK, ChainOK, ProcessOK, StateKnown, Prepares, OutOfDate,
         UpToDate, Preparing, ensureSynced, GoTo
<1>5. OnTheWay'
  BY ClientAssumption
     DEF ClientInv, ClientTypeOK, ChainOK, ProcessOK, TreesOK, TypeOK, OnTheWay, UpToDate, Trees,
         Prepares, Preparing, StateKnown, ensureSynced, GoTo
<1>6. UpToDate'
  BY ClientAssumption
     DEF ClientInv, ClientTypeOK, TreesOK, ChainOK, ProcessOK, OnTheWay, UpToDate, StateKnown,
         Prepares, Preparing, ensureSynced, GoTo
<1>7. OutOfDate'
  BY ClientAssumption
     DEF ClientInv, ClientTypeOK, ChainOK, ProcessOK, TreesOK, TypeOK, Prepares, OutOfDate,
         UpToDate, Preparing, Places, ensureSynced, GoTo
<1>8. Kept'
  BY ClientAssumption DEF ClientInv, ClientTypeOK, TreesOK, Kept, ensureSynced, GoTo
<1>9. OnlyRightSubmitted'
  BY ClientAssumption
     DEF ClientInv, OnlyRightSubmitted, ClientTypeOK, ChainOK, ProcessOK, UpToDate, OutOfDate,
         ensureSynced, GoTo
<1> QED BY <1>1, <1>2, <1>3, <1>4, <1>5, <1>6, <1>7, <1>8, <1>9, <1>10 DEF ClientInv, ClientTypeOK

LEMMA readEventsInv ==
  ASSUME ClientInv, readEvents, Mishaps = {}
  PROVE  ClientInv'
<1>1. TreesOK'
  BY ClientAssumption
     DEF ClientInv, ClientTypeOK, ChainOK, ProcessOK, TreesOK, TypeOK, Trees, Places, readEvents,
         GoTo
<1>2. ChainOK'
  BY ClientAssumption DEF ClientInv, ClientTypeOK, ChainOK, ProcessOK, readEvents, GoTo
<1>3. ProcessOK'
  BY ClientAssumption
     DEF ClientInv, ClientTypeOK, ChainOK, ProcessOK, TreesOK, TypeOK, Places, readEvents, GoTo
<1>10. FlagsOK'
  BY ClientAssumption DEF ClientInv, ClientTypeOK, FlagsOK, readEvents, GoTo
<1>4. StateKnown' /\ Prepares'
  BY ClientAssumption
     DEF ClientInv, ClientTypeOK, TreesOK, ChainOK, ProcessOK, StateKnown, Prepares, OutOfDate,
         UpToDate, Preparing, readEvents, GoTo
<1>5. OnTheWay'
  BY ClientAssumption
     DEF ClientInv, ClientTypeOK, ChainOK, ProcessOK, TreesOK, TypeOK, OnTheWay, UpToDate, Trees,
         Prepares, Preparing, StateKnown, readEvents, GoTo
<1>6. UpToDate'
  BY ClientAssumption
     DEF ClientInv, ClientTypeOK, TreesOK, ChainOK, ProcessOK, OnTheWay, UpToDate, StateKnown,
         Prepares, Preparing, readEvents, GoTo
<1>7. OutOfDate'
  BY ClientAssumption
     DEF ClientInv, ClientTypeOK, ChainOK, ProcessOK, TreesOK, TypeOK, Prepares, OutOfDate,
         UpToDate, Preparing, Places, readEvents, GoTo
<1>8. Kept'
  BY ClientAssumption DEF ClientInv, ClientTypeOK, TreesOK, Kept, readEvents, GoTo
<1>9. OnlyRightSubmitted'
  BY ClientAssumption
     DEF ClientInv, OnlyRightSubmitted, ClientTypeOK, ChainOK, ProcessOK, UpToDate, OutOfDate,
         readEvents, GoTo
<1> QED BY <1>1, <1>2, <1>3, <1>4, <1>5, <1>6, <1>7, <1>8, <1>9, <1>10 DEF ClientInv, ClientTypeOK

LEMMA readLogInv ==
  ASSUME ClientInv, readLog, Mishaps = {}
  PROVE  ClientInv'
<1>1. TreesOK'
  BY ClientAssumption
     DEF ClientInv, ClientTypeOK, ChainOK, ProcessOK, TreesOK, TypeOK, Trees, Places, readLog,
         GoTo
<1>2. ChainOK'
  BY ClientAssumption DEF ClientInv, ClientTypeOK, ChainOK, ProcessOK, readLog, GoTo
<1>3. ProcessOK'
  BY ClientAssumption
     DEF ClientInv, ClientTypeOK, ChainOK, ProcessOK, TreesOK, TypeOK, Places, readLog, GoTo
<1>10. FlagsOK'
  BY ClientAssumption DEF ClientInv, ClientTypeOK, FlagsOK, readLog, GoTo
<1>4. StateKnown' /\ Prepares'
  BY ClientAssumption
     DEF ClientInv, ClientTypeOK, TreesOK, ChainOK, ProcessOK, StateKnown, Prepares, OutOfDate,
         UpToDate, Preparing, readLog, GoTo
<1>5. OnTheWay'
  BY ClientAssumption
     DEF ClientInv, ClientTypeOK, ChainOK, ProcessOK, TreesOK, TypeOK, OnTheWay, UpToDate, Trees,
         Prepares, Preparing, StateKnown, readLog, GoTo
<1>6. UpToDate'
  BY ClientAssumption
     DEF ClientInv, ClientTypeOK, TreesOK, ChainOK, ProcessOK, OnTheWay, UpToDate, StateKnown,
         Prepares, Preparing, readLog, GoTo
<1>7. OutOfDate'
  BY ClientAssumption
     DEF ClientInv, ClientTypeOK, ChainOK, ProcessOK, TreesOK, TypeOK, Prepares, OutOfDate,
         UpToDate, Preparing, Places, readLog, GoTo
<1>8. Kept'
  BY ClientAssumption DEF ClientInv, ClientTypeOK, TreesOK, Kept, readLog, GoTo
<1>9. OnlyRightSubmitted'
  BY ClientAssumption
     DEF ClientInv, OnlyRightSubmitted, ClientTypeOK, ChainOK, ProcessOK, UpToDate, OutOfDate,
         readLog, GoTo
<1> QED BY <1>1, <1>2, <1>3, <1>4, <1>5, <1>6, <1>7, <1>8, <1>9, <1>10 DEF ClientInv, ClientTypeOK

LEMMA addLogContentsToReputationTreeInv ==
  ASSUME ClientInv, addLogContentsToReputationTree, Mishaps = {}
  PROVE  ClientInv'
<1>1. TreesOK'
  BY ClientAssumption
     DEF ClientInv, ClientTypeOK, ChainOK, ProcessOK, TreesOK, TypeOK, Trees, Places,
         addLogContentsToReputationTree, GoTo, replay
<1>2. ChainOK'
  BY ClientAssumption
     DEF ClientInv, ClientTypeOK, ChainOK, ProcessOK, addLogContentsToReputationTree, GoTo, replay
<1>3. ProcessOK'
  BY ClientAssumption
     DEF ClientInv, ClientTypeOK, ChainOK, ProcessOK, TreesOK, TypeOK, Places,
         addLogContentsToReputationTree, GoTo, replay
<1>10. FlagsOK'
  BY ClientAssumption
     DEF ClientInv, ClientTypeOK, FlagsOK, addLogContentsToReputationTree, GoTo, replay
<1>4. StateKnown' /\ Prepares'
  BY ClientAssumption
     DEF ClientInv, ClientTypeOK, TreesOK, ChainOK, ProcessOK, StateKnown, Prepares, OutOfDate,
         UpToDate, Preparing, addLogContentsToReputationTree, GoTo, replay
<1>5. OnTheWay'
  BY ClientAssumption
     DEF ClientInv, ClientTypeOK, ChainOK, ProcessOK, TreesOK, TypeOK, OnTheWay, UpToDate, Trees,
         Prepares, Preparing, StateKnown, addLogContentsToReputationTree, GoTo, replay
<1>6. UpToDate'
  BY ClientAssumption
     DEF ClientInv, ClientTypeOK, TreesOK, ChainOK, ProcessOK, OnTheWay, UpToDate, StateKnown,
         Prepares, Preparing, addLogContentsToReputationTree, GoTo, replay
<1>7. OutOfDate'
  BY ClientAssumption
     DEF ClientInv, ClientTypeOK, ChainOK, ProcessOK, TreesOK, TypeOK, Prepares, OutOfDate,
         UpToDate, Preparing, Places, addLogContentsToReputationTree, GoTo, replay
<1>8. Kept'
  BY ClientAssumption
     DEF ClientInv, ClientTypeOK, TreesOK, Kept, addLogContentsToReputationTree, GoTo, replay
<1>9. OnlyRightSubmitted'
  BY ClientAssumption
     DEF ClientInv, OnlyRightSubmitted, ClientTypeOK, ChainOK, ProcessOK, UpToDate, OutOfDate,
         addLogContentsToReputationTree, GoTo, replay
<1> QED BY <1>1, <1>2, <1>3, <1>4, <1>5, <1>6, <1>7, <1>8, <1>9, <1>10 DEF ClientInv, ClientTypeOK

LEMMA saveInv ==
  ASSUME ClientInv, save, Mishaps = {}
  PROVE  ClientInv'
<1>1. TreesOK'
  BY ClientAssumption
     DEF ClientInv, ClientTypeOK, ChainOK, ProcessOK, TreesOK, TypeOK, Trees, Places, save, GoTo,
         saveCurrentState
<1>2. ChainOK'
  BY ClientAssumption
     DEF ClientInv, ClientTypeOK, ChainOK, ProcessOK, save, GoTo, saveCurrentState
<1>3. ProcessOK'
  BY ClientAssumption
     DEF ClientInv, ClientTypeOK, ChainOK, ProcessOK, TreesOK, TypeOK, Places, save, GoTo,
         saveCurrentState
<1>10. FlagsOK'
  BY ClientAssumption DEF ClientInv, ClientTypeOK, FlagsOK, save, GoTo, saveCurrentState
<1>4. StateKnown' /\ Prepares'
  BY ClientAssumption
     DEF ClientInv, ClientTypeOK, TreesOK, ChainOK, ProcessOK, StateKnown, Prepares, OutOfDate,
         UpToDate, Preparing, save, GoTo, saveCurrentState
<1>5. OnTheWay'
  BY ClientAssumption
     DEF ClientInv, ClientTypeOK, ChainOK, ProcessOK, TreesOK, TypeOK, OnTheWay, UpToDate, Trees,
         Prepares, Preparing, StateKnown, save, GoTo, saveCurrentState
<1>6. UpToDate'
  BY ClientAssumption
     DEF ClientInv, ClientTypeOK, TreesOK, ChainOK, ProcessOK, OnTheWay, UpToDate, StateKnown,
         Prepares, Preparing, save, GoTo, saveCurrentState
<1>7. OutOfDate'
  BY ClientAssumption
     DEF ClientInv, ClientTypeOK, ChainOK, ProcessOK, TreesOK, TypeOK, Prepares, OutOfDate,
         UpToDate, Preparing, Places, save, GoTo, saveCurrentState
<1>8. Kept'
  BY ClientAssumption DEF ClientInv, ClientTypeOK, TreesOK, Kept, save, GoTo, saveCurrentState
<1>9. OnlyRightSubmitted'
  BY ClientAssumption
     DEF ClientInv, OnlyRightSubmitted, ClientTypeOK, ChainOK, ProcessOK, UpToDate, OutOfDate,
         save, GoTo, saveCurrentState
<1> QED BY <1>1, <1>2, <1>3, <1>4, <1>5, <1>6, <1>7, <1>8, <1>9, <1>10 DEF ClientInv, ClientTypeOK

LEMMA saveJustificationTreeInv ==
  ASSUME ClientInv, saveJustificationTree, Mishaps = {}
  PROVE  ClientInv'
<1>1. TreesOK'
  BY ClientAssumption
     DEF ClientInv, ClientTypeOK, ChainOK, ProcessOK, TreesOK, TypeOK, Trees, Places,
         saveJustificationTree, GoTo
<1>2. ChainOK'
  BY ClientAssumption DEF ClientInv, ClientTypeOK, ChainOK, ProcessOK, saveJustificationTree, GoTo
<1>3. ProcessOK'
  BY ClientAssumption
     DEF ClientInv, ClientTypeOK, ChainOK, ProcessOK, TreesOK, TypeOK, Places,
         saveJustificationTree, GoTo
<1>10. FlagsOK'
  BY ClientAssumption DEF ClientInv, ClientTypeOK, FlagsOK, saveJustificationTree, GoTo
<1>4. StateKnown' /\ Prepares'
  BY ClientAssumption
     DEF ClientInv, ClientTypeOK, TreesOK, ChainOK, ProcessOK, StateKnown, Prepares, OutOfDate,
         UpToDate, Preparing, saveJustificationTree, GoTo
<1>5. OnTheWay'
  BY ClientAssumption
     DEF ClientInv, ClientTypeOK, ChainOK, ProcessOK, TreesOK, TypeOK, OnTheWay, UpToDate, Trees,
         Prepares, Preparing, StateKnown, saveJustificationTree, GoTo
<1>6. UpToDate'
  BY ClientAssumption
     DEF ClientInv, ClientTypeOK, TreesOK, ChainOK, ProcessOK, OnTheWay, UpToDate, StateKnown,
         Prepares, Preparing, saveJustificationTree, GoTo
<1>7. OutOfDate'
  BY ClientAssumption
     DEF ClientInv, ClientTypeOK, ChainOK, ProcessOK, TreesOK, TypeOK, Prepares, OutOfDate,
         UpToDate, Preparing, Places, saveJustificationTree, GoTo
<1>8. Kept'
  BY ClientAssumption DEF ClientInv, ClientTypeOK, TreesOK, Kept, saveJustificationTree, GoTo
<1>9. OnlyRightSubmitted'
  BY ClientAssumption
     DEF ClientInv, OnlyRightSubmitted, ClientTypeOK, ChainOK, ProcessOK, UpToDate, OutOfDate,
         saveJustificationTree, GoTo
<1> QED BY <1>1, <1>2, <1>3, <1>4, <1>5, <1>6, <1>7, <1>8, <1>9, <1>10 DEF ClientInv, ClientTypeOK

LEMMA checkSubmissionInv ==
  ASSUME ClientInv, checkSubmission, Mishaps = {}
  PROVE  ClientInv'
<1>1. TreesOK'
  BY ClientAssumption
     DEF ClientInv, ClientTypeOK, ChainOK, ProcessOK, TreesOK, TypeOK, Trees, Places,
         checkSubmission, GoTo, inTime, submissionPossible, withinTarget, windowClosed
<1>2. ChainOK'
  BY ClientAssumption
     DEF ClientInv, ClientTypeOK, ChainOK, ProcessOK, checkSubmission, GoTo, inTime,
         submissionPossible, withinTarget, windowClosed
<1>3. ProcessOK'
  BY ClientAssumption
     DEF ClientInv, ClientTypeOK, ChainOK, ProcessOK, TreesOK, TypeOK, Places, checkSubmission,
         GoTo, inTime, submissionPossible, withinTarget, windowClosed
<1>10. FlagsOK'
  BY ClientAssumption
     DEF ClientInv, ClientTypeOK, FlagsOK, checkSubmission, GoTo, inTime, submissionPossible,
         withinTarget, windowClosed
<1>4. StateKnown' /\ Prepares'
  BY ClientAssumption
     DEF ClientInv, ClientTypeOK, TreesOK, ChainOK, ProcessOK, StateKnown, Prepares, OutOfDate,
         UpToDate, Preparing, checkSubmission, GoTo, inTime, submissionPossible, withinTarget,
         windowClosed
<1>5. OnTheWay'
  BY ClientAssumption
     DEF ClientInv, ClientTypeOK, ChainOK, ProcessOK, TreesOK, TypeOK, OnTheWay, UpToDate, Trees,
         Prepares, Preparing, StateKnown, checkSubmission, GoTo, inTime, submissionPossible,
         withinTarget, windowClosed
<1>6. UpToDate'
  BY ClientAssumption
     DEF ClientInv, ClientTypeOK, TreesOK, ChainOK, ProcessOK, OnTheWay, UpToDate, StateKnown,
         Prepares, Preparing, checkSubmission, GoTo, inTime, submissionPossible, withinTarget,
         windowClosed
<1>7. OutOfDate'
  BY ClientAssumption
     DEF ClientInv, ClientTypeOK, ChainOK, ProcessOK, TreesOK, TypeOK, Prepares, OutOfDate,
         UpToDate, Preparing, Places, checkSubmission, GoTo, inTime, submissionPossible,
         withinTarget, windowClosed
<1>8. Kept'
  BY ClientAssumption
     DEF ClientInv, ClientTypeOK, TreesOK, Kept, checkSubmission, GoTo, inTime,
         submissionPossible, withinTarget, windowClosed
<1>9. OnlyRightSubmitted'
  BY ClientAssumption
     DEF ClientInv, OnlyRightSubmitted, ClientTypeOK, ChainOK, ProcessOK, UpToDate, OutOfDate,
         checkSubmission, GoTo, inTime, submissionPossible, withinTarget, windowClosed
<1> QED BY <1>1, <1>2, <1>3, <1>4, <1>5, <1>6, <1>7, <1>8, <1>9, <1>10 DEF ClientInv, ClientTypeOK

LEMMA submitEntryInv ==
  ASSUME ClientInv, submitEntry, Mishaps = {}
  PROVE  ClientInv'
<1>1. TreesOK'
  BY ClientAssumption
     DEF ClientInv, ClientTypeOK, ChainOK, ProcessOK, TreesOK, TypeOK, Trees, Places, submitEntry,
         endDoBlockChecks, caught, GoTo, submitRootHash, accepted, submissionPossible,
         withinTarget, windowClosed
<1>2. ChainOK'
  <2>1. submissionIndex \in 1 .. Entries
    BY ClientAssumption DEF submitEntry, ClientInv, ClientTypeOK, ProcessOK
  <2>2. mine' = mine \/ mine' = mine \cup {submissionIndex}
    BY DEF submitEntry, submitRootHash
  <2>3. UNCHANGED <<cycle, age>>
    BY DEF submitEntry, submitRootHash
  <2> QED BY <2>1, <2>2, <2>3 DEF ClientInv, ClientTypeOK, ChainOK
<1>3. ProcessOK'
  BY ClientAssumption
     DEF ClientInv, ClientTypeOK, ChainOK, ProcessOK, TreesOK, TypeOK, Places, submitEntry,
         endDoBlockChecks, caught, GoTo, submitRootHash, accepted, submissionPossible,
         withinTarget, windowClosed
<1>10. FlagsOK'
  BY ClientAssumption
     DEF ClientInv, ClientTypeOK, FlagsOK, submitEntry, endDoBlockChecks, caught, GoTo,
         submitRootHash, accepted, submissionPossible, withinTarget, windowClosed
<1>4. StateKnown' /\ Prepares'
  BY ClientAssumption
     DEF ClientInv, ClientTypeOK, TreesOK, ChainOK, ProcessOK, StateKnown, Prepares, OutOfDate,
         UpToDate, Preparing, submitEntry, endDoBlockChecks, caught, GoTo, submitRootHash,
         accepted, submissionPossible, withinTarget, windowClosed
<1>5. OnTheWay'
  BY ClientAssumption
     DEF ClientInv, ClientTypeOK, ChainOK, ProcessOK, TreesOK, TypeOK, OnTheWay, UpToDate, Trees,
         Prepares, Preparing, StateKnown, submitEntry, endDoBlockChecks, caught, GoTo,
         submitRootHash, accepted, submissionPossible, withinTarget, windowClosed
<1>6. UpToDate'
  BY ClientAssumption
     DEF ClientInv, ClientTypeOK, TreesOK, ChainOK, ProcessOK, OnTheWay, UpToDate, StateKnown,
         Prepares, Preparing, submitEntry, endDoBlockChecks, caught, GoTo, submitRootHash,
         accepted, submissionPossible, withinTarget, windowClosed
<1>7. OutOfDate'
  BY ClientAssumption
     DEF ClientInv, ClientTypeOK, ChainOK, ProcessOK, TreesOK, TypeOK, Prepares, OutOfDate,
         UpToDate, Preparing, Places, submitEntry, endDoBlockChecks, caught, GoTo, submitRootHash,
         accepted, submissionPossible, withinTarget, windowClosed
<1>8. Kept'
  BY ClientAssumption
     DEF ClientInv, ClientTypeOK, TreesOK, Kept, submitEntry, endDoBlockChecks, caught, GoTo,
         submitRootHash, accepted, submissionPossible, withinTarget, windowClosed
<1>9. OnlyRightSubmitted'
  BY ClientAssumption
     DEF ClientInv, OnlyRightSubmitted, ClientTypeOK, ChainOK, ProcessOK, UpToDate, OutOfDate,
         submitEntry, endDoBlockChecks, caught, GoTo, submitRootHash, accepted,
         submissionPossible, withinTarget, windowClosed
<1> QED BY <1>1, <1>2, <1>3, <1>4, <1>5, <1>6, <1>7, <1>8, <1>9, <1>10 DEF ClientInv, ClientTypeOK

LEMMA settleInv ==
  ASSUME ClientInv, settle, Mishaps = {}
  PROVE  ClientInv'
<1>1. TreesOK'
  BY ClientAssumption
     DEF ClientInv, ClientTypeOK, ChainOK, ProcessOK, TreesOK, TypeOK, Trees, Places, settle,
         GoTo, caught, endDoBlockChecks
<1>2. ChainOK'
  BY ClientAssumption
     DEF ClientInv, ClientTypeOK, ChainOK, ProcessOK, settle, GoTo, caught, endDoBlockChecks
<1>3. ProcessOK'
  BY ClientAssumption
     DEF ClientInv, ClientTypeOK, ChainOK, ProcessOK, TreesOK, TypeOK, Places, settle, GoTo,
         caught, endDoBlockChecks
<1>10. FlagsOK'
  BY ClientAssumption DEF ClientInv, ClientTypeOK, FlagsOK, settle, GoTo, caught, endDoBlockChecks
<1>4. StateKnown' /\ Prepares'
  BY ClientAssumption
     DEF ClientInv, ClientTypeOK, TreesOK, ChainOK, ProcessOK, StateKnown, Prepares, OutOfDate,
         UpToDate, Preparing, settle, GoTo, caught, endDoBlockChecks
<1>5. OnTheWay'
  BY ClientAssumption
     DEF ClientInv, ClientTypeOK, ChainOK, ProcessOK, TreesOK, TypeOK, OnTheWay, UpToDate, Trees,
         Prepares, Preparing, StateKnown, settle, GoTo, caught, endDoBlockChecks
<1>6. UpToDate'
  BY ClientAssumption
     DEF ClientInv, ClientTypeOK, TreesOK, ChainOK, ProcessOK, OnTheWay, UpToDate, StateKnown,
         Prepares, Preparing, settle, GoTo, caught, endDoBlockChecks
<1>7. OutOfDate'
  BY ClientAssumption
     DEF ClientInv, ClientTypeOK, ChainOK, ProcessOK, TreesOK, TypeOK, Prepares, OutOfDate,
         UpToDate, Preparing, Places, settle, GoTo, caught, endDoBlockChecks
<1>8. Kept'
  BY ClientAssumption
     DEF ClientInv, ClientTypeOK, TreesOK, Kept, settle, GoTo, caught, endDoBlockChecks
<1>9. OnlyRightSubmitted'
  BY ClientAssumption
     DEF ClientInv, OnlyRightSubmitted, ClientTypeOK, ChainOK, ProcessOK, UpToDate, OutOfDate,
         settle, GoTo, caught, endDoBlockChecks
<1> QED BY <1>1, <1>2, <1>3, <1>4, <1>5, <1>6, <1>7, <1>8, <1>9, <1>10 DEF ClientInv, ClientTypeOK

LEMMA answerInv ==
  ASSUME ClientInv, answer, Mishaps = {}
  PROVE  ClientInv'
<1>1. TreesOK'
  BY ClientAssumption
     DEF ClientInv, ClientTypeOK, ChainOK, ProcessOK, TreesOK, TypeOK, Trees, Places, answer,
         GoTo, caught, endDoBlockChecks
<1>2. ChainOK'
  BY ClientAssumption
     DEF ClientInv, ClientTypeOK, ChainOK, ProcessOK, answer, GoTo, caught, endDoBlockChecks
<1>3. ProcessOK'
  BY ClientAssumption
     DEF ClientInv, ClientTypeOK, ChainOK, ProcessOK, TreesOK, TypeOK, Places, answer, GoTo,
         caught, endDoBlockChecks
<1>10. FlagsOK'
  BY ClientAssumption DEF ClientInv, ClientTypeOK, FlagsOK, answer, GoTo, caught, endDoBlockChecks
<1>4. StateKnown' /\ Prepares'
  BY ClientAssumption
     DEF ClientInv, ClientTypeOK, TreesOK, ChainOK, ProcessOK, StateKnown, Prepares, OutOfDate,
         UpToDate, Preparing, answer, GoTo, caught, endDoBlockChecks
<1>5. OnTheWay'
  BY ClientAssumption
     DEF ClientInv, ClientTypeOK, ChainOK, ProcessOK, TreesOK, TypeOK, OnTheWay, UpToDate, Trees,
         Prepares, Preparing, StateKnown, answer, GoTo, caught, endDoBlockChecks
<1>6. UpToDate'
  BY ClientAssumption
     DEF ClientInv, ClientTypeOK, TreesOK, ChainOK, ProcessOK, OnTheWay, UpToDate, StateKnown,
         Prepares, Preparing, answer, GoTo, caught, endDoBlockChecks
<1>7. OutOfDate'
  BY ClientAssumption
     DEF ClientInv, ClientTypeOK, ChainOK, ProcessOK, TreesOK, TypeOK, Prepares, OutOfDate,
         UpToDate, Preparing, Places, answer, GoTo, caught, endDoBlockChecks
<1>8. Kept'
  BY ClientAssumption
     DEF ClientInv, ClientTypeOK, TreesOK, Kept, answer, GoTo, caught, endDoBlockChecks
<1>9. OnlyRightSubmitted'
  BY ClientAssumption
     DEF ClientInv, OnlyRightSubmitted, ClientTypeOK, ChainOK, ProcessOK, UpToDate, OutOfDate,
         answer, GoTo, caught, endDoBlockChecks
<1> QED BY <1>1, <1>2, <1>3, <1>4, <1>5, <1>6, <1>7, <1>8, <1>9, <1>10 DEF ClientInv, ClientTypeOK

LEMMA confirmEntryInv ==
  ASSUME ClientInv, confirmEntry, Mishaps = {}
  PROVE  ClientInv'
<1>1. TreesOK'
  BY ClientAssumption
     DEF ClientInv, ClientTypeOK, ChainOK, ProcessOK, TreesOK, TypeOK, Trees, Places,
         confirmEntry, GoTo, caught, endDoBlockChecks, NextCycle, canConfirm
<1>2. ChainOK'
  <2>1. CASE UNCHANGED chain
    BY <2>1 DEF ClientInv, ClientTypeOK, ChainOK
  <2>2. CASE cycle < MaxCycle /\ NextCycle
    BY <2>2, ClientAssumption DEF ClientInv, ClientTypeOK, ChainOK, NextCycle
  <2> QED BY <2>1, <2>2 DEF confirmEntry, canConfirm
<1>3. ProcessOK'
  BY ClientAssumption
     DEF ClientInv, ClientTypeOK, ChainOK, ProcessOK, TreesOK, TypeOK, Places, confirmEntry, GoTo,
         caught, endDoBlockChecks, NextCycle, canConfirm
<1>10. FlagsOK'
  BY ClientAssumption
     DEF ClientInv, ClientTypeOK, FlagsOK, confirmEntry, GoTo, caught, endDoBlockChecks,
         NextCycle, canConfirm
<1>4. StateKnown' /\ Prepares'
  BY ClientAssumption
     DEF ClientInv, ClientTypeOK, TreesOK, ChainOK, ProcessOK, StateKnown, Prepares, OutOfDate,
         UpToDate, Preparing, confirmEntry, GoTo, caught, endDoBlockChecks, NextCycle, canConfirm
<1>5. OnTheWay'
  BY ClientAssumption
     DEF ClientInv, ClientTypeOK, ChainOK, ProcessOK, TreesOK, TypeOK, OnTheWay, UpToDate, Trees,
         Prepares, Preparing, StateKnown, confirmEntry, GoTo, caught, endDoBlockChecks, NextCycle,
         canConfirm
<1>6. UpToDate'
  BY ClientAssumption
     DEF ClientInv, ClientTypeOK, TreesOK, ChainOK, ProcessOK, OnTheWay, UpToDate, StateKnown,
         Prepares, Preparing, confirmEntry, GoTo, caught, endDoBlockChecks, NextCycle, canConfirm
<1>7. OutOfDate'
  BY ClientAssumption
     DEF ClientInv, ClientTypeOK, ChainOK, ProcessOK, TreesOK, TypeOK, Prepares, OutOfDate,
         UpToDate, Preparing, Places, confirmEntry, GoTo, caught, endDoBlockChecks, NextCycle,
         canConfirm
<1>8. Kept'
  BY ClientAssumption
     DEF ClientInv, ClientTypeOK, TreesOK, Kept, confirmEntry, GoTo, caught, endDoBlockChecks,
         NextCycle, canConfirm
<1>9. OnlyRightSubmitted'
  BY ClientAssumption
     DEF ClientInv, OnlyRightSubmitted, ClientTypeOK, ChainOK, ProcessOK, UpToDate, OutOfDate,
         confirmEntry, GoTo, caught, endDoBlockChecks, NextCycle, canConfirm
<1> QED BY <1>1, <1>2, <1>3, <1>4, <1>5, <1>6, <1>7, <1>8, <1>9, <1>10 DEF ClientInv, ClientTypeOK

LEMMA closeInv ==
  ASSUME ClientInv, close, Mishaps = {}
  PROVE  ClientInv'
<1>1. TreesOK'
  BY ClientAssumption, SMTT(30)
     DEF ClientInv, ClientTypeOK, ChainOK, ProcessOK, TreesOK, TypeOK, Trees, Places, close, Down
<1>2. ChainOK'
  BY ClientAssumption DEF ClientInv, ClientTypeOK, ChainOK, ProcessOK, close, Down
<1>3. ProcessOK'
  BY ClientAssumption, SMTT(30)
     DEF ClientInv, ClientTypeOK, ChainOK, ProcessOK, TreesOK, TypeOK, Places, close, Down
<1>10. FlagsOK'
  BY ClientAssumption DEF ClientInv, ClientTypeOK, FlagsOK, close, Down
<1>4. StateKnown' /\ Prepares'
  BY ClientAssumption
     DEF ClientInv, ClientTypeOK, TreesOK, ChainOK, ProcessOK, StateKnown, Prepares, OutOfDate,
         UpToDate, Preparing, close, Down
<1>5. OnTheWay'
  BY ClientAssumption, SMTT(30)
     DEF ClientInv, ClientTypeOK, ChainOK, ProcessOK, TreesOK, TypeOK, OnTheWay, UpToDate, Trees,
         Prepares, Preparing, StateKnown, close, Down
<1>6. UpToDate'
  BY ClientAssumption
     DEF ClientInv, ClientTypeOK, TreesOK, ChainOK, ProcessOK, OnTheWay, UpToDate, StateKnown,
         Prepares, Preparing, close, Down
<1>7. OutOfDate'
  BY ClientAssumption
     DEF ClientInv, ClientTypeOK, ChainOK, ProcessOK, TreesOK, TypeOK, Prepares, OutOfDate,
         UpToDate, Preparing, Places, close, Down
<1>8. Kept'
  BY ClientAssumption DEF ClientInv, ClientTypeOK, TreesOK, Kept, close, Down
<1>9. OnlyRightSubmitted'
  BY ClientAssumption
     DEF ClientInv, OnlyRightSubmitted, ClientTypeOK, ChainOK, ProcessOK, UpToDate, OutOfDate,
         close, Down
<1> QED BY <1>1, <1>2, <1>3, <1>4, <1>5, <1>6, <1>7, <1>8, <1>9, <1>10 DEF ClientInv, ClientTypeOK

LEMMA getBestSubmissionsInv ==
  ASSUME ClientInv, getBestSubmissions, Mishaps = {}
  PROVE  ClientInv'
<1>1. TreesOK'
  BY ClientAssumption
     DEF ClientInv, ClientTypeOK, ChainOK, ProcessOK, TreesOK, TypeOK, Trees, Places,
         getBestSubmissions, GoTo
<1>2. ChainOK'
  BY ClientAssumption DEF ClientInv, ClientTypeOK, ChainOK, ProcessOK, getBestSubmissions, GoTo
<1>3. ProcessOK'
  <2> DEFINE free == {i \in 1 .. Entries + 1 : i \notin mine}
  <2>1. Entries + 1 \in free
    BY ClientAssumption DEF ClientInv, ClientTypeOK, ChainOK
  <2>2. Min(free) \in free
    <3>1. free \subseteq Nat BY ClientAssumption
    <3> HIDE DEF free
    <3> QED BY <2>1, <3>1, MinNatural
  <2>3. submissionIndex' \in Nat \ {0}
    BY <2>2, ClientAssumption DEF getBestSubmissions
  <2>4. pc' # "submit" BY DEF getBestSubmissions, GoTo
  <2>5. UNCHANGED <<blockAge, blockCycle, cycle, addr, logRead>> BY DEF getBestSubmissions, GoTo
  <2>6. miningCycleAddress' = addr /\ bestOf' = cycle BY DEF getBestSubmissions
  <2> QED BY <2>3, <2>4, <2>5, <2>6 DEF ClientInv, ClientTypeOK, ProcessOK, ChainOK
<1>10. FlagsOK'
  BY ClientAssumption DEF ClientInv, ClientTypeOK, FlagsOK, getBestSubmissions, GoTo
<1>4. StateKnown' /\ Prepares'
  BY ClientAssumption
     DEF ClientInv, ClientTypeOK, TreesOK, ChainOK, ProcessOK, StateKnown, Prepares, OutOfDate,
         UpToDate, Preparing, getBestSubmissions, GoTo
<1>5. OnTheWay'
  BY ClientAssumption
     DEF ClientInv, ClientTypeOK, ChainOK, ProcessOK, TreesOK, TypeOK, OnTheWay, UpToDate, Trees,
         Prepares, Preparing, StateKnown, getBestSubmissions, GoTo
<1>6. UpToDate'
  BY ClientAssumption
     DEF ClientInv, ClientTypeOK, TreesOK, ChainOK, ProcessOK, OnTheWay, UpToDate, StateKnown,
         Prepares, Preparing, getBestSubmissions, GoTo
<1>7. OutOfDate'
  BY ClientAssumption
     DEF ClientInv, ClientTypeOK, ChainOK, ProcessOK, TreesOK, TypeOK, Prepares, OutOfDate,
         UpToDate, Preparing, Places, getBestSubmissions, GoTo
<1>8. Kept'
  BY ClientAssumption DEF ClientInv, ClientTypeOK, TreesOK, Kept, getBestSubmissions, GoTo
<1>9. OnlyRightSubmitted'
  BY ClientAssumption
     DEF ClientInv, OnlyRightSubmitted, ClientTypeOK, ChainOK, ProcessOK, UpToDate, OutOfDate,
         getBestSubmissions, GoTo
<1> QED BY <1>1, <1>2, <1>3, <1>4, <1>5, <1>6, <1>7, <1>8, <1>9, <1>10 DEF ClientInv, ClientTypeOK

LEMMA KillInv ==
  ASSUME ClientInv, Kill, Mishaps = {}
  PROVE  ClientInv'
<1>1. TreesOK'
  <2>1. UNCHANGED <<saved, begun>> BY DEF Kill
  <2>2. cache' \in Trees BY DEF Kill, ClientInv, ClientTypeOK, TreesOK, Trees
  <2> QED
    BY <2>1, <2>2, ClientAssumption
       DEF Kill, Down, ClientInv, ClientTypeOK, TreesOK, TypeOK, Trees, Places
<1>2. ChainOK'
  BY ClientAssumption DEF ClientInv, ClientTypeOK, ChainOK, ProcessOK, Kill, Down
<1>3. ProcessOK'
  BY ClientAssumption
     DEF ClientInv, ClientTypeOK, ChainOK, ProcessOK, TreesOK, TypeOK, Places, Kill, Down
<1>10. FlagsOK'
  BY ClientAssumption DEF ClientInv, ClientTypeOK, FlagsOK, Kill, Down
<1>4. StateKnown' /\ Prepares'
  BY ClientAssumption
     DEF ClientInv, ClientTypeOK, TreesOK, ChainOK, ProcessOK, StateKnown, Prepares, OutOfDate,
         UpToDate, Preparing, Kill, Down
<1>5. OnTheWay'
  BY ClientAssumption
     DEF ClientInv, ClientTypeOK, ChainOK, ProcessOK, TreesOK, TypeOK, OnTheWay, UpToDate, Trees,
         Prepares, Preparing, StateKnown, Kill, Down
<1>6. UpToDate'
  BY ClientAssumption
     DEF ClientInv, ClientTypeOK, TreesOK, ChainOK, ProcessOK, OnTheWay, UpToDate, StateKnown,
         Prepares, Preparing, Kill, Down
<1>7. OutOfDate'
  BY ClientAssumption
     DEF ClientInv, ClientTypeOK, ChainOK, ProcessOK, TreesOK, TypeOK, Prepares, OutOfDate,
         UpToDate, Preparing, Places, Kill, Down
<1>8. Kept'
  BY ClientAssumption DEF ClientInv, ClientTypeOK, TreesOK, Kept, Kill, Down
<1>9. OnlyRightSubmitted'
  BY ClientAssumption
     DEF ClientInv, OnlyRightSubmitted, ClientTypeOK, ChainOK, ProcessOK, UpToDate, OutOfDate,
         Kill, Down
<1> QED BY <1>1, <1>2, <1>3, <1>4, <1>5, <1>6, <1>7, <1>8, <1>9, <1>10 DEF ClientInv, ClientTypeOK

LEMMA initialiseInv ==
  ASSUME ClientInv, initialise, Mishaps = {}
  PROVE  ClientInv'
<1> USE Restore
<1>1. TreesOK'
  BY ClientAssumption
     DEF ClientInv, ClientTypeOK, ChainOK, ProcessOK, TreesOK, TypeOK, Trees, Places, initialise,
         loadState, loadStateToPrevious, loadJustificationTree, canResume
<1>2. ChainOK'
  BY ClientAssumption
     DEF ClientInv, ClientTypeOK, ChainOK, ProcessOK, initialise, loadState, loadStateToPrevious,
         loadJustificationTree, canResume
<1>3. ProcessOK'
  BY ClientAssumption
     DEF ClientInv, ClientTypeOK, ChainOK, ProcessOK, TreesOK, TypeOK, Places, initialise,
         loadState, loadStateToPrevious, loadJustificationTree, canResume
<1>10. FlagsOK'
  BY ClientAssumption
     DEF ClientInv, ClientTypeOK, FlagsOK, initialise, loadState, loadStateToPrevious,
         loadJustificationTree, canResume
<1>4. StateKnown' /\ Prepares'
  BY ClientAssumption
     DEF ClientInv, ClientTypeOK, TreesOK, ChainOK, ProcessOK, StateKnown, Prepares, OutOfDate,
         UpToDate, Preparing, initialise, loadState, loadStateToPrevious, loadJustificationTree,
         canResume
<1>5. OnTheWay'
  BY ClientAssumption
     DEF ClientInv, ClientTypeOK, ChainOK, ProcessOK, TreesOK, TypeOK, OnTheWay, UpToDate, Trees,
         Prepares, Preparing, StateKnown, initialise, loadState, loadStateToPrevious,
         loadJustificationTree, canResume
<1>6. UpToDate'
  BY ClientAssumption
     DEF ClientInv, ClientTypeOK, TreesOK, ChainOK, ProcessOK, OnTheWay, UpToDate, StateKnown,
         Prepares, Preparing, initialise, loadState, loadStateToPrevious, loadJustificationTree,
         canResume
<1>7. OutOfDate'
  BY ClientAssumption
     DEF ClientInv, ClientTypeOK, ChainOK, ProcessOK, TreesOK, TypeOK, Prepares, OutOfDate,
         UpToDate, Preparing, Places, initialise, loadState, loadStateToPrevious,
         loadJustificationTree, canResume
<1>8. Kept'
  BY ClientAssumption
     DEF ClientInv, ClientTypeOK, TreesOK, Kept, initialise, loadState, loadStateToPrevious,
         loadJustificationTree, canResume
<1>9. OnlyRightSubmitted'
  BY ClientAssumption
     DEF ClientInv, OnlyRightSubmitted, ClientTypeOK, ChainOK, ProcessOK, UpToDate, OutOfDate,
         initialise, loadState, loadStateToPrevious, loadJustificationTree, canResume
<1> QED BY <1>1, <1>2, <1>3, <1>4, <1>5, <1>6, <1>7, <1>8, <1>9, <1>10 DEF ClientInv, ClientTypeOK

LEMMA syncLogsInv ==
  ASSUME ClientInv, syncLogs, Mishaps = {}
  PROVE  ClientInv'
<1> USE SyncFromState
<1>1. TreesOK'
  <2> DEFINE start == syncStart(1 .. logRead)
  <2>1. cache' \in Trees /\ justified' \in Trees /\ pc' \in Places
    BY DEF syncLogs, GoTo, ClientInv, ClientTypeOK, TreesOK, Places
  <2>2. CASE start \in 0 .. logRead - 1
    <3>1. Replay(start, start, logRead) BY <2>2, SyncFromState DEF syncLogs, ClientInv
    <3>2. /\ start + 1 .. logRead \subseteq Wrong .. MaxCycle + 1
          /\ logRead \in Nat /\ logRead <= MaxCycle
      BY <2>2, ClientAssumption DEF ClientInv, ClientTypeOK, ChainOK, ProcessOK
    <3>3. saved' = saved \cup (start + 1 .. logRead) /\ begun' = saved'
      BY <3>1 DEF Replay, ClientInv, ClientTypeOK, TreesOK
    <3>4. begun' \subseteq Wrong .. MaxCycle + 1
      BY <3>2, <3>3 DEF ClientInv, ClientTypeOK, TreesOK, TypeOK
    <3>5. local' \in Wrong .. MaxCycle + 1 /\ previous' \in Wrong .. MaxCycle + 1
      BY <3>1, <3>2, ClientAssumption DEF Replay
    <3> QED BY <3>3, <3>4, <3>5, <2>1 DEF TreesOK, TypeOK
  <2>3. CASE start \notin 0 .. logRead - 1
    <3>1. local' = start /\ UNCHANGED <<previous, saved, begun>>
      BY <2>3, SyncFromState DEF syncLogs, ClientInv
    <3>2. start \in Wrong .. MaxCycle + 1
      BY SyncFromState, ClientAssumption
         DEF ClientInv, ClientTypeOK, TreesOK, TypeOK, ChainOK, ProcessOK
    <3> QED BY <3>1, <3>2, <2>1 DEF ClientInv, ClientTypeOK, TreesOK, TypeOK
  <2> QED BY <2>2, <2>3
<1>2. ChainOK'
  BY ClientAssumption DEF ClientInv, ClientTypeOK, ChainOK, ProcessOK, syncLogs, GoTo, Replay
<1>3. ProcessOK'
  BY ClientAssumption
     DEF ClientInv, ClientTypeOK, ChainOK, ProcessOK, TreesOK, TypeOK, Places, syncLogs, GoTo,
         Replay
<1>10. FlagsOK'
  BY ClientAssumption DEF ClientInv, ClientTypeOK, FlagsOK, syncLogs, GoTo, Replay
<1>4. StateKnown' /\ Prepares'
  BY ClientAssumption
     DEF ClientInv, ClientTypeOK, TreesOK, ChainOK, ProcessOK, StateKnown, Prepares, OutOfDate,
         UpToDate, Preparing, syncLogs, GoTo, Replay
<1>5. OnTheWay'
  BY ClientAssumption
     DEF ClientInv, ClientTypeOK, ChainOK, ProcessOK, TreesOK, TypeOK, OnTheWay, UpToDate, Trees,
         Prepares, Preparing, StateKnown, syncLogs, GoTo, Replay
<1>6. UpToDate'
  BY ClientAssumption
     DEF ClientInv, ClientTypeOK, TreesOK, ChainOK, ProcessOK, OnTheWay, UpToDate, StateKnown,
         Prepares, Preparing, syncLogs, GoTo, Replay
<1>7. OutOfDate'
  BY ClientAssumption
     DEF ClientInv, ClientTypeOK, ChainOK, ProcessOK, TreesOK, TypeOK, Prepares, OutOfDate,
         UpToDate, Preparing, Places, syncLogs, GoTo, Replay
<1>8. Kept'
  <2> DEFINE start == syncStart(1 .. logRead)
  <2>1. start \in saved \cup {Empty, Wrong}
    BY SyncFromState DEF ClientInv, Kept, syncLogs
  <2>2. CASE start \in 0 .. logRead - 1
    <3>1. Replay(start, start, logRead) BY <2>2, SyncFromState DEF syncLogs, ClientInv
    <3>2. logRead \in start + 1 .. logRead
      BY <2>2 DEF ClientInv, ClientTypeOK, ProcessOK, ChainOK
    <3>3. logRead - 1 = start \/ logRead - 1 \in start + 1 .. logRead
      BY <2>2 DEF ClientInv, ClientTypeOK, ProcessOK, ChainOK
    <3> QED BY <3>1, <3>2, <3>3, <2>1 DEF Replay, Kept
  <2>3. CASE start \notin 0 .. logRead - 1
    <3>1. local' = start /\ UNCHANGED <<previous, saved, begun>>
      BY <2>3, SyncFromState DEF syncLogs, ClientInv
    <3> QED BY <3>1, <2>1 DEF ClientInv, Kept, syncLogs
  <2> QED BY <2>2, <2>3
<1>9. OnlyRightSubmitted'
  BY ClientAssumption
     DEF ClientInv, OnlyRightSubmitted, ClientTypeOK, ChainOK, ProcessOK, UpToDate, OutOfDate,
         syncLogs, GoTo, Replay
<1> QED BY <1>1, <1>2, <1>3, <1>4, <1>5, <1>6, <1>7, <1>8, <1>9, <1>10 DEF ClientInv, ClientTypeOK


\* What syncSince comes to.
LEMMA SinceOutcome ==
  ASSUME ClientInv, syncSince
  PROVE  \/ UNCHANGED <<local, previous, saved, begun>>
         \/ /\ logRead # cycle
            /\ \/ \E start \in saved : start \in 1 .. cycle - 1 /\ Replay(start, start, cycle)
               \/ local' = cycle /\ cycle \in saved /\ UNCHANGED <<previous, saved, begun>>
<1>1. PICK head \in {0, 1} :
        LET since == newestKnown(sinceEvents(head))
        IN  \/ since = {} /\ UNCHANGED <<local, previous, saved, begun>>
            \/ /\ since # {}
               /\ \E base \in getAllReputationsInHash(Max(since)) :
                    IF Max(since) < cycle THEN Replay(base, Max(since), cycle)
                    ELSE local' = base /\ UNCHANGED <<previous, saved, begun>>
  BY DEF syncSince
<1> DEFINE since == newestKnown(sinceEvents(head))
<1>2. CASE since = {} BY <1>1, <1>2
<1>3. CASE since # {}
  <2>1. /\ Max(since) \in saved /\ Max(since) \in 1 .. cycle
        /\ getAllReputationsInHash(Max(since)) = {Max(since)}
        /\ logRead # cycle
    BY <1>3, SinceFromState DEF syncSince
  <2>2. IF Max(since) < cycle THEN Replay(Max(since), Max(since), cycle)
        ELSE local' = Max(since) /\ UNCHANGED <<previous, saved, begun>>
    BY <1>1, <1>3, <2>1
  <2>3. cycle \in Nat BY DEF ClientInv, ClientTypeOK, ChainOK
  <2>4. CASE Max(since) < cycle
    <3>1. Max(since) \in 1 .. cycle - 1 BY <2>1, <2>3, <2>4
    <3>2. Replay(Max(since), Max(since), cycle) BY <2>2, <2>4
    <3> QED BY <2>1, <3>1, <3>2
  <2>5. CASE ~(Max(since) < cycle)
    <3>1. Max(since) = cycle BY <2>1, <2>3, <2>5
    <3> QED BY <2>1, <2>2, <2>5, <3>1
  <2> QED BY <2>4, <2>5
<1> QED BY <1>2, <1>3

LEMMA SyncSinceInv ==
  ASSUME ClientInv, syncSince
  PROVE  ClientInv'
<1>1. /\ saved' = begun' /\ begun' \subseteq Wrong .. MaxCycle + 1
      /\ local' \in Wrong .. MaxCycle + 1 /\ previous' \in Wrong .. MaxCycle + 1
      /\ local' \in saved' \cup {Empty, Wrong} /\ previous' \in saved' \cup {Empty, Wrong}
      /\ local' = local \/ logRead # cycle
      /\ local' = local \/ local' = cycle
  <2>1. cycle \in Nat /\ cycle <= MaxCycle /\ MaxCycle \in Nat
    BY ClientAssumption DEF ClientInv, ClientTypeOK, ChainOK
  <2>2. CASE UNCHANGED <<local, previous, saved, begun>>
    BY <2>2 DEF syncSince, ClientInv, ClientTypeOK, TreesOK, TypeOK, Kept
  <2>3. CASE /\ logRead # cycle
             /\ \E start \in saved : start \in 1 .. cycle - 1 /\ Replay(start, start, cycle)
    <3>1. PICK start \in saved : start \in 1 .. cycle - 1 /\ Replay(start, start, cycle)
      BY <2>3
    <3>2. start \in 0 .. cycle - 1 BY <3>1, <2>1
    <3>3. local' = cycle BY <3>1 DEF Replay
    <3> QED BY <2>1, <2>3, <3>1, <3>2, <3>3, ReplayKept
  <2>4. CASE /\ logRead # cycle /\ local' = cycle /\ cycle \in saved
             /\ UNCHANGED <<previous, saved, begun>>
    BY <2>1, <2>4 DEF syncSince, ClientInv, ClientTypeOK, TreesOK, TypeOK, Kept
  <2> QED BY <2>2, <2>3, <2>4, SinceOutcome
<1>2. TreesOK'
  BY <1>1 DEF syncSince, GoTo, endDoBlockChecks, ClientInv, ClientTypeOK, TreesOK, TypeOK, Places
<1>3. ChainOK'
  BY <1>1 DEF ClientInv, ClientTypeOK, ChainOK, ProcessOK, syncSince, GoTo, endDoBlockChecks
<1>4. ProcessOK'
  BY <1>1
     DEF ClientInv, ClientTypeOK, ChainOK, ProcessOK, TreesOK, TypeOK, Places, syncSince, GoTo,
         endDoBlockChecks
<1>5. FlagsOK'
  BY <1>1 DEF ClientInv, ClientTypeOK, FlagsOK, syncSince, GoTo, endDoBlockChecks
<1>6. StateKnown' /\ Prepares'
  BY <1>1
     DEF ClientInv, ClientTypeOK, TreesOK, ChainOK, ProcessOK, StateKnown, Prepares, OutOfDate,
         UpToDate, Preparing, syncSince, GoTo, endDoBlockChecks
<1>7. OnTheWay'
  BY <1>1
     DEF ClientInv, ClientTypeOK, ChainOK, ProcessOK, TreesOK, TypeOK, OnTheWay, UpToDate, Trees,
         Prepares, Preparing, StateKnown, syncSince, GoTo, endDoBlockChecks
<1>8. UpToDate'
  BY <1>1
     DEF ClientInv, ClientTypeOK, TreesOK, ChainOK, ProcessOK, OnTheWay, UpToDate, StateKnown,
         Prepares, Preparing, syncSince, GoTo, endDoBlockChecks
<1>9. OutOfDate'
  BY <1>1
     DEF ClientInv, ClientTypeOK, ChainOK, ProcessOK, TreesOK, TypeOK, Prepares, OutOfDate,
         UpToDate, Preparing, Places, syncSince, GoTo, endDoBlockChecks
<1>10. Kept'
  BY <1>1 DEF ClientInv, ClientTypeOK, TreesOK, Kept, syncSince, GoTo, endDoBlockChecks
<1>11. OnlyRightSubmitted'
  BY <1>1
     DEF ClientInv, OnlyRightSubmitted, ClientTypeOK, ChainOK, ProcessOK, UpToDate, OutOfDate,
         syncSince, GoTo, endDoBlockChecks
<1> QED
  BY <1>2, <1>3, <1>4, <1>5, <1>6, <1>7, <1>8, <1>9, <1>10, <1>11
     DEF ClientInv, ClientTypeOK


\* A sync that ends half-way has worked on a state of the database or the empty one.
LEMMA HalfSyncedOutcome ==
  ASSUME ClientInv, HalfSynced
  PROVE  /\ pc \in {"syncing", "since"}
         /\ \E start \in saved \cup {Empty}, upTo \in Nat :
              start \in 0 .. upTo - 1 /\ upTo <= cycle /\ HalfReplayed(start, start, upTo)
<1>1. cycle \in Nat /\ logRead \in 0 .. cycle BY DEF ClientInv, ClientTypeOK, ChainOK, ProcessOK
<1>2. CASE pc = "syncing" /\ syncStart(1 .. logRead) \in 0 .. logRead - 1
           /\ \E base \in syncBase(1 .. logRead) :
                HalfReplayed(base, syncStart(1 .. logRead), logRead)
  <2> DEFINE start == syncStart(1 .. logRead)
  <2>1. HalfReplayed(start, start, logRead) BY <1>2, SyncFromState DEF ClientInv
  <2>2. start \in saved \cup {Empty, Wrong} BY <1>2, SyncFromState DEF ClientInv, Kept
  <2>3. start \in saved \cup {Empty} BY <1>1, <1>2, <2>2
  <2> QED BY <1>1, <1>2, <2>1, <2>3
<1>3. CASE pc = "since"
           /\ \E head \in {0, 1} :
                LET since == newestKnown(sinceEvents(head))
                IN  /\ since # {} /\ Max(since) < cycle
                    /\ \E base \in getAllReputationsInHash(Max(since)) :
                         HalfReplayed(base, Max(since), cycle)
  <2>1. PICK head \in {0, 1} :
          /\ newestKnown(sinceEvents(head)) # {} /\ Max(newestKnown(sinceEvents(head))) < cycle
          /\ \E base \in getAllReputationsInHash(Max(newestKnown(sinceEvents(head)))) :
               HalfReplayed(base, Max(newestKnown(sinceEvents(head))), cycle)
    BY <1>3
  <2> DEFINE start == Max(newestKnown(sinceEvents(head)))
  <2>2. start \in saved /\ start \in 1 .. cycle /\ getAllReputationsInHash(start) = {start}
    BY <1>3, <2>1, SinceFromState
  <2>3. HalfReplayed(start, start, cycle) BY <2>1, <2>2
  <2>4. start \in 0 .. cycle - 1 BY <1>1, <2>1, <2>2
  <2> QED BY <1>1, <1>3, <2>2, <2>3, <2>4
<1> QED BY <1>2, <1>3 DEF HalfSynced

LEMMA ConnectionResetInv ==
  ASSUME ClientInv, ConnectionReset, Mishaps = {}
  PROVE  ClientInv'
<1>1. /\ saved' = begun' /\ begun' \subseteq Wrong .. MaxCycle + 1
      /\ local' \in Wrong .. MaxCycle + 1 /\ previous' \in Wrong .. MaxCycle + 1
      /\ local' \in saved' \cup {Empty, Wrong} /\ previous' \in saved' \cup {Empty, Wrong}
      /\ local' = local \/ pc \in {"syncing", "since"}
  <2>1. pc # "save" BY DEF ConnectionReset
  <2>2. CASE UNCHANGED <<local, previous, saved, begun>>
    BY <2>1, <2>2 DEF ClientInv, ClientTypeOK, TreesOK, TypeOK, Kept
  <2>3. CASE HalfSynced
    <3>1. PICK start \in saved \cup {Empty}, upTo \in Nat :
            start \in 0 .. upTo - 1 /\ upTo <= cycle /\ HalfReplayed(start, start, upTo)
      BY <2>3, HalfSyncedOutcome
    <3>2. pc \in {"syncing", "since"} BY <2>3, HalfSyncedOutcome
    <3> QED BY <2>1, <3>1, <3>2, HalfReplayedKept
  <2> QED BY <2>2, <2>3 DEF ConnectionReset
<1>2. endDoBlockChecks /\ ~starting /\ UNCHANGED <<cache, justified, addr, logRead, book>>
  BY DEF ConnectionReset, caught
<1>3. TreesOK'
  BY <1>1, <1>2 DEF endDoBlockChecks, ClientInv, ClientTypeOK, TreesOK, TypeOK, Places
<1>4. /\ ChainOK'
      /\ cycle' >= cycle
      /\ cycle' # cycle => pc = "confirm"
      /\ OnlyRightSubmitted'
  <2>1. CASE UNCHANGED chain
    BY <2>1 DEF ClientInv, ClientTypeOK, ChainOK, OnlyRightSubmitted
  <2>2. CASE pc = "submit" /\ submitRootHash
    <3>1. submissionIndex \in 1 .. Entries
      BY <2>2, ClientAssumption DEF ClientInv, ClientTypeOK, ProcessOK
    <3>2. mine' = mine \cup {submissionIndex} /\ UNCHANGED <<cycle, age>>
      BY <2>2 DEF submitRootHash
    <3>3. ChainOK' BY <3>1, <3>2 DEF ClientInv, ClientTypeOK, ChainOK
    <3>4. local = cycle + 1
      BY <2>2, ClientAssumption
          DEF ClientInv, ClientTypeOK, ChainOK, ProcessOK, submitRootHash, accepted, submissionPossible,
                  withinTarget, windowClosed, UpToDate, OutOfDate
    <3>5. OnlyRightSubmitted' BY <2>2, <3>4 DEF submitRootHash, OnlyRightSubmitted, ClientInv
    <3> QED BY <3>2, <3>3, <3>5 DEF ChainOK, ClientInv, ClientTypeOK
  <2>3. CASE pc = "confirm" /\ canConfirm /\ NextCycle
    BY <2>3, ClientAssumption
       DEF ClientInv, ClientTypeOK, ChainOK, canConfirm, NextCycle, OnlyRightSubmitted
  <2> QED BY <2>1, <2>2, <2>3 DEF ConnectionReset
<1>5. ProcessOK'
  BY <1>1, <1>2, <1>4, ClientAssumption
     DEF ClientInv, ClientTypeOK, ChainOK, ProcessOK, TreesOK, TypeOK, Places, endDoBlockChecks
<1>6. FlagsOK'
  BY <1>1, <1>2, <1>4, ClientAssumption DEF ClientInv, ClientTypeOK, FlagsOK, endDoBlockChecks
<1>7. StateKnown' /\ Prepares'
  <2>1. Prepares' BY <1>2 DEF Prepares, Preparing, endDoBlockChecks
  <2>2. StateKnown'
    <3>1. CASE miningCycleAddress = cycle'
      <4>1. cycle' = cycle /\ miningCycleAddress = cycle
        BY <1>4, <3>1 DEF ClientInv, ClientTypeOK, ChainOK, ProcessOK
      <4>2. local' = local
        BY <1>1, <1>2, <4>1 DEF ClientInv, ClientTypeOK, ChainOK, Prepares, Preparing
      <4> QED BY <1>2, <4>1, <4>2 DEF ClientInv, StateKnown, endDoBlockChecks
    <3> QED BY <1>2, <3>1 DEF StateKnown
  <2> QED BY <2>1, <2>2
<1>8. OnTheWay'
  BY <1>1, <1>2, <1>4, ClientAssumption
     DEF ClientInv, ClientTypeOK, ChainOK, ProcessOK, TreesOK, TypeOK, OnTheWay, UpToDate, Trees,
         Prepares, Preparing, StateKnown, endDoBlockChecks
<1>9. UpToDate'
  BY <1>1, <1>2, <1>4, ClientAssumption
     DEF ClientInv, ClientTypeOK, TreesOK, ChainOK, ProcessOK, OnTheWay, UpToDate, StateKnown,
         Prepares, Preparing, endDoBlockChecks
<1>10. OutOfDate'
  BY <1>1, <1>2, <1>4, ClientAssumption
     DEF ClientInv, ClientTypeOK, ChainOK, ProcessOK, TreesOK, TypeOK, Prepares, OutOfDate,
         UpToDate, Preparing, Places, endDoBlockChecks
<1>11. Kept'
  BY <1>1, <1>2, <1>4, ClientAssumption
     DEF ClientInv, ClientTypeOK, TreesOK, Kept, endDoBlockChecks
<1> QED BY <1>3, <1>4, <1>5, <1>6, <1>7, <1>8, <1>9, <1>10, <1>11 DEF ClientInv, ClientTypeOK


-----------------------------------------------------------------------------
(* The theorems.                                                           *)

\* The client starts from nothing.
LEMMA InitInv == Init => ClientInv
<1> SUFFICES ASSUME Init PROVE ClientInv OBVIOUS
<1>1. TreesOK BY ClientAssumption DEF Init, TreesOK, TypeOK, Trees, Places
<1>2. ChainOK /\ ProcessOK BY ClientAssumption DEF Init, ChainOK, ProcessOK
<1>3. FlagsOK BY DEF Init, FlagsOK
<1>4. StateKnown /\ Prepares /\ OnTheWay /\ UpToDate /\ OutOfDate /\ Kept /\ OnlyRightSubmitted
  BY
     DEF Init, StateKnown, Prepares, Preparing, OnTheWay, UpToDate, OutOfDate, Kept,
         OnlyRightSubmitted
<1> QED BY <1>1, <1>2, <1>3, <1>4 DEF ClientInv, ClientTypeOK

LEMMA ClientStepInv ==
  ASSUME ClientInv, ClientStep, Mishaps = {}
  PROVE  ClientInv'
BY readCycleInv, ensureSyncedInv, readEventsInv, syncLogsInv, SyncSinceInv, readLogInv,
   addLogContentsToReputationTreeInv, saveInv, saveJustificationTreeInv, getBestSubmissionsInv,
   checkSubmissionInv, submitEntryInv, settleInv, answerInv, confirmEntryInv
   DEF ClientStep

LEMMA StutterInv ==
  ASSUME ClientInv, UNCHANGED vars
  PROVE  ClientInv'
<1>1. ClientTypeOK' BY DEF ClientInv, ClientTypeOK, TreesOK, TypeOK, ChainOK, ProcessOK, FlagsOK
<1>2. (StateKnown /\ Prepares /\ OnTheWay /\ UpToDate /\ OutOfDate /\ Kept /\ OnlyRightSubmitted)'
  BY DEF ClientInv, StateKnown, Prepares, OnTheWay, UpToDate, OutOfDate, Kept, OnlyRightSubmitted
<1> QED BY <1>1, <1>2 DEF ClientInv

\* Every step keeps the invariant.
LEMMA NextInv ==
  ASSUME ClientInv, [Next]_vars, Mishaps = {}
  PROVE  ClientInv'
BY ClientStepInv, NewBlockInv, ConnectionResetInv, OthersSubmitInv, OthersSettleInv,
   OthersConfirmInv,
   initialiseInv, closeInv, KillInv, StutterInv, Zenon
   DEF Next

(* The inductive invariant, whatever the other miners do and wherever the     *)
(* client is stopped.                                                         *)
THEOREM Invariance == Mishaps = {} => (Spec => []ClientInv)
<1> SUFFICES ASSUME Mishaps = {} PROVE Spec => []ClientInv OBVIOUS
<1>1. Init => ClientInv BY InitInv
<1>2. ClientInv /\ [Next]_vars => ClientInv' BY NextInv
<1> QED BY <1>1, <1>2, PTL DEF Spec

(* Whatever the client has seen and missed of the chain, and wherever it was  *)
(* stopped, it submits to a cycle only the state its log leads to             *)
(* (ReputationMinerClient.js, doBlockChecks and submitEntry).                 *)
THEOREM SubmitsOnlyRight == Mishaps = {} => (Spec => []OnlyRightSubmitted)
<1>1. ClientInv => OnlyRightSubmitted BY DEF ClientInv
<1> QED BY <1>1, Invariance, PTL

\* No step takes anything out of the database.
LEMMA SavedStays ==
  ASSUME ClientInv, [Next]_vars
  PROVE  saved \subseteq saved'
<1>1. CASE syncLogs BY <1>1 DEF syncLogs, Replay
<1>2. CASE syncSince BY <1>2 DEF syncSince, Replay
<1>3. CASE save BY <1>3 DEF save, saveCurrentState
<1>4. CASE ConnectionReset
  <2>1. CASE HalfSynced
    <3>1. \E base, start, upTo : HalfReplayed(base, start, upTo) BY <2>1 DEF HalfSynced
    <3> QED BY <3>1 DEF HalfReplayed
  <2> QED BY <1>4, <2>1 DEF ConnectionReset
<1>5. CASE readCycle \/ ensureSynced \/ readEvents \/ readLog \/ addLogContentsToReputationTree
           \/ saveJustificationTree \/ getBestSubmissions \/ checkSubmission
  BY <1>5 DEF readCycle, ensureSynced, readEvents, readLog, addLogContentsToReputationTree,
              saveJustificationTree, getBestSubmissions, checkSubmission
<1>6. CASE submitEntry \/ settle \/ answer \/ confirmEntry \/ NewBlock
  BY <1>6 DEF submitEntry, settle, answer, confirmEntry, NewBlock
<1>7. CASE OthersSubmit \/ OthersSettle \/ OthersConfirm
  BY <1>7 DEF OthersSubmit, OthersSettle, OthersConfirm, OthersOnly
<1>8. CASE initialise \/ close \/ Kill
  BY <1>8 DEF initialise, close, Kill
<1>9. CASE UNCHANGED vars BY <1>9
<1> QED BY <1>1, <1>2, <1>3, <1>4, <1>5, <1>6, <1>7, <1>8, <1>9 DEF Next, ClientStep

\* While the result of a log is about to be saved, nothing but the save or the
\* end of the process touches it.
LEMMA AboutToSave ==
  ASSUME ClientInv, [Next]_vars, pc = "save", oracleUp'
  PROVE  local' = local \/ local \in saved'
<1>1. CASE save BY <1>1 DEF save, saveCurrentState
<1>2. CASE close \/ Kill BY <1>2 DEF close, Kill, Down, oracleUp
<1>3. CASE NewBlock \/ OthersSubmit \/ OthersSettle \/ OthersConfirm
  BY <1>3 DEF NewBlock, OthersSubmit, OthersSettle, OthersConfirm, OthersOnly
<1>4. CASE UNCHANGED vars BY <1>4
<1>5. ~(ConnectionReset \/ initialise) BY DEF ConnectionReset, initialise
<1>6. ClientStep => save
  BY DEF ClientStep, readCycle, ensureSynced, readEvents, syncLogs, syncSince, readLog,
         addLogContentsToReputationTree, saveJustificationTree, getBestSubmissions,
         checkSubmission, submitEntry, settle, answer, confirmEntry
<1> QED BY <1>1, <1>2, <1>3, <1>4, <1>5, <1>6 DEF Next

\* A state is answered for if it is in a tree or in the database.
LEMMA Answers ==
  ASSUME saved = begun, NEW s \in 1 .. MaxCycle + 1
  PROVE  /\ oracleAnswers(s).list = {s} <=> s \in saved
         /\ oracleAnswers(s).proof = {s} <=> s \in saved \cup {local, previous}
         /\ oracleAnswers(s).value = {s} <=> s \in saved \cup {local, previous}
<1>1. s # Empty /\ s # None BY ClientAssumption
<1>2. oracleAnswers(s).list = {s} <=> s \in saved
  BY <1>1, Restore DEF oracleAnswers, getReputationsForAddress
<1>3. oracleAnswers(s).proof = {s} <=> s \in saved \cup {local, previous}
  BY <1>1 DEF oracleAnswers, getHistoricalProofAndValue, inTrees
<1>4. oracleAnswers(s).value = {s} <=> s \in saved \cup {local, previous}
  BY <1>1 DEF oracleAnswers, getHistoricalValue, inTrees
<1> QED BY <1>2, <1>3, <1>4

LEMMA AnswersStay ==
  ASSUME ClientInv, ClientInv', [Next]_vars, oracleUp', NEW s \in 1 .. MaxCycle + 1,
         NEW endpoint \in DOMAIN oracleAnswers(s), oracleAnswers(s)[endpoint] = {s}
  PROVE  oracleAnswers(s)[endpoint]' = {s}
<1>1. saved = begun /\ saved' = begun' BY DEF ClientInv, ClientTypeOK, TreesOK
<1>2. s # Empty /\ s # Wrong BY ClientAssumption
<1>3. saved \subseteq saved' BY SavedStays
<1>4. s \in saved \cup {local, previous} => s \in saved' \cup {local', previous'}
  <2>1. CASE pc # "save" BY <1>2, <1>3, <2>1 DEF ClientInv, Kept
  <2>2. CASE pc = "save" BY <1>2, <1>3, <2>2, AboutToSave DEF ClientInv, Kept
  <2> QED BY <2>1, <2>2
<1>5. endpoint \in {"proof", "value", "list"} BY DEF oracleAnswers
<1>6. /\ oracleAnswers(s)["list"] = {s} <=> s \in saved
      /\ oracleAnswers(s)["proof"] = {s} <=> s \in saved \cup {local, previous}
      /\ oracleAnswers(s)["value"] = {s} <=> s \in saved \cup {local, previous}
  BY <1>1, Answers
<1>7. /\ oracleAnswers(s)["list"]' = {s} <=> s \in saved'
      /\ oracleAnswers(s)["proof"]' = {s} <=> s \in saved' \cup {local', previous'}
      /\ oracleAnswers(s)["value"]' = {s} <=> s \in saved' \cup {local', previous'}
  <2>1. s # Empty /\ s # None BY ClientAssumption
  <2> QED BY <1>1, <2>1 DEF oracleAnswers, getReputationsForAddress, getHistoricalProofAndValue,
                            getHistoricalValue, inTrees, getAllReputationsInHash
<1> QED BY <1>3, <1>4, <1>5, <1>6, <1>7

(* As long as the oracle runs, each of its endpoints goes on answering for    *)
(* every state it ever answered for (the oracle's handlers of                 *)
(* ReputationMinerClient.js and the look-ups of ReputationMiner.js): what a   *)
(* tree holds is in the database before the tree is given up.                 *)
THEOREM KeepsAnswering == Mishaps = {} => (Spec => OracleKeepsAnswering)
<1> DEFINE Step == \A s \in 1 .. MaxCycle + 1 : \A endpoint \in DOMAIN oracleAnswers(s) :
                     (oracleUp /\ oracleUp' /\ oracleAnswers(s)[endpoint] = {s})
                        => oracleAnswers(s)[endpoint]' = {s}
<1> SUFFICES ASSUME Mishaps = {} PROVE Spec => OracleKeepsAnswering OBVIOUS
<1>1. ClientInv /\ ClientInv' /\ [Next]_vars => Step BY AnswersStay
<1>2. Spec => [][Step]_vars
  <2> HIDE DEF Step
  <2>1. ClientInv /\ [Next]_vars => ClientInv' BY NextInv
  <2>2. Init => ClientInv BY InitInv
  <2> QED BY <1>1, <2>1, <2>2, PTL DEF Spec
<1> QED BY <1>2 DEF OracleKeepsAnswering

=============================================================================
