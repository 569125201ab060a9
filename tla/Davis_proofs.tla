---------------------------- MODULE Davis_proofs ----------------------------
(***************************************************************************)
(* Proofs about the Davis client, for any number of faults and radio        *)
(* frames: the lock belongs to the query the port waits for, and the flag   *)
(* means a LOOP packet.  Neither is inductive.  The first needs that who    *)
(* sends has the lock; the second what the port holds when LOOP takes its   *)
(* answer, and when it looks at the port again after that.  And the lock    *)
(* is given back by every query that does not go on.                        *)
(***************************************************************************)
EXTENDS Davis, TLAPS

QueryState == {"IDLE", "SENDING_QUERY", "RECEIVING", "OK", "ERROR"}

Fields ==
  /\ global \in {"IDLE", "LOOP", "RXCHECK"}
  /\ query \in [Command -> QueryState]
  /\ length \in Command \cup {"KISS"}
  /\ flag \in {0, 1} /\ user \in Command

(* Who sends a command has the lock. *)
SenderHasLock == \A c \in Command : query[c] = "SENDING_QUERY" => global = c

(* The flag is down from the command to the packet. *)
FlagIsDown == query["LOOP"] = "SENDING_QUERY" => flag = 0

(* With the lock, LOOP finds a whole packet or none, but for a reception    *)
(* that is still the one armed for KISS.                                    *)
OwnAnswer ==
  (global = "LOOP" /\ query["LOOP"] = "RECEIVING" /\ length # "KISS")
    => /\ length = "LOOP" /\ rx \in {"RXING", "ERROR", "DONE"}
       /\ rx = "DONE" => buffer = "LOOP"

(* Without it, LOOP goes on looking at the packet it took, until RXCHECK    *)
(* comes in between.                                                        *)
SamePacket ==
  (global # "LOOP" /\ query["LOOP"] = "RECEIVING")
    => (rx = "DONE" /\ buffer = "LOOP") \/ user = "RXCHECK" \/ length = "KISS"

(* Only the reception armed at the start waits for a start byte. *)
KissWaits == rx = "WAITING" => length = "KISS"

IInv ==
  /\ Fields /\ SenderHasLock /\ LockOwnsPort /\ KissWaits
  /\ FlagIsDown /\ OwnAnswer /\ SamePacket /\ FlagMeansPacket

(* The queries, one step of either pooler. *)
LEMMA QueryKeeps ==
  ASSUME NEW c \in Command, IInv, ~Locked(c), Query(c)
  PROVE  IInv'
BY SMTT(30) DEF IInv, Fields, SenderHasLock, LockOwnsPort, KissWaits, FlagIsDown, OwnAnswer, SamePacket, FlagMeansPacket, Query, Becomes, Locked, Command, QueryState, FlagOfNext

LEMMA ListenKeeps ==
  ASSUME NEW c \in Command, IInv, ~Locked(c), Listen(c)
  PROVE  IInv'
BY SMTT(30) DEF IInv, Fields, SenderHasLock, LockOwnsPort, KissWaits, FlagIsDown, OwnAnswer, SamePacket, FlagMeansPacket, Listen, Becomes, Locked, Command, QueryState

LEMMA TakeLoopKeeps ==
  ASSUME IInv, ~Locked("LOOP"), TakeLoop
  PROVE  IInv'
BY SMTT(30) DEF IInv, Fields, SenderHasLock, LockOwnsPort, KissWaits, FlagIsDown, OwnAnswer, SamePacket, FlagMeansPacket, TakeLoop, Becomes, Locked, Command, QueryState, LockAfterError

LEMMA TakeRxcheckKeeps ==
  ASSUME IInv, ~Locked("RXCHECK"), TakeRxcheck
  PROVE  IInv'
BY SMTT(30) DEF IInv, Fields, SenderHasLock, LockOwnsPort, KissWaits, FlagIsDown, OwnAnswer, SamePacket, FlagMeansPacket, TakeRxcheck, Becomes, Locked, Command, QueryState

LEMMA ClearFlagKeeps ==
  ASSUME IInv, ClearFlag
  PROVE  IInv'
BY SMTT(30) DEF IInv, Fields, SenderHasLock, LockOwnsPort, KissWaits, FlagIsDown, OwnAnswer, SamePacket, FlagMeansPacket, ClearFlag, Command

(* A call of a pooler, whether it does something or not. *)
LEMMA PoolerKeeps ==
  ASSUME NEW c \in Command, IInv, Pooler(c)
  PROVE  IInv'
<1>1. CASE ~Locked(c) /\ Steps(c)
  <2>1. CASE Query(c)
    BY <1>1, <2>1, QueryKeeps
  <2>2. CASE Listen(c)
    BY <1>1, <2>2, ListenKeeps
  <2>3. CASE c = "LOOP" /\ (TakeLoop \/ ClearFlag)
    BY <1>1, <2>3, TakeLoopKeeps, ClearFlagKeeps
  <2>4. CASE c = "RXCHECK" /\ TakeRxcheck
    BY <1>1, <2>4, TakeRxcheckKeeps
  <2>5. QED
    BY <1>1, <2>1, <2>2, <2>3, <2>4 DEF Steps
<1>2. CASE UNCHANGED <<global, query, flag, sending, rx, length, buffer, user>>
  BY <1>2, SMT DEF IInv, Fields, SenderHasLock, LockOwnsPort, KissWaits, FlagIsDown, OwnAnswer, SamePacket, FlagMeansPacket
<1>3. QED
  BY <1>1, <1>2 DEF Pooler

(* The triggers take a query back to its start, and nothing from the lock. *)
LEMMA TimedPoolsKeeps ==
  ASSUME IInv, TimedPools
  PROVE  IInv'
BY SMTT(30) DEF IInv, Fields, SenderHasLock, LockOwnsPort, KissWaits, FlagIsDown, OwnAnswer, SamePacket, FlagMeansPacket, TimedPools, Triggered, port, Command, QueryState

(* An answer ends the reception, with a packet only for LOOP's own. *)
LEMMA AnsweredKeeps ==
  ASSUME IInv, Answered
  PROVE  IInv'
<1> USE DEF IInv, Fields, SenderHasLock, LockOwnsPort, KissWaits, FlagIsDown, OwnAnswer, SamePacket, FlagMeansPacket
<1>1. UNCHANGED <<global, query, flag, length, user>>
  BY DEF Answered
<1>2. CASE rx = "RXING" /\ length # "KISS" /\ Whole
  BY <1>1, <1>2, SMTT(30) DEF Whole, Command
<1>3. CASE Cut
  BY <1>1, <1>3, SMTT(30) DEF Cut, Command
<1>4. CASE length = "KISS" /\ rx' \in {"RXING", "DONE", "ERROR"}
  BY <1>1, <1>4, SMTT(30) DEF Command
<1>5. CASE UNCHANGED <<rx, buffer>>
  BY <1>1, <1>5, SMTT(30) DEF Command
<1>6. QED
  BY <1>2, <1>3, <1>4, <1>5 DEF Answered, Taken, StartsKissFrame, EndsKissFrame

LEMMA IInvInductive ==
  ASSUME IInv, [Next]_vars
  PROVE  IInv'
<1>1. CASE LoopPooler
  BY <1>1, PoolerKeeps DEF LoopPooler, Command
<1>2. CASE RxcheckPooler
  BY <1>2, PoolerKeeps DEF RxcheckPooler, Command
<1>3. CASE TimedPools
  BY <1>3, TimedPoolsKeeps
<1>4. CASE Answered
  BY <1>4, AnsweredKeeps
<1>5. CASE RadioFrame \/ Sent \/ Tick \/ UNCHANGED vars
  <2>1. UNCHANGED <<global, query, flag, rx, length, buffer, user>>
    BY <1>5 DEF RadioFrame, Sent, Tick, vars, port, time
  <2>2. QED
    BY <2>1, SMT DEF IInv, Fields, SenderHasLock, LockOwnsPort, KissWaits, FlagIsDown, OwnAnswer, SamePacket, FlagMeansPacket
<1>6. QED
  BY <1>1, <1>2, <1>3, <1>4, <1>5 DEF Next, MainLoop

LEMMA IInvInitial == Init => IInv
BY SMT DEF Init, IInv, Fields, SenderHasLock, LockOwnsPort, KissWaits, FlagIsDown, OwnAnswer, SamePacket, FlagMeansPacket, Command, QueryState

LEMMA IInvAlways == Spec => []IInv
<1>1. IInv /\ [Next]_vars => IInv'
  BY IInvInductive
<1>2. QED
  BY IInvInitial, <1>1, PTL DEF Spec

(* One call of a pooler keeps the type of every field. *)
LEMMA PoolerTyped ==
  ASSUME NEW c \in Command, TypeOK, Pooler(c), loop' \in {"RXCHECK", "POOLS"}
  PROVE  TypeOK'
<1> USE DEF TypeOK, Command, time
<1>1. CASE Query(c)
  BY <1>1, SMT DEF Pooler, Query, Becomes, FlagOfNext
<1>2. CASE Listen(c)
  BY <1>2, SMT DEF Pooler, Listen, Becomes
<1>3. CASE TakeLoop
  BY <1>3, SMT DEF Pooler, TakeLoop, Becomes, LockAfterError
<1>4. CASE ClearFlag
  BY <1>4, SMT DEF Pooler, ClearFlag
<1>5. CASE TakeRxcheck
  BY <1>5, SMT DEF Pooler, TakeRxcheck, Becomes, MoreThanMinimal
<1>6. CASE UNCHANGED <<global, query, flag, sending, rx, length, buffer, user>>
  BY <1>6, SMT DEF Pooler
<1>7. QED
  BY <1>1, <1>2, <1>3, <1>4, <1>5, <1>6 DEF Pooler, Steps

LEMMA TypeInductive ==
  ASSUME TypeOK, [Next]_vars
  PROVE  TypeOK'
<1> USE DavisConstants DEF TypeOK, Command, port, time, Goes
<1>1. CASE LoopPooler
  BY <1>1, PoolerTyped DEF LoopPooler
<1>2. CASE RxcheckPooler
  BY <1>2, PoolerTyped DEF RxcheckPooler
<1>3. CASE RadioFrame
  BY <1>3, SMT DEF RadioFrame
<1>4. CASE TimedPools
  BY <1>4, SMT DEF TimedPools, Triggered
<1>5. CASE Sent
  <2>1. answers' \in Seq(Command)
    <3>1. CASE sending # "SPOILT" /\ answers' = Append(answers, sending)
      <4>1. sending \in Command
        BY <1>5, <3>1 DEF Sent
      <4>2. QED
        BY <3>1, <4>1, SMT
    <3>2. QED
      BY <1>5, <3>1, SMT DEF Sent
  <2>2. faults' \in 0 .. MaxFaults
    BY <1>5, SMT DEF Sent, Fault
  <2>3. QED
    BY <1>5, <2>1, <2>2, SMT DEF Sent
<1>6. CASE Answered
  <2>1. answers' \in Seq(Command)
    BY <1>6, SMT DEF Answered
  <2>2. rx' \in {"WAITING", "RXING", "DONE", "ERROR"} /\ buffer' \in MoreThanMinimal \cup {"NONE", "SHORT"}
    BY <1>6, SMT DEF Answered, Taken, Cut, Whole, StartsKissFrame, EndsKissFrame, MoreThanMinimal
  <2>3. faults' \in 0 .. MaxFaults
    BY <1>6, SMT DEF Answered, Fault
  <2>4. QED
    BY <1>6, <2>1, <2>2, <2>3 DEF Answered
<1>7. CASE Tick
  <2>1. due' \subseteq Command
    <3>1. due' = due \cup {"LOOP"} \/ due' = due \cup {"RXCHECK"}
      BY <1>7 DEF Tick
    <3>2. QED
      BY <3>1, Zenon
  <2>2. age' \in 0 .. RxcheckPeriod
    BY <1>7, SMT DEF Tick
  <2>3. QED
    BY <1>7, <2>1, <2>2, SMT DEF Tick
<1>8. CASE UNCHANGED vars
  BY <1>8, SMT DEF vars
<1>9. QED
  BY <1>1, <1>2, <1>3, <1>4, <1>5, <1>6, <1>7, <1>8 DEF Next, MainLoop

(* Every field keeps its type, for every number of faults and radio frames. *)
THEOREM TypeCorrect == Spec => []TypeOK
<1>1. Init => TypeOK
  BY DavisConstants, SMT DEF Init, TypeOK, Command, MoreThanMinimal
<1>2. TypeOK /\ [Next]_vars => TypeOK'
  BY TypeInductive
<1>3. QED
  BY <1>1, <1>2, PTL DEF Spec

(* The port never waits for the answer to one query while the other has the *)
(* lock (davis.c:272, 376), whatever triggers, silences, late answers and   *)
(* radio frames come in which order.  (What the port receives for the KISS  *)
(* host, armed in main.c:570, is the answer to no query.)                   *)
THEOREM LockIsWorthItsName == Spec => []LockOwnsPort
<1>1. IInv => LockOwnsPort
  BY DEF IInv
<1>2. QED
  BY IInvAlways, <1>1, PTL

(* The flag that the main loop looks at (main.c:844) stands for a LOOP      *)
(* packet in the buffer, unless RXCHECK came in between, or the packet was  *)
(* received by what main.c:570 had armed for the KISS host.                 *)
THEOREM FlagIsTrue == Spec => []FlagMeansPacket
<1>1. IInv => FlagMeansPacket
  BY DEF IInv
<1>2. QED
  BY IInvAlways, <1>1, PTL

(* The lock is never leaked: who has it is on its way through a query, and  *)
(* when it waits for the port, the port is receiving or has ended with an   *)
(* answer or an error.  A query that gives up or is done has given the lock *)
(* back, so the other one is locked out by an exchange and by nothing else. *)
HolderGoesOn ==
  \A c \in Command : global = c =>
    \/ query[c] \in {"IDLE", "SENDING_QUERY"}
    \/ query[c] = "RECEIVING" /\ rx \in {"RXING", "DONE", "ERROR"}

(* For every order of triggers, faults and radio frames: what               *)
(* PacketsComeAgain needs besides a port that ends what it has begun.       *)
THEOREM LockIsGivenBack == Spec => []HolderGoesOn
<1> USE DEF HolderGoesOn, Command
<1>1. Init => HolderGoesOn
  BY DEF Init
<1>2. ASSUME IInv, HolderGoesOn, NEW c \in Command, Pooler(c)
      PROVE  HolderGoesOn'
  <2>f. Fields
    BY <1>2 DEF IInv
  <2>1. CASE Query(c)
    BY <1>2, <2>1, <2>f DEF Query, Becomes, Fields
  <2>2. CASE Listen(c) /\ ~Locked(c)
    BY <1>2, <2>2, <2>f DEF Listen, Becomes, Locked, Fields
  <2>3. CASE TakeLoop \/ TakeRxcheck
    BY <2>3, <2>f DEF TakeLoop, TakeRxcheck, Becomes, LockAfterError, Fields
  <2>4. CASE ClearFlag \/ UNCHANGED <<global, query, rx>>
    BY <1>2, <2>4 DEF ClearFlag
  <2>5. QED
    BY <1>2, <2>1, <2>2, <2>3, <2>4 DEF Pooler, Steps
<1>3. IInv /\ HolderGoesOn /\ [Next]_vars => HolderGoesOn'
  <2> SUFFICES ASSUME IInv, HolderGoesOn, [Next]_vars PROVE HolderGoesOn'
    OBVIOUS
  <2>1. CASE LoopPooler \/ RxcheckPooler
    BY <1>2, <2>1 DEF LoopPooler, RxcheckPooler
  <2>2. CASE TimedPools
    BY <2>2 DEF TimedPools, Triggered, port, IInv, Fields
  <2>3. CASE Answered
    BY <2>3 DEF Answered, Taken, Cut, Whole, StartsKissFrame, EndsKissFrame
  <2>4. CASE RadioFrame \/ Sent \/ Tick \/ UNCHANGED vars
    BY <2>4 DEF RadioFrame, Sent, Tick, vars, port
  <2>5. QED
    BY <2>1, <2>2, <2>3, <2>4 DEF Next, MainLoop
<1>4. QED
  BY <1>1, <1>3, IInvAlways, PTL DEF Spec
=============================================================================
