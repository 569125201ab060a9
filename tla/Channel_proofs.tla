--------------------------- MODULE Channel_proofs ---------------------------
(***************************************************************************)
(* The radio channel: the digipeaters on it, and its bits.                  *)
(*                                                                          *)
(* Digi: a digipeater repeats a frame once and none of its own, for every   *)
(* number of digipeaters and trackers, all traffic and all modes.           *)
(*                                                                          *)
(* A frame whose path begins with an alias is an original: nobody has       *)
(* repeated it, for a repetition begins with the call of the digipeater.    *)
(* Only originals are taken, and each of them is on the air once, from the  *)
(* station that made it.  So what a digipeater takes is either new to it,   *)
(* or is what it has in its buffers, and that is under digi_process until   *)
(* the flag of the receiver goes off.                                       *)
(*                                                                          *)
(* HdlcLink: a frame that is not disturbed is heard, for all frames.  The   *)
(* sender's counter of ones and the last bits the receiver has heard say    *)
(* the same, so the receiver drops the bits that were stuffed and no other, *)
(* and sees a flag where one was sent and nowhere else.  Whatever is heard, *)
(* the carrier is detected within a frame only.                             *)
(***************************************************************************)
EXTENDS Digi, HdlcLink, SequenceTheorems, TLAPS

Key(f)      == <<f.src, f.id>>
Original(f) == Alias(f.path)

(* An original that is still to come from the air. *)
Pending(k) ==
  \/ \E f \in unsent : Key(f) = k
  \/ \E s \in Stations : \E i \in DOMAIN air[s] : Original(air[s][i]) /\ Key(air[s][i]) = k
  \/ \E d \in Digis, n \in Nat : k = <<d, n>> /\ n >= own

(* What a digipeater has repeated, works on or has received. *)
Seen(d, k) ==
  \/ k \in repeated[d]
  \/ msg[d] # None /\ k = Key(msg[d])
  \/ frame[d] # None /\ Original(frame[d]) /\ k = Key(frame[d])

Types ==
  /\ own \in Nat /\ unsent \subseteq Frame
  /\ air \in [Stations -> Seq(Frame)]
  /\ hearing \in [Digis -> Stations \cup {None}]
  /\ frame \in [Digis -> Frame \cup {None}] /\ msg \in [Digis -> Frame \cup {None}]
  /\ flag \in [Digis -> BOOLEAN] /\ torn \in [Digis -> BOOLEAN]
  /\ pc \in [Digis -> {"idle", "filter", "copy", "delay", "channel", "send"}]
  /\ repeated \in [Digis -> SUBSET (Stations \X Nat)]

(* digi_process works on a frame that was received, and on its own copy. *)
WorksOnFrame ==
  \A d \in Digis : /\ flag[d] => frame[d] # None
                   /\ pc[d] # "idle" => flag[d]
                   /\ pc[d] \in {"copy", "delay", "channel", "send"} => msg[d] # None

(* Every original is in one place only, at the station that made it. *)
UnsentOnce ==
  /\ \A f \in unsent : f.src \in Trackers
  /\ \A f, g \in unsent : Key(f) = Key(g) => f = g

AirOnce ==
  \A s \in Stations : \A i \in DOMAIN air[s] : Original(air[s][i]) =>
    /\ air[s][i].src = s
    /\ s \in Digis => air[s][i].id < own
    /\ \A f \in unsent : Key(f) # Key(air[s][i])
    /\ \A j \in DOMAIN air[s] : Original(air[s][j]) /\ Key(air[s][j]) = Key(air[s][i]) => j = i

(* What a digipeater knows does not come again. *)
KnownIsPast == \A d \in Digis : \A k : Seen(d, k) => ~Pending(k)

(* A digipeater does not hear itself, so it takes no original of its own,   *)
(* and what it takes is one no longer.                                      *)
Foreign ==
  \A d \in Digis : /\ hearing[d] # d
                   /\ frame[d] # None /\ Original(frame[d]) => frame[d].src # d
                   /\ msg[d] # None => msg[d].src # d /\ ~Original(msg[d])

(* What it has repeated is neither in its message buffer nor to be taken.   *)
Once ==
  \A d \in Digis :
    /\ msg[d] # None => Key(msg[d]) \notin repeated[d]
    /\ flag[d] /\ pc[d] \in {"idle", "filter"} /\ Original(frame[d])
         => Key(frame[d]) \notin repeated[d]

IInv == Types /\ WorksOnFrame /\ UnsentOnce /\ AirOnce /\ KnownIsPast /\ Foreign /\ Once

----------------------------------------------------------------------------
LEMMA NoneIsNoFrame == None \notin Frame
BY DigiConstants

LEMMA NoneIsNoDigi == \A d \in Digis : d \in Stations /\ d # None
BY DigiConstants DEF Stations

LEMMA AppendFacts ==
  ASSUME NEW q \in Seq(Frame), NEW f \in Frame
  PROVE  /\ Append(q, f) \in Seq(Frame)
         /\ \A i \in DOMAIN Append(q, f) :
              \/ i \in DOMAIN q /\ Append(q, f)[i] = q[i]
              \/ i = Len(q) + 1 /\ i \notin DOMAIN q /\ Append(q, f)[i] = f
OBVIOUS

LEMMA TailFacts ==
  ASSUME NEW q \in Seq(Frame), q # <<>>
  PROVE  /\ Tail(q) \in Seq(Frame) /\ Head(q) \in Frame
         /\ Head(q) = q[1] /\ 1 \in DOMAIN q
         /\ \A i \in DOMAIN Tail(q) : i \in Nat /\ i > 0 /\ i + 1 \in DOMAIN q /\ Tail(q)[i] = q[i + 1]
OBVIOUS

(* A path that has been rewritten begins with a digipeater. *)
LEMMA NewPathIsUsed ==
  ASSUME NEW d \in Digis, NEW p \in Seq(Calls)
  PROVE  NewPath(d, p) \in Seq(Calls) /\ ~Alias(NewPath(d, p))
<1>1. d # "WIDE1-1" /\ d \in Calls /\ "WIDE1*" \in Calls /\ "WIDE2-1" \in Calls
  BY DigiConstants DEF Calls
<1>2. CASE Len(p) = 1
  <2>1. NewPath(d, p) = <<d, "WIDE1*">>
    BY <1>2 DEF NewPath
  <2>2. QED
    BY <1>1, <2>1 DEF Alias
<1>3. CASE Len(p) # 1
  <2>1. NewPath(d, p) = <<d, "WIDE1*", "WIDE2-1">>
    BY <1>3 DEF NewPath
  <2>2. QED
    BY <1>1, <2>1 DEF Alias
<1>4. QED
  BY <1>2, <1>3

(* The record of a frame with another path and payload. *)
LEMMA TakenFrame ==
  ASSUME NEW d \in Digis, NEW f \in Frame
  PROVE  LET g == [f EXCEPT !.path = NewPath(d, @), !.info = None]
         IN  g \in Frame /\ Key(g) = Key(f) /\ ~Original(g)
<1> DEFINE g == [f EXCEPT !.path = NewPath(d, @), !.info = None]
<1>1. f.path \in Seq(Calls)
  BY DEF Frame
<1>2. g.src = f.src /\ g.id = f.id /\ g.path = NewPath(d, f.path)
  BY DEF Frame
<1>3. g \in Frame
  BY <1>1, NewPathIsUsed DEF Frame
<1>4. QED
  BY <1>1, <1>2, <1>3, NewPathIsUsed DEF Key, Original

LEMMA CopiedFrame ==
  ASSUME NEW d \in Digis, msg[d] \in Frame, NEW info \in Nat \cup {None}, torn[d] \in BOOLEAN
  PROVE  /\ Copied(d, info) \in Frame
         /\ Key(Copied(d, info)) = Key(msg[d]) /\ Copied(d, info).src = msg[d].src
         /\ Original(Copied(d, info)) <=> Original(msg[d])
BY DEF Copied, Frame, Key, Original

----------------------------------------------------------------------------
(* The main loop of a digipeater leaves the channel alone until it repeats. *)
LEMMA ChannelKept ==
  ASSUME IInv, UNCHANGED channel
  PROVE  UnsentOnce' /\ AirOnce' /\ (\A k : Pending(k)' => Pending(k))
BY DEF IInv, UnsentOnce, AirOnce, Pending, channel, Key, Original

(* Nothing comes to be pending, and nothing is seen that was not before.    *)
LEMMA PastKept ==
  ASSUME IInv, \A k : Pending(k)' => Pending(k), \A d \in Digis : \A k : Seen(d, k)' => Seen(d, k)
  PROVE  KnownIsPast'
BY DEF IInv, KnownIsPast

(* Steps that change no frame. *)
LEMMA QuietKeeps ==
  ASSUME IInv, UNCHANGED <<channel, frame, msg, flag, repeated>>,
         hearing' \in [Digis -> Stations \cup {None}], \A d \in Digis : hearing'[d] # d,
         torn' \in [Digis -> BOOLEAN],
         \/ pc' = pc
         \/ \E d \in Digis : pc[d] = "idle" /\ flag[d] /\ pc' = [pc EXCEPT ![d] = "filter"]
         \/ \E d \in Digis : pc[d] = "delay" /\ pc' = [pc EXCEPT ![d] = "channel"]
         \/ \E d \in Digis : pc[d] = "channel" /\ pc' = [pc EXCEPT ![d] = "send"]
  PROVE  IInv'
<1>1. Types'
  BY DEF IInv, Types, channel
<1>2. WorksOnFrame' /\ Once'
  BY DEF IInv, Types, WorksOnFrame, Once, Original, Key
<1>3. Foreign'
  BY DEF IInv, Foreign, Original
<1>4. \A d \in Digis : \A k : Seen(d, k)' => Seen(d, k)
  BY DEF Seen, Original, Key
<1>5. QED
  BY <1>1, <1>2, <1>3, <1>4, ChannelKept, PastKept DEF IInv

LEMMA WaitingKeeps ==
  ASSUME IInv, 
         \/ Tick
         \/ \E d \in Digis : \/ SeesFrame(d) \/ DelayEnds(d) \/ FindsFree(d) \/ Loses(d)
                             \/ \E s \in Stations : Opens(d, s) \/ Hears(d, s)
  PROVE  IInv'
<1>1. CASE Tick
  BY <1>1, QuietKeeps DEF Tick, IInv, Types, Foreign, channel
<1>2. ASSUME NEW d \in Digis, SeesFrame(d)
      PROVE  IInv'
  BY <1>2, QuietKeeps DEF SeesFrame, IInv, Types, Foreign
<1>3. ASSUME NEW d \in Digis, DelayEnds(d)
      PROVE  IInv'
  BY <1>3, QuietKeeps DEF DelayEnds, IInv, Types, Foreign, receiver
<1>4. ASSUME NEW d \in Digis, NEW s \in Stations, Hears(d, s)
      PROVE  IInv'
  BY <1>4, QuietKeeps DEF Hears, IInv, Types, Foreign, digi
<1>5. ASSUME NEW d \in Digis, FindsFree(d)
      PROVE  IInv'
  BY <1>5, QuietKeeps DEF FindsFree, IInv, Types, Foreign, receiver
<1>6. ASSUME NEW d \in Digis, Loses(d)
      PROVE  IInv'
  <2>1. hearing' \in [Digis -> Stations \cup {None}] /\ \A e \in Digis : hearing'[e] # e
    BY <1>6, NoneIsNoDigi DEF Loses, IInv, Types, Foreign
  <2>2. UNCHANGED <<channel, frame, msg, flag, repeated, torn, pc>>
    BY <1>6 DEF Loses, digi
  <2>3. torn' \in [Digis -> BOOLEAN]
    BY <2>2 DEF IInv, Types
  <2>4. QED
    BY <2>1, <2>2, <2>3, QuietKeeps
<1>7. ASSUME NEW d \in Digis, NEW s \in Stations, Opens(d, s)
      PROVE  IInv'
  BY <1>7, QuietKeeps DEF Opens, IInv, Types, Foreign, digi
<1>8. QED
  BY <1>1, <1>2, <1>3, <1>4, <1>5, <1>6, <1>7

(* digi_process ends without a transmission. *)
LEMMA DroppingKeeps ==
  ASSUME IInv, NEW d \in Digis, Unlock(d) \/ Drops(d)
  PROVE  IInv'
<1>1. /\ UNCHANGED <<channel, hearing, frame, torn, msg, repeated>>
      /\ pc' = [pc EXCEPT ![d] = "idle"] /\ flag' = [flag EXCEPT ![d] = FALSE]
  BY DEF Unlock, Drops, Done
<1>2. Types'
  BY <1>1 DEF IInv, Types, channel
<1>3. WorksOnFrame' /\ Foreign' /\ Once'
  BY <1>1 DEF IInv, Types, WorksOnFrame, Foreign, Once, Original, Key
<1>4. \A e \in Digis : \A k : Seen(e, k)' => Seen(e, k)
  BY <1>1 DEF Seen, Original, Key
<1>5. QED
  BY <1>1, <1>2, <1>3, <1>4, ChannelKept, PastKept DEF IInv

(* The frame that is taken has been received and is not one it has repeated. *)
LEMMA TakesKeeps ==
  ASSUME IInv, NEW d \in Digis, Takes(d)
  PROVE  IInv'
<1> DEFINE g == [frame[d] EXCEPT !.path = NewPath(d, @), !.info = None]
<1>1. /\ UNCHANGED <<channel, hearing, frame, flag, torn, repeated>>
      /\ pc[d] = "filter" /\ flag[d] /\ frame[d] \in Frame /\ frame[d] # None /\ Original(frame[d])
      /\ msg' = [msg EXCEPT ![d] = g] /\ pc' = [pc EXCEPT ![d] = "copy"]
  BY DEF Takes, receiver, IInv, WorksOnFrame, Types, Original
<1>2. g \in Frame /\ Key(g) = Key(frame[d]) /\ ~Original(g) /\ g # None
  <2>1. g \in Frame /\ Key(g) = Key(frame[d]) /\ ~Original(g)
    BY <1>1, TakenFrame
  <2>2. QED
    BY <2>1, NoneIsNoFrame
<1>3. g.src = frame[d].src
  BY <1>2 DEF Key
<1> HIDE DEF g
<1>4. Types'
  BY <1>1, <1>2 DEF IInv, Types, channel
<1>5. WorksOnFrame'
  BY <1>1, <1>2 DEF IInv, Types, WorksOnFrame
<1>6. Foreign'
  BY <1>1, <1>2, <1>3 DEF IInv, Types, Foreign, Original
<1>7. Once'
  BY <1>1, <1>2 DEF IInv, Types, Once, Original, Key
<1>8. \A e \in Digis : \A k : Seen(e, k)' => Seen(e, k)
  BY <1>1, <1>2 DEF IInv, Types, Seen, Original, Key
<1>9. QED
  BY <1>1, <1>4, <1>5, <1>6, <1>7, <1>8, ChannelKept, PastKept DEF IInv

(* The payload is copied behind the header. *)
LEMMA CopyKeeps ==
  ASSUME IInv, NEW d \in Digis, StartsDelay(d) \/ LeavesToViscous(d)
  PROVE  IInv'
<1>1. /\ UNCHANGED <<channel, hearing, frame, torn, repeated>>
      /\ pc[d] = "copy" /\ msg[d] # None /\ msg[d] \in Frame /\ frame[d] \in Frame
      /\ \/ pc' = [pc EXCEPT ![d] = "delay"] /\ flag' = flag
         \/ pc' = [pc EXCEPT ![d] = "idle"] /\ flag' = [flag EXCEPT ![d] = FALSE]
  BY DEF StartsDelay, LeavesToViscous, Done, receiver, IInv, WorksOnFrame, Types
<1>2. PICK info \in InBuffer(d) : msg' = [msg EXCEPT ![d] = Copied(d, info)]
  BY DEF StartsDelay, LeavesToViscous
<1>3. info \in Nat \cup {None}
  BY <1>1, <1>2 DEF InBuffer, Frame
<1> DEFINE g == Copied(d, info)
<1>4. g \in Frame /\ Key(g) = Key(msg[d]) /\ g.src = msg[d].src /\ (Original(g) <=> Original(msg[d]))
  BY <1>1, <1>3, CopiedFrame DEF IInv, Types
<1>5. g # None /\ msg' = [msg EXCEPT ![d] = g]
  BY <1>2, <1>4, NoneIsNoFrame
<1> HIDE DEF g
<1>6. Types'
  BY <1>1, <1>4, <1>5 DEF IInv, Types, channel
<1>7. WorksOnFrame'
  BY <1>1, <1>5 DEF IInv, Types, WorksOnFrame
<1>8. Foreign'
  BY <1>1, <1>4, <1>5 DEF IInv, Types, Foreign, Original
<1>9. Once'
  BY <1>1, <1>4, <1>5 DEF IInv, Types, Once, Original, Key
<1>10. \A e \in Digis : \A k : Seen(e, k)' => Seen(e, k)
  BY <1>1, <1>4, <1>5 DEF IInv, Types, Seen, Original, Key
<1>11. QED
  BY <1>1, <1>6, <1>7, <1>8, <1>9, <1>10, ChannelKept, PastKept DEF IInv

----------------------------------------------------------------------------
(* A repetition is no original, so the channel has no other ones. *)
LEMMA RepeatsKeeps ==
  ASSUME IInv, NEW d \in Digis, Repeats(d)
  PROVE  IInv'
<1> DEFINE g == msg[d]
<1>1. /\ UNCHANGED <<unsent, own, frame, torn>> /\ d \in Stations
      /\ pc[d] = "send" /\ g # None /\ g \in Frame /\ ~Original(g)
      /\ air' = [air EXCEPT ![d] = Append(@, g)] /\ hearing' = [hearing EXCEPT ![d] = None]
      /\ pc' = [pc EXCEPT ![d] = "idle"] /\ flag' = [flag EXCEPT ![d] = FALSE]
      /\ msg' = [msg EXCEPT ![d] = None]
      /\ repeated' = [repeated EXCEPT ![d] = @ \cup {Key(g)}]
  BY DEF Repeats, PutsOnAir, Sent, Cleared, Done, IInv, WorksOnFrame, Foreign, Types, Stations, Key
<1>2. Key(g) \in Stations \X Nat
  BY <1>1 DEF Frame, Key
<1> HIDE DEF g
<1>3. air[d] \in Seq(Frame)
  BY <1>1 DEF IInv, Types
<1>4. Types'
  BY <1>1, <1>2, <1>3, AppendFacts DEF IInv, Types
<1>5. \A s \in Stations : \A i \in DOMAIN air'[s] :
        Original(air'[s][i]) => i \in DOMAIN air[s] /\ air'[s][i] = air[s][i]
  BY <1>1, <1>3, AppendFacts DEF IInv, Types
<1>6. UnsentOnce' /\ AirOnce'
  BY <1>1, <1>5 DEF IInv, UnsentOnce, AirOnce, Original, Key
<1>7. \A k : Pending(k)' => Pending(k)
  BY <1>1, <1>5 DEF Pending, Original, Key
<1>8. \A e \in Digis : \A k : Seen(e, k)' => Seen(e, k)
  BY <1>1 DEF g, IInv, Types, Seen, Original, Key
<1>9. WorksOnFrame' /\ Foreign' /\ Once'
  BY <1>1, NoneIsNoDigi DEF IInv, Types, WorksOnFrame, Foreign, Once, Original, Key
<1>10. QED
  BY <1>4, <1>6, <1>7, <1>8, <1>9, PastKept DEF IInv

(* A tracker's frame was pending before it is sent, and is so afterwards.   *)
LEMMA TrackerSendsKeeps ==
  ASSUME IInv, NEW f \in unsent, TrackerSends(f)
  PROVE  IInv'
<1>1. /\ UNCHANGED <<own, hearing, frame, flag, torn, pc, msg, repeated>>
      /\ f \in Frame /\ f.src \in Stations /\ f.src \notin Digis
      /\ air[f.src] = <<>> /\ unsent' = unsent \ {f}
      /\ air' = [air EXCEPT ![f.src] = Append(@, f)]
  BY DigiConstants DEF TrackerSends, receiver, digi, IInv, Types, UnsentOnce, Stations
<1>2. /\ \A s \in Stations : s # f.src => air'[s] = air[s]
      /\ air'[f.src] \in Seq(Frame) /\ \A i \in DOMAIN air'[f.src] : i = 1 /\ air'[f.src][i] = f
  BY <1>1 DEF IInv, Types
<1>3. Types'
  BY <1>1, <1>2 DEF IInv, Types
<1>4. UnsentOnce'
  BY <1>1 DEF IInv, UnsentOnce, Key
<1>5. AirOnce'
  <2> SUFFICES ASSUME NEW s \in Stations, NEW i \in DOMAIN air'[s], Original(air'[s][i])
               PROVE  /\ air'[s][i].src = s
                      /\ s \in Digis => air'[s][i].id < own
                      /\ \A e \in unsent' : Key(e) # Key(air'[s][i])
                      /\ \A j \in DOMAIN air'[s] :
                           Original(air'[s][j]) /\ Key(air'[s][j]) = Key(air'[s][i]) => j = i
    BY <1>1 DEF AirOnce, Original, Key
  <2>1. CASE s = f.src
    BY <1>1, <1>2, <2>1 DEF IInv, UnsentOnce
  <2>2. CASE s # f.src
    BY <1>1, <1>2, <2>2 DEF IInv, AirOnce
  <2>3. QED
    BY <2>1, <2>2
<1>6. \A k : Pending(k)' => Pending(k)
  BY <1>1, <1>2 DEF Pending, Original, Key
<1>7. \A e \in Digis : \A k : Seen(e, k)' => Seen(e, k)
  BY <1>1 DEF Seen, Original, Key
<1>8. WorksOnFrame' /\ Foreign' /\ Once'
  BY <1>1 DEF IInv, WorksOnFrame, Foreign, Once, Original, Key
<1>9. QED
  BY <1>3, <1>4, <1>5, <1>6, <1>7, <1>8, PastKept DEF IInv

(* A packet of its own takes the next number. *)
LEMMA SendsOwnKeeps ==
  ASSUME IInv, NEW d \in Digis, SendsOwn(d)
  PROVE  IInv'
<1> DEFINE g == [src |-> d, id |-> own, tracker |-> FALSE, long |-> FALSE, known |-> TRUE,
                 path |-> OwnPath, info |-> own, torn |-> FALSE]
<1>1. /\ UNCHANGED <<unsent, frame, flag, torn, pc, msg, repeated>> /\ d \in Stations
      /\ own \in Nat /\ own' = own + 1 /\ d \notin Trackers
      /\ air' = [air EXCEPT ![d] = Append(@, g)] /\ hearing' = [hearing EXCEPT ![d] = None]
  BY DigiConstants DEF SendsOwn, PutsOnAir, IInv, Types, Stations
<1>2. g \in Frame /\ g.src = d /\ g.id = own /\ Key(g) = <<d, own>>
  BY <1>1, DigiConstants DEF Frame, Key
<1> HIDE DEF g
<1>3. air[d] \in Seq(Frame)
  BY <1>1 DEF IInv, Types
<1>4. Types'
  BY <1>1, <1>2, <1>3, AppendFacts DEF IInv, Types
<1>5. \A s \in Stations : s # d => air'[s] = air[s]
  BY <1>1 DEF IInv, Types
<1>6. \A i \in DOMAIN air'[d] :
        \/ i \in DOMAIN air[d] /\ air'[d][i] = air[d][i]
        \/ i = Len(air[d]) + 1 /\ i \notin DOMAIN air[d] /\ air'[d][i] = g
  BY <1>1, <1>2, <1>3, AppendFacts DEF IInv, Types
<1>7. UnsentOnce'
  BY <1>1 DEF IInv, UnsentOnce, Key
<1>8. \A i \in DOMAIN air[d] : Original(air[d][i]) => Key(air[d][i]) # Key(g)
  <2> SUFFICES ASSUME NEW i \in DOMAIN air[d], Original(air[d][i])
               PROVE  Key(air[d][i]) # Key(g)
    OBVIOUS
  <2>1. air[d][i].id < own
    BY <1>1 DEF IInv, AirOnce
  <2>2. QED
    BY <1>1, <1>2, <2>1 DEF Key
<1>9. AirOnce'
  <2> SUFFICES ASSUME NEW s \in Stations, NEW i \in DOMAIN air'[s], Original(air'[s][i])
               PROVE  /\ air'[s][i].src = s
                      /\ s \in Digis => air'[s][i].id < own'
                      /\ \A e \in unsent' : Key(e) # Key(air'[s][i])
                      /\ \A j \in DOMAIN air'[s] :
                           Original(air'[s][j]) /\ Key(air'[s][j]) = Key(air'[s][i]) => j = i
    BY <1>1 DEF AirOnce, Original, Key
  <2>1. CASE s # d
    <3>1. i \in DOMAIN air[s] /\ air'[s] = air[s]
      BY <1>5, <2>1
    <3>2. s \in Digis => air[s][i].id < own /\ air[s][i] \in Frame
      BY <3>1 DEF IInv, Types, AirOnce
    <3>3. s \in Digis => air'[s][i].id < own'
      BY <1>1, <3>1, <3>2 DEF Frame
    <3>4. /\ air[s][i].src = s /\ \A e \in unsent : Key(e) # Key(air[s][i])
          /\ \A j \in DOMAIN air[s] :
               Original(air[s][j]) /\ Key(air[s][j]) = Key(air[s][i]) => j = i
      BY <3>1 DEF IInv, AirOnce
    <3>5. QED
      BY <1>1, <3>1, <3>3, <3>4
  <2>2. CASE s = d /\ i \in DOMAIN air[d]
    <3>1. air'[d][i] = air[d][i] /\ air[d][i] \in Frame
      BY <1>3, <1>6, <2>2
    <3>2. air[d][i].id < own
      BY <2>2, <3>1, <1>1 DEF IInv, AirOnce
    <3>3. air[d][i].id < own'
      BY <1>1, <3>1, <3>2 DEF Frame
    <3>4. QED
      BY <1>1, <1>6, <1>8, <2>2, <3>1, <3>3 DEF IInv, AirOnce
  <2>3. CASE s = d /\ i \notin DOMAIN air[d]
    <3>1. air'[d][i] = g /\ i = Len(air[d]) + 1
      BY <1>6, <2>3
    <3>2. \A e \in unsent : Key(e) # Key(g)
      BY <1>1, <1>2 DEF IInv, UnsentOnce, Key
    <3>3. \A j \in DOMAIN air'[d] : Original(air'[d][j]) /\ Key(air'[d][j]) = Key(g) => j = i
      BY <1>6, <1>8, <3>1
    <3>4. g.id < own'
      BY <1>1, <1>2
    <3>5. QED
      BY <1>1, <1>2, <2>3, <3>1, <3>2, <3>3, <3>4
  <2>4. QED
    BY <2>1, <2>2, <2>3
<1>10. \A k : Pending(k)' => Pending(k)
  <2> SUFFICES ASSUME NEW k, Pending(k)'
               PROVE  Pending(k)
    OBVIOUS
  <2>1. CASE \E f \in unsent' : Key(f) = k
    BY <1>1, <2>1 DEF Pending
  <2>2. CASE \E s \in Stations : \E i \in DOMAIN air'[s] :
               Original(air'[s][i]) /\ Key(air'[s][i]) = k
    BY <1>1, <1>2, <1>5, <1>6, <2>2 DEF Pending
  <2>3. CASE \E e \in Digis, n \in Nat : k = <<e, n>> /\ n >= own'
    BY <1>1, <2>3 DEF Pending
  <2>4. QED
    BY <2>1, <2>2, <2>3 DEF Pending, Key, Original
<1>11. \A e \in Digis : \A k : Seen(e, k)' => Seen(e, k)
  BY <1>1 DEF Seen, Original, Key
<1>12. WorksOnFrame' /\ Foreign' /\ Once'
  BY <1>1, NoneIsNoDigi DEF IInv, Types, WorksOnFrame, Foreign, Once, Original, Key
<1>13. QED
  BY <1>4, <1>7, <1>9, <1>10, <1>11, <1>12, PastKept DEF IInv

(* An original that is received leaves the air at that moment. *)
LEMMA FrameEndsKeeps ==
  ASSUME IInv, NEW s \in Stations, FrameEnds(s)
  PROVE  IInv'
<1> DEFINE h == Head(air[s])
<1>1. PICK good \in SUBSET {d \in Digis : hearing[d] = s} :
        /\ frame' = [d \in Digis |-> IF d \in good THEN h ELSE frame[d]]
        /\ flag' = [d \in Digis |-> flag[d] \/ d \in good]
        /\ torn' = [d \in Digis |-> torn[d] /\ ~(d \in good /\ pc[d] # "copy")]
        /\ hearing' = [d \in Digis |-> IF hearing[d] = s THEN None ELSE hearing[d]]
  BY DEF FrameEnds
<1>2. /\ UNCHANGED <<unsent, own, pc, msg, repeated>>
      /\ air[s] \in Seq(Frame) /\ air[s] # <<>> /\ air' = [air EXCEPT ![s] = Tail(@)]
  BY DEF FrameEnds, digi, IInv, Types
<1>3. h \in Frame /\ 1 \in DOMAIN air[s] /\ h = air[s][1] /\ Tail(air[s]) \in Seq(Frame) /\ h # None
  BY <1>2, TailFacts, NoneIsNoFrame
<1> HIDE DEF h
<1>4. \A r \in Stations : r # s => air'[r] = air[r]
  BY <1>2 DEF IInv, Types
<1>5. \A i \in DOMAIN air'[s] : i \in Nat /\ i > 0 /\ i + 1 \in DOMAIN air[s] /\ air'[s][i] = air[s][i + 1]
  BY <1>2, TailFacts DEF IInv, Types
<1>6. Types'
  BY <1>1, <1>2, <1>3 DEF IInv, Types
<1>7. UnsentOnce'
  BY <1>2 DEF IInv, UnsentOnce, Key
<1>8. AirOnce'
  <2> SUFFICES ASSUME NEW r \in Stations, NEW i \in DOMAIN air'[r], Original(air'[r][i])
               PROVE  /\ air'[r][i].src = r
                      /\ r \in Digis => air'[r][i].id < own'
                      /\ \A e \in unsent' : Key(e) # Key(air'[r][i])
                      /\ \A j \in DOMAIN air'[r] :
                           Original(air'[r][j]) /\ Key(air'[r][j]) = Key(air'[r][i]) => j = i
    BY DEF AirOnce, Original, Key
  <2>1. CASE r # s
    BY <1>2, <1>4, <2>1 DEF IInv, AirOnce
  <2>2. CASE r = s
    <3>1. /\ air[s][i + 1].src = s
          /\ s \in Digis => air[s][i + 1].id < own
          /\ \A e \in unsent : Key(e) # Key(air[s][i + 1])
          /\ \A j \in DOMAIN air[s] :
               Original(air[s][j]) /\ Key(air[s][j]) = Key(air[s][i + 1]) => j = i + 1
      BY <1>5, <2>2 DEF IInv, AirOnce
    <3>2. ASSUME NEW j \in DOMAIN air'[s], Original(air'[s][j]), Key(air'[s][j]) = Key(air'[s][i])
          PROVE  j = i
      <4>1. j + 1 = i + 1
        BY <1>5, <2>2, <3>1, <3>2
      <4>2. QED
        BY <1>5, <2>2, <4>1
    <3>3. QED
      BY <1>2, <1>5, <2>2, <3>1, <3>2
  <2>3. QED
    BY <2>1, <2>2
<1>9. \A k : Pending(k)' => Pending(k)
  BY <1>2, <1>4, <1>5 DEF Pending, Original, Key
<1>10. ASSUME Original(h), NEW k, k = Key(h)
       PROVE  Pending(k) /\ ~Pending(k)' /\ h.src = s
  <2>1. /\ h.src = s
        /\ s \in Digis => h.id < own
        /\ \A f \in unsent : Key(f) # k
        /\ \A j \in DOMAIN air[s] : Original(air[s][j]) /\ Key(air[s][j]) = k => j = 1
    BY <1>3, <1>10 DEF IInv, AirOnce
  <2>2. Pending(k)
    BY <1>3, <1>10 DEF Pending
  <2>3. ~ \E r \in Stations : \E i \in DOMAIN air'[r] :
            Original(air'[r][i]) /\ Key(air'[r][i]) = k
    <3> SUFFICES ASSUME NEW r \in Stations, NEW i \in DOMAIN air'[r],
                        Original(air'[r][i]), Key(air'[r][i]) = k
                 PROVE  FALSE
      OBVIOUS
    <3>1. CASE r = s
      <4>1. i + 1 = 1 /\ i \in Nat /\ i > 0
        BY <1>5, <2>1, <3>1
      <4>2. QED
        BY <4>1
    <3>2. CASE r # s
      <4>1. air'[r][i].src = r
        BY <1>4, <3>2 DEF IInv, AirOnce
      <4>2. QED
        BY <1>10, <2>1, <3>2, <4>1 DEF Key
    <3>3. QED
      BY <3>1, <3>2
  <2>4. ~ \E d \in Digis, n \in Nat : k = <<d, n>> /\ n >= own
    <3> SUFFICES ASSUME NEW d \in Digis, NEW n \in Nat, k = <<d, n>>, n >= own
                 PROVE  FALSE
      OBVIOUS
    <3>1. h.src = d /\ h.id = n
      BY <1>10 DEF Key
    <3>2. QED
      BY <2>1, <3>1 DEF IInv, Types
  <2>5. ~Pending(k)'
    BY <1>2, <2>1, <2>3, <2>4 DEF Pending, Key, Original
  <2>6. QED
    BY <2>1, <2>2, <2>5
<1>11. \A d \in good : d \in Digis /\ hearing[d] = s
  BY <1>1
<1>12. KnownIsPast'
  <2> SUFFICES ASSUME NEW d \in Digis, NEW k, Seen(d, k)'
               PROVE  ~Pending(k)'
    BY DEF KnownIsPast
  <2>1. CASE Seen(d, k)
    BY <1>9, <2>1 DEF IInv, KnownIsPast
  <2>2. CASE ~Seen(d, k)
    <3>1. Original(h) /\ k = Key(h)
      BY <1>1, <1>2, <2>2 DEF Seen, Original, Key
    <3>2. QED
      BY <1>10, <3>1
  <2>3. QED
    BY <2>1, <2>2
<1>13. WorksOnFrame'
  BY <1>1, <1>2, <1>3 DEF IInv, WorksOnFrame
<1>14. Foreign'
  <2>1. Original(h) => h.src = s
    BY <1>10
  <2>2. \A d \in Digis : hearing'[d] # d
    BY <1>1, NoneIsNoDigi DEF IInv, Foreign
  <2>3. ASSUME NEW d \in Digis, frame'[d] # None, Original(frame'[d])
        PROVE  frame'[d].src # d
    BY <1>1, <1>11, <2>1, <2>3 DEF IInv, Foreign
  <2>4. QED
    BY <1>2, <2>2, <2>3 DEF IInv, Foreign, Original
<1>15. Once'
  <2>1. ASSUME NEW d \in Digis, Original(h)
        PROVE  Key(h) \notin repeated[d]
    <3>1. PICK k : k = Key(h)
      OBVIOUS
    <3>2. Pending(k)
      BY <1>10, <2>1, <3>1
    <3>3. QED
      BY <3>1, <3>2 DEF IInv, KnownIsPast, Seen
  <2>2. QED
    BY <1>1, <1>2, <2>1 DEF IInv, Once, Original, Key
<1>16. QED
  BY <1>6, <1>7, <1>8, <1>12, <1>13, <1>14, <1>15 DEF IInv

----------------------------------------------------------------------------
LEMMA InitHolds == Init => IInv
<1> SUFFICES ASSUME Init
             PROVE  IInv
  OBVIOUS
<1>1. PICK F \in Traffic : unsent = F /\ F \subseteq Frame
  BY DigiConstants DEF Init
<1>2. Types
  BY <1>1 DEF Init, Types, All
<1>3. UnsentOnce
  BY <1>1, DigiConstants DEF Init, UnsentOnce, Key
<1>4. WorksOnFrame /\ AirOnce /\ KnownIsPast /\ Foreign /\ Once
  BY NoneIsNoDigi DEF Init, WorksOnFrame, AirOnce, KnownIsPast, Seen, Foreign, Once, All
<1>5. QED
  BY <1>2, <1>3, <1>4 DEF IInv

LEMMA IInvInductive ==
  ASSUME IInv, [Next]_vars
  PROVE  IInv'
<1>1. CASE UNCHANGED vars
  BY <1>1, QuietKeeps DEF vars, receiver, digi, IInv, Types, Foreign
<1>2. QED
  BY <1>1, WaitingKeeps, DroppingKeeps, TakesKeeps, CopyKeeps, RepeatsKeeps, TrackerSendsKeeps,
     SendsOwnKeeps, FrameEndsKeeps DEF Next, Main

LEMMA IInvHolds == Spec => []IInv
<1>1. IInv /\ [Next]_vars => IInv'
  BY IInvInductive
<1>2. QED
  BY InitHolds, <1>1, PTL DEF Spec

(* The fields that the proofs above do without. *)
Rest ==
  /\ mode \in Configs /\ unsent \subseteq UNION Traffic /\ own \in 0 .. MaxOwn
  /\ missed \in [Digis -> SUBSET Stations]
  /\ dcd \in [Digis -> BOOLEAN] /\ lock \in [Digis -> BOOLEAN]
  /\ delayCnt \in [Digis -> Nat]

(* A station that is heard is one of the stations. *)
LEMMA MissedTyped ==
  ASSUME IInv, Rest, NEW d \in Digis
  PROVE  [missed EXCEPT ![d] = @ \cup ({hearing[d]} \ {None})] \in [Digis -> SUBSET Stations]
<1>1. missed[d] \cup ({hearing[d]} \ {None}) \in SUBSET Stations
  BY DEF IInv, Types, Rest
<1>2. QED
  BY <1>1 DEF Rest

LEMMA RestInductive ==
  ASSUME IInv, Rest, [Next]_vars
  PROVE  Rest'
<1> USE DEF Rest
<1>1. CASE \E f \in unsent : TrackerSends(f)
  BY <1>1 DEF TrackerSends, receiver, digi
<1>2. CASE \E d \in Digis, s \in Stations : Opens(d, s) \/ Hears(d, s)
  BY <1>2 DEF Opens, Hears, channel, digi
<1>3. CASE \E s \in Stations : FrameEnds(s)
  <2>1. PICK s \in Stations : FrameEnds(s)
    BY <1>3
  <2>2. dcd' \in [Digis -> BOOLEAN] /\ missed' \in [Digis -> SUBSET Stations]
    BY <2>1 DEF FrameEnds
  <2>3. QED
    BY <2>1, <2>2 DEF FrameEnds, digi
<1>4. CASE Tick
  BY <1>4 DEF Tick, channel
<1>5. CASE \E d \in Digis : SendsOwn(d)
  <2>1. PICK d \in Digis : SendsOwn(d)
    BY <1>5
  <2>2. own < MaxOwn /\ own' = own + 1 /\ lock' \in [Digis -> BOOLEAN]
    BY <2>1 DEF SendsOwn
  <2>3. own' \in 0 .. MaxOwn
    BY <2>2, DigiConstants
  <2>4. missed' \in [Digis -> SUBSET Stations]
    BY <2>1, MissedTyped DEF SendsOwn, PutsOnAir
  <2>5. UNCHANGED <<mode, unsent, dcd, delayCnt>>
    BY <2>1 DEF SendsOwn
  <2>6. QED
    BY <2>2, <2>3, <2>4, <2>5
<1>6. CASE \E d \in Digis : SeesFrame(d) \/ Drops(d) \/ Takes(d) \/ LeavesToViscous(d) \/ FindsFree(d)
  <2>1. PICK d \in Digis : SeesFrame(d) \/ Drops(d) \/ Takes(d) \/ LeavesToViscous(d) \/ FindsFree(d)
    BY <1>6
  <2>2. dcd' = dcd \/ dcd' = [dcd EXCEPT ![d] = FALSE]
    BY <2>1 DEF SeesFrame, Drops, Takes, LeavesToViscous, FindsFree, receiver
  <2>3. UNCHANGED <<mode, unsent, own, lock, delayCnt, missed>>
    BY <2>1 DEF SeesFrame, Drops, Takes, LeavesToViscous, FindsFree, channel, receiver
  <2>4. QED
    BY <2>2, <2>3
<1>7. CASE \E d \in Digis : Unlock(d) \/ Repeats(d)
  <2>1. PICK d \in Digis : Unlock(d) \/ Repeats(d)
    BY <1>7
  <2>2. lock' = [lock EXCEPT ![d] = FALSE] \/ lock' = [lock EXCEPT ![d] = TRUE]
    BY <2>1 DEF Unlock, Repeats
  <2>3. missed' \in [Digis -> SUBSET Stations]
    BY <2>1, MissedTyped DEF Unlock, Repeats, PutsOnAir
  <2>4. UNCHANGED <<mode, unsent, own, dcd, delayCnt>>
    BY <2>1 DEF Unlock, Repeats, channel
  <2>5. QED
    BY <2>2, <2>3, <2>4
<1>8. CASE \E d \in Digis : StartsDelay(d) \/ DelayEnds(d)
  <2>1. PICK d \in Digis : StartsDelay(d) \/ DelayEnds(d)
    BY <1>8
  <2>2. \E n \in Nat : delayCnt' = [delayCnt EXCEPT ![d] = n]
    BY <2>1, DigiConstants DEF StartsDelay, DelayEnds, FixedDelay
  <2>3. UNCHANGED <<mode, unsent, own, dcd, lock, missed>>
    BY <2>1 DEF StartsDelay, DelayEnds, channel, receiver
  <2>4. QED
    BY <2>2, <2>3
<1>9. CASE \E d \in Digis : Loses(d)
  <2>1. PICK d \in Digis : Loses(d)
    BY <1>9
  <2>2. missed' = [missed EXCEPT ![d] = @ \cup ({hearing[d]} \ {None})]
    BY <2>1 DEF Loses
  <2>3. missed' \in [Digis -> SUBSET Stations]
    BY <2>2, MissedTyped
  <2>4. \E on \in BOOLEAN : dcd' = [dcd EXCEPT ![d] = on]
    BY <2>1 DEF Loses
  <2>5. UNCHANGED <<mode, unsent, own, lock, delayCnt>>
    BY <2>1 DEF Loses, channel, digi
  <2>6. QED
    BY <2>3, <2>4, <2>5
<1>10. CASE UNCHANGED vars
  BY <1>10 DEF vars, channel, receiver, digi
<1>11. QED
  BY <1>1, <1>2, <1>3, <1>4, <1>5, <1>6, <1>7, <1>8, <1>9, <1>10 DEF Next, Main

(* Every field of the digipeaters keeps its type, and digi_process works on *)
(* a message where it goes on after the header (digi.c:99).                 *)
THEOREM TypeCorrect == Spec => []TypeOK
<1>1. Init => Rest
  BY DigiConstants DEF Init, Rest, All
<1>2. IInv /\ Rest /\ [Next]_vars => Rest'
  BY RestInductive
<1>3. IInv /\ Rest => TypeOK
  BY DEF IInv, Types, WorksOnFrame, Rest, TypeOK
<1>4. QED
  BY <1>1, <1>2, <1>3, IInvHolds, PTL DEF Spec

(* digi_process repeats a frame once, whoever else repeats it, and never a  *)
(* packet of the digipeater's own: no loops, however many digipeaters hear  *)
(* each other.                                                              *)
THEOREM NoLoops == Spec => FrameOnce
<1> DEFINE Fresh == \A d \in Digis : GoesOnAir(d) =>
                      <<msg[d].src, msg[d].id>> \notin repeated[d] /\ msg[d].src # d
<1>1. IInv /\ [Next]_vars => [Fresh]_vars
  BY DEF IInv, WorksOnFrame, Once, Foreign, GoesOnAir, Key
<1>2. QED
  BY IInvHolds, <1>1, PTL DEF Spec, FrameOnce

----------------------------------------------------------------------------
(* WholeFrame.  An original carries its own payload.  The header that was   *)
(* taken and the payload that is copied belong together, because the frame  *)
(* in the buffer is the one that was taken until the next is decoded, and   *)
(* that one has torn the buffer before.                                     *)
Whole(f) == Original(f) => f.info = f.id

Originals ==
  /\ \A f \in unsent : Whole(f)
  /\ \A s \in Stations : \A i \in DOMAIN air[s] : Whole(air[s][i])
  /\ \A d \in Digis : frame[d] # None => Whole(frame[d])

HearingTears == \A d \in Digis : hearing[d] # None => torn[d]

HeaderAndPayload ==
  \A d \in Digis :
    /\ pc[d] = "copy" => torn[d] \/ (frame[d].id = msg[d].id /\ frame[d].info = frame[d].id)
    /\ pc[d] \in {"delay", "channel", "send"} => msg[d].torn \/ msg[d].info = msg[d].id

WInv == Originals /\ HearingTears /\ HeaderAndPayload

LEMMA OriginalsKept ==
  ASSUME WInv, UNCHANGED <<unsent, air, frame>>
  PROVE  Originals'
BY DEF WInv, Originals, Whole, Original

LEMMA WaitingStaysWhole ==
  ASSUME IInv, WInv,
         \/ Tick
         \/ \E d \in Digis : \/ SeesFrame(d) \/ DelayEnds(d) \/ FindsFree(d) \/ Unlock(d) \/ Drops(d)
                             \/ Loses(d)
                             \/ \E s \in Stations : Opens(d, s) \/ Hears(d, s)
  PROVE  WInv'
<1>1. Originals'
  BY OriginalsKept DEF Tick, SeesFrame, DelayEnds, FindsFree, Unlock, Drops, Loses, Opens, Hears, channel, receiver
<1>2. CASE Tick
  BY <1>1, <1>2 DEF Tick, WInv, HearingTears, HeaderAndPayload
<1>3. ASSUME NEW d \in Digis, SeesFrame(d) \/ Unlock(d) \/ Drops(d) \/ DelayEnds(d) \/ FindsFree(d)
      PROVE  WInv'
  <2>1. UNCHANGED <<hearing, torn, frame, msg>>
    BY <1>3 DEF SeesFrame, Unlock, Drops, DelayEnds, FindsFree, receiver
  <2>2. \/ pc' = [pc EXCEPT ![d] = "filter"] \/ pc' = [pc EXCEPT ![d] = "idle"]
        \/ pc[d] = "delay" /\ pc' = [pc EXCEPT ![d] = "channel"]
        \/ pc[d] = "channel" /\ pc' = [pc EXCEPT ![d] = "send"]
    BY <1>3 DEF SeesFrame, Unlock, Drops, DelayEnds, FindsFree, Done
  <2>3. QED
    BY <1>1, <2>1, <2>2 DEF WInv, HearingTears, HeaderAndPayload, IInv, Types
<1>4. ASSUME NEW d \in Digis, NEW s \in Stations, Opens(d, s) \/ Hears(d, s)
      PROVE  WInv'
  <2>1. UNCHANGED <<frame, pc, msg>>
    BY <1>4 DEF Opens, Hears, digi
  <2>2. \A e \in Digis : hearing'[e] # None => hearing[e] # None \/ torn'[e]
    BY <1>4 DEF Opens, Hears, IInv, Types
  <2>3. \A e \in Digis : torn[e] => torn'[e]
    BY <1>4 DEF Opens, Hears, IInv, Types
  <2>4. HearingTears'
    BY <2>2, <2>3 DEF WInv, HearingTears
  <2>5. HeaderAndPayload'
    BY <2>1, <2>3 DEF WInv, HeaderAndPayload
  <2>6. QED
    BY <1>1, <2>4, <2>5 DEF WInv
<1>5. ASSUME NEW d \in Digis, Loses(d)
      PROVE  WInv'
  <2>1. UNCHANGED <<torn, frame, pc, msg>>
    BY <1>5 DEF Loses, digi
  <2>2. \A e \in Digis : hearing'[e] # None => hearing[e] # None
    BY <1>5 DEF Loses, IInv, Types
  <2>3. HearingTears'
    BY <2>1, <2>2 DEF WInv, HearingTears
  <2>4. HeaderAndPayload'
    BY <2>1 DEF WInv, HeaderAndPayload
  <2>5. QED
    BY <1>1, <2>3, <2>4 DEF WInv
<1>6. QED
  BY <1>2, <1>3, <1>4, <1>5

LEMMA TakingStaysWhole ==
  ASSUME IInv, WInv, NEW d \in Digis, Takes(d) \/ StartsDelay(d) \/ LeavesToViscous(d)
  PROVE  WInv'
<1>1. UNCHANGED <<unsent, air, frame, hearing, torn>>
  BY DEF Takes, StartsDelay, LeavesToViscous, channel, receiver
<1>2. Originals' /\ HearingTears'
  BY <1>1, OriginalsKept DEF WInv, HearingTears
<1>3. frame[d] \in Frame /\ (pc[d] = "copy" => msg[d] \in Frame)
  BY DEF Takes, StartsDelay, LeavesToViscous, IInv, Types, WorksOnFrame
<1>4. \A e \in Digis : e # d => pc'[e] = pc[e] /\ msg'[e] = msg[e]
  BY DEF Takes, StartsDelay, LeavesToViscous, Done, IInv, Types
<1>5. CASE Takes(d)
  <2>1. pc'[d] = "copy" /\ msg'[d] = [frame[d] EXCEPT !.path = NewPath(d, @), !.info = None]
        /\ Original(frame[d]) /\ frame[d] # None
    BY <1>5 DEF Takes, IInv, Types, WorksOnFrame, Original
  <2>2. msg'[d].id = frame[d].id
    BY <1>3, <2>1 DEF Frame
  <2>3. frame[d].info = frame[d].id
    BY <2>1 DEF WInv, Originals, Whole
  <2>4. QED
    BY <1>1, <1>2, <1>4, <2>1, <2>2, <2>3 DEF WInv, HeaderAndPayload
<1>6. CASE StartsDelay(d) \/ LeavesToViscous(d)
  <2>1. pc[d] = "copy" /\ pc'[d] # "copy"
    BY <1>6 DEF StartsDelay, LeavesToViscous, Done, IInv, Types
  <2>2. PICK info \in InBuffer(d) : msg'[d] = Copied(d, info)
    BY <1>6 DEF StartsDelay, LeavesToViscous, IInv, Types
  <2>3. /\ msg'[d].torn = (msg[d].torn \/ torn[d])
        /\ msg'[d].id = msg[d].id /\ msg'[d].info = info
    BY <1>3, <2>1, <2>2 DEF Copied, Frame
  <2>4. msg'[d].torn \/ msg'[d].info = msg'[d].id
    BY <2>1, <2>2, <2>3 DEF WInv, HeaderAndPayload, InBuffer
  <2>5. QED
    BY <1>1, <1>2, <1>4, <2>1, <2>4 DEF WInv, HeaderAndPayload
<1>7. QED
  BY <1>5, <1>6

(* What goes on the air is an original of its own or no original. *)
LEMMA SendingStaysWhole ==
  ASSUME IInv, WInv,
         \/ \E d \in Digis : SendsOwn(d) \/ Repeats(d)
         \/ \E f \in unsent : TrackerSends(f)
  PROVE  WInv'
<1> DEFINE Sends(s, f) ==
      /\ air' = [air EXCEPT ![s] = Append(@, f)] /\ Whole(f)
      /\ unsent' \subseteq unsent /\ UNCHANGED <<frame, torn>>
      /\ hearing' = hearing \/ hearing' = [hearing EXCEPT ![s] = None]
      /\ \A d \in Digis : pc'[d] # "idle" => pc'[d] = pc[d] /\ msg'[d] = msg[d]
<1>1. ASSUME NEW d \in Digis, SendsOwn(d)
      PROVE  \E f \in Frame : Sends(d, f)
  <2> DEFINE g == [src |-> d, id |-> own, tracker |-> FALSE, long |-> FALSE, known |-> TRUE,
                   path |-> OwnPath, info |-> own, torn |-> FALSE]
  <2>1. g \in Frame /\ Whole(g)
    BY NoneIsNoDigi, DigiConstants DEF Frame, Whole, IInv, Types
  <2>2. Sends(d, g)
    BY <1>1, <2>1 DEF SendsOwn, PutsOnAir
  <2>3. QED
    BY <2>1, <2>2
<1>2. ASSUME NEW d \in Digis, Repeats(d)
      PROVE  \E f \in Frame : Sends(d, f)
  <2>1. msg[d] \in Frame /\ Whole(msg[d])
    BY <1>2 DEF Repeats, IInv, Types, WorksOnFrame, Foreign, Whole
  <2>2. Sends(d, msg[d])
    BY <1>2, <2>1 DEF Repeats, PutsOnAir, Sent, Done, IInv, Types
  <2>3. QED
    BY <2>1, <2>2
<1>3. ASSUME NEW f \in unsent, TrackerSends(f)
      PROVE  f.src \in Stations /\ f \in Frame /\ Sends(f.src, f)
  BY <1>3, DigiConstants DEF TrackerSends, receiver, digi, IInv, Types, UnsentOnce, Stations, WInv, Originals
<1>4. PICK s \in Stations, f \in Frame : Sends(s, f)
  BY <1>1, <1>2, <1>3, NoneIsNoDigi
<1>5. air[s] \in Seq(Frame)
  BY DEF IInv, Types
<1>6. \A r \in Stations : \A i \in DOMAIN air'[r] :
        air'[r][i] = f \/ (i \in DOMAIN air[r] /\ air'[r][i] = air[r][i])
  BY <1>4, <1>5, AppendFacts DEF IInv, Types
<1>7. Originals'
  BY <1>4, <1>6 DEF WInv, Originals, Whole, Original
<1>8. HearingTears' /\ HeaderAndPayload'
  BY <1>4 DEF WInv, HearingTears, HeaderAndPayload, IInv, Types
<1>9. QED
  BY <1>7, <1>8 DEF WInv

(* A frame that is decoded while a payload is to be copied has torn it. *)
LEMMA FrameEndsStaysWhole ==
  ASSUME IInv, WInv, NEW s \in Stations, FrameEnds(s)
  PROVE  WInv'
<1> DEFINE h == Head(air[s])
<1>1. PICK good \in SUBSET {d \in Digis : hearing[d] = s} :
        /\ frame' = [d \in Digis |-> IF d \in good THEN h ELSE frame[d]]
        /\ torn' = [d \in Digis |-> torn[d] /\ ~(d \in good /\ pc[d] # "copy")]
        /\ hearing' = [d \in Digis |-> IF hearing[d] = s THEN None ELSE hearing[d]]
  BY DEF FrameEnds
<1>2. /\ UNCHANGED <<unsent, pc, msg>>
      /\ air[s] \in Seq(Frame) /\ air[s] # <<>> /\ air' = [air EXCEPT ![s] = Tail(@)]
  BY DEF FrameEnds, digi, IInv, Types
<1>3. 1 \in DOMAIN air[s] /\ h = air[s][1]
  BY <1>2, TailFacts
<1>4. Whole(h)
  BY <1>3 DEF WInv, Originals
<1> HIDE DEF h
<1>5. \A r \in Stations : \A i \in DOMAIN air'[r] :
        \E j \in DOMAIN air[r] : air'[r][i] = air[r][j]
  BY <1>2, TailFacts DEF IInv, Types
<1>6. Originals'
  BY <1>1, <1>2, <1>4, <1>5 DEF WInv, Originals, Whole, Original
<1>7. HearingTears'
  BY <1>1 DEF WInv, HearingTears
<1>8. HeaderAndPayload'
  <2>1. ASSUME NEW d \in Digis, pc[d] = "copy"
        PROVE  torn'[d] \/ (frame'[d].id = msg[d].id /\ frame'[d].info = frame'[d].id)
    <3>1. CASE d \in good
      <4>1. hearing[d] = s /\ s # None
        BY <1>1, <3>1, DigiConstants
      <4>2. torn'[d]
        BY <1>1, <2>1, <4>1 DEF WInv, HearingTears
      <4>3. QED
        BY <4>2
    <3>2. CASE d \notin good
      BY <1>1, <2>1, <3>2 DEF WInv, HeaderAndPayload
    <3>3. QED
      BY <3>1, <3>2
  <2>2. QED
    BY <1>2, <2>1 DEF WInv, HeaderAndPayload
<1>9. QED
  BY <1>6, <1>7, <1>8 DEF WInv

LEMMA WInvHolds == Spec => []WInv
<1>1. Init => WInv
  <2> SUFFICES ASSUME Init
               PROVE  WInv
    OBVIOUS
  <2>1. PICK F \in Traffic : unsent = F
    BY DEF Init
  <2>2. \A f \in unsent : f.info = f.id
    BY <2>1, DigiConstants
  <2>3. QED
    BY <2>2 DEF Init, WInv, Originals, Whole, HearingTears, HeaderAndPayload, All
<1>2. ASSUME IInv, WInv, [Next]_vars
      PROVE  WInv'
  <2>1. CASE UNCHANGED vars
    BY <1>2, <2>1, OriginalsKept DEF vars, channel, receiver, digi, WInv, HearingTears, HeaderAndPayload
  <2>2. QED
    BY <1>2, <2>1, WaitingStaysWhole, TakingStaysWhole, SendingStaysWhole, FrameEndsStaysWhole DEF Next, Main
<1>3. QED
  BY IInvHolds, <1>1, <1>2, PTL DEF Spec

(* The header and the payload that digi_process puts on the air are those   *)
(* of one frame, unless another one was on its way into the receiver before *)
(* the payload was copied.                                                  *)
THEOREM HeaderFitsPayload == Spec => WholeFrame
<1> DEFINE OfOneFrame == \A d \in Digis : GoesOnAir(d) =>
                     LET f == air'[d][Len(air'[d])] IN f.torn \/ f.info = f.id
<1>1. ASSUME IInv, WInv, [Next]_vars
      PROVE  [OfOneFrame]_vars
  <2> SUFFICES ASSUME Next, NEW d \in Digis, GoesOnAir(d)
               PROVE  LET f == air'[d][Len(air'[d])] IN f.torn \/ f.info = f.id
    BY <1>1
  <2>1. pc[d] = "send" /\ pc'[d] = "idle"
    BY DEF GoesOnAir
  <2>2. Repeats(d)
    BY <1>1, <2>1 DEF Next, Main, TrackerSends, Opens, Hears, Loses, FrameEnds, Tick, SendsOwn, SeesFrame,
       Unlock, Drops, Takes, StartsDelay, LeavesToViscous, DelayEnds, FindsFree, Repeats, Done, digi, IInv, Types
  <2>3. d \in Stations /\ air[d] \in Seq(Frame) /\ msg[d] \in Frame
    BY <1>1, <2>1, NoneIsNoDigi DEF IInv, Types, WorksOnFrame
  <2>4. air'[d] = Append(air[d], msg[d])
    BY <1>1, <2>2, <2>3 DEF Repeats, PutsOnAir, Sent, IInv, Types
  <2>5. air'[d][Len(air'[d])] = msg[d]
    BY <2>3, <2>4
  <2>6. msg[d].torn \/ msg[d].info = msg[d].id
    BY <1>1, <2>1 DEF WInv, HeaderAndPayload
  <2>7. QED
    BY <2>5, <2>6
<1>2. QED
  BY IInvHolds, WInvHolds, <1>1, PTL DEF Spec, WholeFrame
----------------------------------------------------------------------------
(* WaitsForKnown.  The main loop clears dcd when it sees a frame gone by,   *)
(* perhaps under the next one; a tick of the delay sets it again.           *)
HearsAir == \A d \in Digis : hearing[d] # None => air[hearing[d]] # <<>>

Looks(d) == pc[d] = "channel" \/ (pc[d] = "delay" /\ delayCnt[d] = 0)

CarrierSeen == \A d \in Digis : Looks(d) /\ Known(d) => dcd[d]

CInv == HearsAir /\ CarrierSeen

LEMMA HeadKept ==
  ASSUME NEW q \in Seq(Frame), NEW f \in Frame
  PROVE  Append(q, f) # <<>> /\ (q # <<>> => Head(Append(q, f)) = Head(q))
<1>1. Append(q, f) \in Seq(Frame) /\ Len(Append(q, f)) = Len(q) + 1
  OBVIOUS
<1>2. q # <<>> => Append(q, f)[1] = q[1]
  OBVIOUS
<1>3. QED
  BY <1>1, <1>2

(* The channel and the receivers as they were, the main loop no nearer to   *)
(* the air.                                                                 *)
LEMMA MainKeepsCarrier ==
  ASSUME CInv, UNCHANGED <<air, hearing>>,
         \A d \in Digis : Looks(d)' => Looks(d) /\ dcd'[d] = dcd[d]
  PROVE  CInv'
BY DEF CInv, HearsAir, CarrierSeen, Known

(* A station that keys its transmitter puts a frame behind those that are   *)
(* being heard.                                                             *)
LEMMA KeyingKeepsCarrier ==
  ASSUME IInv, CInv, NEW s \in Stations, NEW f \in Frame,
         air' = [air EXCEPT ![s] = Append(@, f)], UNCHANGED dcd,
         \A d \in Digis : hearing'[d] \in {hearing[d], None},
         \A d \in Digis : Looks(d)' => Looks(d)
  PROVE  CInv'
<1>1. /\ air \in [Stations -> Seq(Frame)]
      /\ \A d \in Digis : hearing[d] # None => hearing[d] \in Stations
  BY DEF IInv, Types
<1>2. \A r \in Stations : air[r] # <<>> => air'[r] # <<>> /\ Head(air'[r]) = Head(air[r])
  BY <1>1, HeadKept
<1>3. HearsAir'
  BY <1>1, <1>2 DEF CInv, HearsAir
<1>4. CarrierSeen'
  <2> SUFFICES ASSUME NEW d \in Digis, Looks(d)', Known(d)'
               PROVE  dcd[d]
    BY DEF CarrierSeen
  <2>1. hearing'[d] = hearing[d] /\ hearing[d] # None /\ Head(air'[hearing[d]]).known
    BY DEF Known
  <2>2. Known(d)
    BY <1>1, <1>2, <2>1 DEF CInv, HearsAir, Known
  <2>3. QED
    BY <2>2 DEF CInv, CarrierSeen
<1>5. QED
  BY <1>3, <1>4 DEF CInv

LEMMA CInvInductive ==
  ASSUME Preset > 0, IInv, TypeOK, CInv, [Next]_vars
  PROVE  CInv'
<1>1. CASE \E f \in unsent : TrackerSends(f)
  <2>1. PICK f \in unsent : TrackerSends(f)
    BY <1>1
  <2>2. f \in Frame /\ f.src \in Stations
    BY DigiConstants DEF IInv, Types, UnsentOnce, Stations
  <2>3. \A d \in Digis : Looks(d)' => Looks(d)
    BY <2>1 DEF TrackerSends, digi, Looks
  <2>4. QED
    BY <2>1, <2>2, <2>3, KeyingKeepsCarrier DEF TrackerSends, receiver
<1>2. CASE \E d \in Digis, s \in Stations : Opens(d, s) \/ Hears(d, s)
  <2>1. PICK d \in Digis, s \in Stations : Opens(d, s) \/ Hears(d, s)
    BY <1>2
  <2>2. air[s] # <<>> /\ hearing[d] = None /\ UNCHANGED <<air, mode, pc, msg>>
    BY <2>1 DEF Opens, Hears, channel, digi
  <2>3. hearing' = hearing \/ (hearing' = [hearing EXCEPT ![d] = s] /\ dcd'[d])
    <3>1. CASE Opens(d, s)
      BY <3>1 DEF Opens
    <3>2. CASE Hears(d, s)
      <4>1. hearing' = [hearing EXCEPT ![d] = s] /\ dcd' = [dcd EXCEPT ![d] = TRUE]
        BY <3>2 DEF Hears
      <4>2. dcd'[d] = TRUE
        BY <4>1 DEF TypeOK
      <4>3. QED
        BY <4>1, <4>2
    <3>3. QED
      BY <2>1, <3>1, <3>2
  <2>4. \A e \in Digis : e # d => hearing'[e] = hearing[e] /\ dcd'[e] = dcd[e]
    BY <2>1 DEF Opens, Hears, TypeOK, IInv, Types
  <2>5. HearsAir'
    BY <2>2, <2>3, <2>4 DEF CInv, HearsAir, IInv, Types
  <2>6. \A e \in Digis : Looks(e)' => Looks(e)
    BY <2>1 DEF Opens, Hears, digi, Looks
  <2>7. ASSUME NEW e \in Digis, Known(e)', Looks(e)'
        PROVE  dcd'[e]
    <3>1. CASE e # d
      BY <2>2, <2>4, <2>6, <2>7, <3>1 DEF CInv, CarrierSeen, Known
    <3>2. CASE e = d
      BY <2>2, <2>3, <2>7, <3>2 DEF Known
    <3>3. QED
      BY <3>1, <3>2
  <2>8. QED
    BY <2>5, <2>7 DEF CInv, CarrierSeen
<1>3. ASSUME NEW s \in Stations, FrameEnds(s)
      PROVE  CInv'
  <2>1. /\ \A r \in Stations : r # s => air'[r] = air[r]
        /\ \A d \in Digis : hearing[d] = s => hearing'[d] = None
        /\ \A d \in Digis : hearing[d] # s => hearing'[d] = hearing[d] /\ dcd'[d] = dcd[d]
    BY <1>3 DEF FrameEnds, IInv, Types, TypeOK
  <2>2. \A d \in Digis : Looks(d)' => Looks(d)
    BY <1>3 DEF FrameEnds, digi, Looks
  <2>3. QED
    BY <2>1, <2>2 DEF CInv, HearsAir, CarrierSeen, Known, IInv, Types
<1>4. CASE Tick
  <2>1. \A d \in Digis : Known(d)' => dcd'[d]
    BY <1>4 DEF Tick, Known, channel
  <2>2. QED
    BY <1>4, <2>1 DEF Tick, channel, CInv, HearsAir, CarrierSeen
<1>5. ASSUME NEW d \in Digis, SendsOwn(d)
      PROVE  CInv'
  <2> DEFINE g == [src |-> d, id |-> own, tracker |-> FALSE, long |-> FALSE, known |-> TRUE,
                   path |-> OwnPath, info |-> own, torn |-> FALSE]
  <2>1. g \in Frame /\ d \in Stations
    BY NoneIsNoDigi, DigiConstants DEF Frame, IInv, Types
  <2>2. air' = [air EXCEPT ![d] = Append(@, g)] /\ hearing' = [hearing EXCEPT ![d] = None]
    BY <1>5 DEF SendsOwn, PutsOnAir
  <2>3. UNCHANGED dcd /\ \A e \in Digis : Looks(e)' => Looks(e)
    BY <1>5 DEF SendsOwn, Looks
  <2> HIDE DEF g
  <2>4. QED
    BY <2>1, <2>2, <2>3, KeyingKeepsCarrier DEF IInv, Types
<1>6. ASSUME NEW d \in Digis, Repeats(d)
      PROVE  CInv'
  <2>1. msg[d] \in Frame /\ d \in Stations
    BY <1>6, NoneIsNoDigi DEF Repeats, IInv, Types, WorksOnFrame
  <2>2. air' = [air EXCEPT ![d] = Append(@, msg[d])] /\ hearing' = [hearing EXCEPT ![d] = None]
    BY <1>6 DEF Repeats, PutsOnAir, Sent
  <2>3. UNCHANGED dcd /\ \A e \in Digis : Looks(e)' => Looks(e)
    BY <1>6 DEF Repeats, Done, Looks, IInv, Types
  <2>4. QED
    BY <2>1, <2>2, <2>3, KeyingKeepsCarrier DEF IInv, Types
<1>7. ASSUME NEW d \in Digis, SeesFrame(d) \/ Unlock(d) \/ Drops(d) \/ Takes(d) \/ LeavesToViscous(d)
      PROVE  CInv'
  <2>1. UNCHANGED <<air, hearing, delayCnt>>
    BY <1>7 DEF SeesFrame, Unlock, Drops, Takes, LeavesToViscous, channel, receiver
  <2>2. \E p \in {"filter", "idle", "copy"} : pc' = [pc EXCEPT ![d] = p]
    BY <1>7 DEF SeesFrame, Unlock, Drops, Takes, LeavesToViscous, Done
  <2>3. \A e \in Digis : e # d => dcd'[e] = dcd[e]
    BY <1>7 DEF SeesFrame, Unlock, Drops, Takes, LeavesToViscous, receiver, TypeOK
  <2>4. \A e \in Digis : Looks(e)' => Looks(e) /\ dcd'[e] = dcd[e]
    BY <2>1, <2>2, <2>3 DEF Looks, IInv, Types
  <2>5. QED
    BY <2>1, <2>4, MainKeepsCarrier
<1>8. ASSUME NEW d \in Digis, StartsDelay(d) \/ DelayEnds(d)
      PROVE  CInv'
  <2>1. UNCHANGED <<air, hearing, dcd>>
    BY <1>8 DEF StartsDelay, DelayEnds, channel, receiver
  <2>2. \A e \in Digis : e # d => pc'[e] = pc[e] /\ delayCnt'[e] = delayCnt[e]
    BY <1>8 DEF StartsDelay, DelayEnds, TypeOK
  <2>3. Looks(d)' => Looks(d)
    BY <1>8, DigiConstants DEF StartsDelay, DelayEnds, FixedDelay, Looks, TypeOK
  <2>4. \A e \in Digis : Looks(e)' => Looks(e)
    BY <2>2, <2>3 DEF Looks
  <2>5. QED
    BY <2>1, <2>4, MainKeepsCarrier
<1>9. ASSUME NEW d \in Digis, FindsFree(d)
      PROVE  CInv'
  <2>1. UNCHANGED <<air, hearing, dcd>>
    BY <1>9 DEF FindsFree, channel, receiver
  <2>2. \A e \in Digis : Looks(e)' => Looks(e)
    BY <1>9 DEF FindsFree, Looks, IInv, Types
  <2>3. QED
    BY <2>1, <2>2, MainKeepsCarrier
<1>10. ASSUME NEW d \in Digis, Loses(d)
       PROVE  CInv'
  <2>1. /\ UNCHANGED <<air, pc, delayCnt>> /\ hearing'[d] = None
        /\ \A e \in Digis : e # d => hearing'[e] = hearing[e] /\ dcd'[e] = dcd[e]
    BY <1>10 DEF Loses, channel, digi, IInv, Types, TypeOK
  <2>2. QED
    BY <2>1 DEF CInv, HearsAir, CarrierSeen, Looks, Known
<1>11. CASE UNCHANGED vars
  BY <1>11, MainKeepsCarrier DEF vars, channel, receiver, digi, Looks
<1>12. QED
  BY <1>1, <1>2, <1>3, <1>4, <1>5, <1>6, <1>7, <1>8, <1>9, <1>10, <1>11 DEF Next, Main

(* With any delay at all before a repetition, digi_process never takes the  *)
(* channel for free at digi.c:232 while the receiver hears a frame that it  *)
(* knows by its destination, although main.c:647 clears dcd while such a    *)
(* frame may be coming in.  (A carrier that is detected between that line   *)
(* and afsk_txStart is transmitted over.)                                   *)
THEOREM ChannelAwaited ==
  ASSUME Preset > 0
  PROVE  Spec => WaitsForKnown
<1> DEFINE Awaited == \A d \in Digis : pc[d] = "channel" /\ pc'[d] = "send" => ~Known(d)
<1>1. Init => CInv
  BY DEF Init, CInv, HearsAir, CarrierSeen, Looks, All
<1>2. IInv /\ TypeOK /\ CInv /\ [Next]_vars => CInv'
  BY CInvInductive
<1>3. ASSUME IInv, CInv, [Next]_vars
      PROVE  [Awaited]_vars
  <2> SUFFICES ASSUME Next, NEW d \in Digis, pc[d] = "channel", pc'[d] = "send"
               PROVE  ~Known(d)
    BY <1>3
  <2>1. FindsFree(d)
    BY <1>3 DEF Next, Main, TrackerSends, Opens, Hears, Loses, FrameEnds, Tick, SendsOwn, SeesFrame,
       Unlock, Drops, Takes, StartsDelay, LeavesToViscous, DelayEnds, FindsFree, Repeats, Done,
       digi, IInv, Types
  <2>2. QED
    BY <1>3, <2>1 DEF FindsFree, CInv, CarrierSeen, Looks
<1>4. QED
  BY <1>1, <1>2, <1>3, IInvHolds, TypeCorrect, PTL DEF Spec, WaitsForKnown

----------------------------------------------------------------------------
(* digi_check_with_viscous aside, a message stands in digi_msg only while   *)
(* digi_process works on it: with digi_msg_len left behind, every later     *)
(* frame would be dropped for good.                                         *)
WaitsUnderWay ==
  \A d \in Digis :
    mode[d] \in {"ON_ALL", "ON_SSID"} /\ msg[d] # None => pc[d] \in {"copy", "delay", "channel", "send"}

(* A digipeater that is not viscous takes the next frame, whatever it has   *)
(* dropped, taken or repeated before and whatever came in meanwhile, for    *)
(* all modes and all traffic: what TakenIsRepeated needs besides a channel  *)
(* that gets free.                                                          *)
THEOREM NothingLeftWaiting == Spec => []WaitsUnderWay
<1>1. Init => WaitsUnderWay
  BY DEF Init, WaitsUnderWay, All
<1>2. IInv /\ WaitsUnderWay /\ [Next]_vars => WaitsUnderWay'
  <2> SUFFICES ASSUME IInv, WaitsUnderWay, [Next]_vars PROVE WaitsUnderWay'
    OBVIOUS
  <2> USE DEF WaitsUnderWay
  <2>t. DOMAIN pc = Digis /\ DOMAIN msg = Digis
    BY DEF IInv, Types
  <2>1. CASE \/ \E f \in unsent : TrackerSends(f)
             \/ \E d \in Digis, s \in Stations : Opens(d, s) \/ Hears(d, s)
             \/ \E d \in Digis : Loses(d)
             \/ \E s \in Stations : FrameEnds(s)
             \/ Tick
             \/ \E d \in Digis : SendsOwn(d)
             \/ UNCHANGED vars
    <3>1. UNCHANGED <<mode, pc, msg>>
      BY <2>1 DEF TrackerSends, Opens, Hears, Loses, FrameEnds, Tick, SendsOwn, digi, vars
    <3>2. QED
      BY <3>1
  <2>2. ASSUME NEW d \in Digis, SeesFrame(d) \/ Unlock(d) \/ Drops(d) PROVE WaitsUnderWay'
    BY <2>2, <2>t DEF SeesFrame, Unlock, Drops, Done
  <2>3. ASSUME NEW d \in Digis, Takes(d) PROVE WaitsUnderWay'
    BY <2>3, <2>t DEF Takes
  <2>4. ASSUME NEW d \in Digis, StartsDelay(d) \/ DelayEnds(d) \/ FindsFree(d) PROVE WaitsUnderWay'
    BY <2>4, <2>t DEF StartsDelay, DelayEnds, FindsFree
  <2>5. ASSUME NEW d \in Digis, LeavesToViscous(d) PROVE WaitsUnderWay'
    BY <2>5, <2>t DEF LeavesToViscous, Done
  <2>6. ASSUME NEW d \in Digis, Repeats(d) PROVE WaitsUnderWay'
    BY <2>6, <2>t DEF Repeats, Done, Cleared
  <2>7. QED
    BY <2>1, <2>2, <2>3, <2>4, <2>5, <2>6 DEF Next, Main
<1>3. QED
  BY <1>1, <1>2, IInvHolds, PTL DEF Spec

----------------------------------------------------------------------------
(* The bits of the channel *)

Masks == {1, 2, 4, 8, 16, 32, 64, 128}

(* The last bits heard are n ones with a zero before them. *)
OnesEnd(d, n) ==
  \/ n = 0 /\ d % 2 = 0
  \/ n = 1 /\ d % 4 = 1
  \/ n = 2 /\ d % 8 = 3
  \/ n = 3 /\ d % 16 = 7
  \/ n = 4 /\ d % 32 = 15
  \/ n = 5 /\ d % 64 = 31

Heard(m, b) == (2 * m + b) % 256

(* Up to five ones do not look like a flag or a reset with the bit behind   *)
(* them, and only behind five a zero is a stuffed one.                      *)
LEMMA ZeroBit ==
  ASSUME NEW m \in Byte, NEW n \in 0 .. 5, OnesEnd(m, n)
  PROVE  /\ Heard(m, 0) # FLAG /\ Heard(m, 0) % 128 # RESET
         /\ Stuffed(Heard(m, 0)) <=> n = 5
         /\ OnesEnd(Heard(m, 0), 0)
         /\ Heard(m, 0) % 2 = 0
<1>1. CASE n \in {0, 1, 2}
  BY <1>1 DEF Byte, OnesEnd, Heard, FLAG, RESET, Stuffed
<1>2. CASE n \in {3, 4}
  BY <1>2 DEF Byte, OnesEnd, Heard, FLAG, RESET, Stuffed
<1>3. CASE n = 5
  BY <1>3 DEF Byte, OnesEnd, Heard, FLAG, RESET, Stuffed
<1>4. QED
  BY <1>1, <1>2, <1>3

LEMMA OneBit ==
  ASSUME NEW m \in Byte, NEW n \in 0 .. 4, OnesEnd(m, n)
  PROVE  /\ Heard(m, 1) # FLAG /\ Heard(m, 1) % 128 # RESET
         /\ ~Stuffed(Heard(m, 1))
         /\ OnesEnd(Heard(m, 1), n + 1)
         /\ Heard(m, 1) % 2 = 1
<1>1. CASE n \in {0, 1}
  BY <1>1 DEF Byte, OnesEnd, Heard, FLAG, RESET, Stuffed
<1>2. CASE n \in {2, 3}
  BY <1>2 DEF Byte, OnesEnd, Heard, FLAG, RESET, Stuffed
<1>3. CASE n = 4
  BY <1>3 DEF Byte, OnesEnd, Heard, FLAG, RESET, Stuffed
<1>4. QED
  BY <1>1, <1>2, <1>3

(* A flag that has gone out up to the bit t. *)
FlagUpTo(m, t) == t \in Masks \ {1} /\ m % t = t \div 2 - 1

LEMMA FlagBegins ==
  ASSUME NEW m \in Byte
  PROVE  FlagUpTo(Heard(m, 0), 2)
BY DEF Byte, FlagUpTo, Masks, Heard

(* A flag is seen at its last bit and not before. *)
LEMMA FlagBit ==
  ASSUME NEW m \in Byte, NEW t \in Masks, FlagUpTo(m, t)
  PROVE  /\ t < 128 => /\ FlagUpTo(Heard(m, 1), 2 * t) /\ (FLAG \div t) % 2 = 1
                       /\ Heard(m, 1) # FLAG /\ Heard(m, 1) % 128 # RESET
                       /\ ~Stuffed(Heard(m, 1))
         /\ t = 128 => Heard(m, 0) = FLAG /\ (FLAG \div t) % 2 = 0
<1>1. CASE t \in {2, 4, 8}
  BY <1>1 DEF Byte, FlagUpTo, Masks, Heard, FLAG, RESET, Stuffed
<1>2. CASE t \in {16, 32}
  BY <1>2 DEF Byte, FlagUpTo, Masks, Heard, FLAG, RESET, Stuffed
<1>3. CASE t \in {64, 128}
  BY <1>3 DEF Byte, FlagUpTo, Masks, Heard, FLAG, RESET, Stuffed
<1>4. QED
  BY <1>1, <1>2, <1>3 DEF FlagUpTo, Masks

(* The mask of the k-th bit of a byte. *)
MaskIs(t, k) ==
  \/ k = 0 /\ t = 1
  \/ k = 1 /\ t = 2
  \/ k = 2 /\ t = 4
  \/ k = 3 /\ t = 8
  \/ k = 4 /\ t = 16
  \/ k = 5 /\ t = 32
  \/ k = 6 /\ t = 64
  \/ k = 7 /\ t = 128

(* What hdlc_parse has shifted in of the byte c before the bit of the mask t. *)
Shifted(c, t) == (c % t) * (128 \div t)

LEMMA NextMask ==
  ASSUME NEW t, NEW k \in 0 .. 7, MaskIs(t, k)
  PROVE  /\ t \in Masks /\ (k < 7 <=> t < 128)
         /\ k < 7 => MaskIs((2 * t) % 256, k + 1) /\ (2 * t) % 256 = 2 * t
         /\ k = 7 => (2 * t) % 256 = 0
<1>1. CASE k \in {0, 1, 2, 3}
  BY <1>1 DEF MaskIs, Masks
<1>2. CASE k \in {4, 5, 6, 7}
  BY <1>2 DEF MaskIs, Masks
<1>3. QED
  BY <1>1, <1>2

LEMMA BitShifted ==
  ASSUME NEW c \in Byte, NEW t \in Masks, NEW b \in Bit, b = (c \div t) % 2
  PROVE  /\ t < 128 => (Shifted(c, t) + 128 * b) \div 2 = Shifted(c, 2 * t)
         /\ t = 128 => Shifted(c, t) + 128 * b = c
<1>1. CASE t = 1
  BY <1>1 DEF Byte, Bit, Shifted
<1>2. CASE t = 2
  BY <1>2 DEF Byte, Bit, Shifted
<1>3. CASE t = 4
  BY <1>3 DEF Byte, Bit, Shifted
<1>4. CASE t = 8
  BY <1>4 DEF Byte, Bit, Shifted
<1>5. CASE t = 16
  BY <1>5 DEF Byte, Bit, Shifted
<1>6. CASE t = 32
  BY <1>6 DEF Byte, Bit, Shifted
<1>7. CASE t = 64
  BY <1>7 DEF Byte, Bit, Shifted
<1>8. CASE t = 128
  BY <1>8 DEF Byte, Bit, Shifted
<1>9. QED
  BY <1>1, <1>2, <1>3, <1>4, <1>5, <1>6, <1>7, <1>8 DEF Masks

Hdlc == [demod : Byte, rxstart : BOOLEAN, currchar : 0 .. 127, bitIdx : 0 .. 7,
         s : BOOLEAN, rawDcd : BOOLEAN]
Ax   == [buf : [0 .. BufLen - 1 -> Byte], len : 0 .. BufLen, sync : BOOLEAN, escape : BOOLEAN,
         dcd : BOOLEAN, dcdState : 0 .. 2, msg : BOOLEAN]
Item == [byte : Byte, escaped : BOOLEAN]

LinkTypeOK ==
  /\ fifo \in Seq(Item) /\ sending \in BOOLEAN /\ preamble \in Nat /\ trailer \in Nat
  /\ curr \in Byte /\ txBit \in Masks \cup {0} /\ bitStuff \in BOOLEAN /\ stuffCnt \in Nat
  /\ hdlc \in Hdlc /\ ax \in Ax
  /\ sent \in Seq(Frames) /\ heard \in Seq(Seq(Byte))
  /\ hit \in BOOLEAN /\ faded \in BOOLEAN /\ hits \in Nat

(* ax25_poll of each kind of byte. *)
LEMMA TakenOf ==
  ASSUME NEW a \in Ax, NEW c \in Byte
  PROVE  /\ ~a.escape /\ c = FLAG => Taken(a, c) = FlagTaken(a)
         /\ ~a.escape /\ c = RESET => Taken(a, c) = [a EXCEPT !.sync = FALSE, !.dcd = FALSE]
         /\ ~a.escape /\ c = ESC => Taken(a, c) = [a EXCEPT !.escape = TRUE]
         /\ (a.escape \/ c \notin Special) /\ a.sync /\ Fits(a) => Taken(a, c) = DataTaken(a, c)
         /\ (a.escape \/ c \notin Special) /\ a.sync /\ ~Fits(a) =>
              Taken(a, c) = [a EXCEPT !.escape = FALSE, !.sync = FALSE, !.dcd = FALSE]
         /\ (a.escape \/ c \notin Special) /\ ~a.sync => Taken(a, c) = [a EXCEPT !.escape = FALSE]
BY DEF Taken, Special, FLAG, RESET, ESC, Ax

LEMMA FlagTakenTyped ==
  ASSUME NEW a \in Ax
  PROVE  FlagTaken(a) \in Ax /\ FlagTaken(a).sync /\ FlagTaken(a).len = 0
         /\ FlagTaken(a).escape = a.escape /\ FlagTaken(a).dcd = FALSE
<1>1. (a.msg \/ Decoded(a)) \in BOOLEAN
  OBVIOUS
<1>2. FlagTaken(a) = [a EXCEPT !.sync = TRUE, !.len = 0, !.dcdState = 0, !.dcd = FALSE,
                               !.msg = (a.msg \/ Decoded(a))]
  BY DEF FlagTaken
<1>3. PICK new \in BOOLEAN :
        FlagTaken(a) = [a EXCEPT !.sync = TRUE, !.len = 0, !.dcdState = 0, !.dcd = FALSE,
                                 !.msg = new]
  BY <1>1, <1>2
<1>4. 0 \in 0 .. BufLen /\ 0 \in 0 .. 2
  BY LinkConstants
<1>5. FlagTaken(a) \in Ax
  BY <1>3, <1>4, Zenon DEF Ax
<1>6. /\ FlagTaken(a).sync = TRUE /\ FlagTaken(a).len = 0 /\ FlagTaken(a).escape = a.escape
      /\ FlagTaken(a).dcd = FALSE
  BY <1>3 DEF Ax
<1>7. QED
  BY <1>5, <1>6

LEMMA DataTakenTyped ==
  ASSUME NEW a \in Ax, NEW c \in Byte, Fits(a)
  PROVE  /\ DataTaken(a, c) \in Ax /\ ~DataTaken(a, c).escape
         /\ DataTaken(a, c).len = a.len + 1 /\ DataTaken(a, c).sync = a.sync
         /\ DataTaken(a, c).buf = [a.buf EXCEPT ![a.len] = c]
<1> DEFINE buf     == [a.buf EXCEPT ![a.len] = c]
           address == buf[SsidAt] = 96 /\ buf[0] = 130
           proto   == a.dcdState = 1 /\ c = PID
           state   == IF proto THEN 2 ELSE IF a.dcdState = 0 /\ c = UI THEN 1 ELSE a.dcdState
           after   == [a EXCEPT !.buf = buf, !.len = a.len + 1, !.escape = FALSE,
                                !.dcd = a.dcd \/ address \/ proto, !.dcdState = state]
<1>1. DataTaken(a, c) = after
  BY DEF DataTaken
<1>2. a.len \in 0 .. BufLen - 1 /\ a.len + 1 \in 0 .. BufLen
  BY LinkConstants DEF Fits, Ax
<1>3. buf \in [0 .. BufLen - 1 -> Byte]
  BY <1>2 DEF Ax
<1>4. state \in 0 .. 2
  BY DEF Ax
<1>5. (a.dcd \/ address \/ proto) \in BOOLEAN
  OBVIOUS
<1> HIDE DEF buf, address, proto, state
<1>6. after \in Ax /\ ~after.escape /\ after.len = a.len + 1 /\ after.sync = a.sync
      /\ after.buf = buf
  BY <1>2, <1>3, <1>4, <1>5 DEF Ax
<1>7. QED
  BY <1>1, <1>6 DEF buf

LEMMA TakenTyped ==
  ASSUME NEW a \in Ax, NEW c \in Byte
  PROVE  /\ Taken(a, c) \in Ax
         /\ (a.escape \/ c # ESC) => ~Taken(a, c).escape
<1>1. CASE (a.escape \/ c \notin Special) /\ a.sync /\ Fits(a)
  <2>1. Taken(a, c) = DataTaken(a, c)
    BY <1>1, TakenOf
  <2>2. QED
    BY <1>1, <2>1, DataTakenTyped
<1>2. CASE (a.escape \/ c \notin Special) /\ ~(a.sync /\ Fits(a))
  <2>1. \/ Taken(a, c) = [a EXCEPT !.escape = FALSE, !.sync = FALSE, !.dcd = FALSE]
        \/ Taken(a, c) = [a EXCEPT !.escape = FALSE]
    BY <1>2, TakenOf, a.sync \in BOOLEAN DEF Ax
  <2>2. QED
    BY <2>1 DEF Ax
<1>3. CASE ~a.escape /\ c = FLAG
  BY <1>3, TakenOf, FlagTakenTyped
<1>4. CASE ~a.escape /\ c \in {RESET, ESC}
  <2>1. \/ c # ESC /\ Taken(a, c) = [a EXCEPT !.sync = FALSE, !.dcd = FALSE]
        \/ c = ESC /\ Taken(a, c) = [a EXCEPT !.escape = TRUE]
    BY <1>4, TakenOf DEF RESET, ESC
  <2>2. QED
    BY <1>4, <2>1 DEF Ax
<1>5. QED
  BY <1>1, <1>2, <1>3, <1>4 DEF Special

LEMMA PollByteTyped ==
  ASSUME ax \in Ax, ~ax.escape, NEW c \in Byte, PollByte(c)
  PROVE  /\ ax' \in Ax /\ ~ax'.escape /\ heard' = heard
         /\ ax.sync /\ Fits(ax) => ax'.sync /\ ax'.len = ax.len + 1
                                  /\ ax'.buf = [ax.buf EXCEPT ![ax.len] = c]
<1>1. ESC \in Byte
  BY DEF ESC, Byte
<1>2. CASE c \notin Special
  <2>1. ax' = Taken(ax, c) /\ c # ESC /\ heard' = heard
    BY <1>2 DEF PollByte, Special
  <2>2. ax.sync /\ Fits(ax) => Taken(ax, c) = DataTaken(ax, c)
    BY <1>2, TakenOf
  <2>3. QED
    BY <2>1, <2>2, TakenTyped, DataTakenTyped
<1>3. CASE c \in Special
  <2> DEFINE escaped == [ax EXCEPT !.escape = TRUE]
  <2>1. Taken(ax, ESC) = escaped
    BY <1>1, TakenOf
  <2>2. /\ escaped \in Ax /\ escaped.escape /\ escaped.sync = ax.sync /\ escaped.buf = ax.buf
        /\ escaped.len = ax.len
    BY DEF Ax
  <2>3. ax' = Taken(escaped, c) /\ heard' = heard
    BY <1>3, <2>1 DEF PollByte
  <2> HIDE DEF escaped
  <2>4. Fits(escaped) <=> Fits(ax)
    BY <2>2 DEF Fits
  <2>5. ax.sync /\ Fits(ax) => Taken(escaped, c) = DataTaken(escaped, c)
    BY <2>2, <2>4, TakenOf
  <2>6. QED
    BY <2>2, <2>3, <2>4, <2>5, TakenTyped, DataTakenTyped
<1>4. QED
  BY <1>2, <1>3

LEMMA FunctionIsSeq ==
  ASSUME NEW S, NEW n \in Nat, NEW f \in [1 .. n -> S]
  PROVE  f \in Seq(S) /\ Len(f) = n
<1>1. f \in Seq(S)
  BY SeqDef
<1>2. QED
  BY <1>1, LenProperties

(* What ax25_poll hears is a sequence of bytes. *)
LEMMA ReceivedTyped ==
  ASSUME ax \in Ax
  PROVE  Received(ax) \in Seq(Byte) /\ Len(Received(ax)) = ax.len
<1>1. ax.len \in Nat /\ \A i \in 1 .. ax.len : ax.buf[i - 1] \in Byte
  BY LinkConstants DEF Ax
<1>2. QED
  BY <1>1, FunctionIsSeq DEF Received

(* A bit is parsed in one of five ways. *)
LEMMA HearIs ==
  ASSUME LinkTypeOK, NEW b \in Bit, Hear(b)
  PROVE  \E d \in Byte :
           /\ d = Heard(hdlc.demod, b)
           /\ ParseFlag(d) \/ ParseReset(d) \/ ParseSkipped(d) \/ ParseBit(d)
<1>1. Heard(hdlc.demod, b) \in Byte
  <2>1. hdlc.demod \in Byte
    BY DEF LinkTypeOK, Hdlc
  <2>2. QED
    BY <2>1 DEF Byte, Bit, Heard
<1>2. QED
  BY <1>1 DEF Hear, Heard

LEMMA CurrcharTyped ==
  ASSUME LinkTypeOK, NEW d \in Byte
  PROVE  Currchar(d) \in Byte /\ Currchar(d) \div 2 \in 0 .. 127
<1>1. hdlc.currchar \in 0 .. 127
  BY DEF LinkTypeOK, Hdlc
<1>2. QED
  BY <1>1 DEF Currchar, Byte

LEMMA ParseFlagIs ==
  ASSUME hdlc \in Hdlc, NEW d \in Byte, ParseFlag(d)
  PROVE  /\ hdlc' \in Hdlc /\ hdlc'.demod = d
         /\ hdlc'.rxstart /\ hdlc'.currchar = 0 /\ hdlc'.bitIdx = 0
<1>1. (hdlc.rawDcd /\ hdlc.s) \in BOOLEAN /\ 0 \in 0 .. 127 /\ 0 \in 0 .. 7
  OBVIOUS
<1>2. PICK on \in BOOLEAN, raw \in BOOLEAN, none \in 0 .. 127, first \in 0 .. 7 :
        /\ on = TRUE /\ none = 0 /\ first = 0
        /\ hdlc' = [hdlc EXCEPT !.demod = d, !.rxstart = on, !.currchar = none, !.bitIdx = first,
                                !.s = on, !.rawDcd = raw]
  BY <1>1 DEF ParseFlag
<1>3. /\ hdlc' \in Hdlc /\ hdlc'.demod = d /\ hdlc'.rxstart = on /\ hdlc'.currchar = none
      /\ hdlc'.bitIdx = first
  BY <1>2 DEF Hdlc
<1>4. QED
  BY <1>2, <1>3

LEMMA ByteEndsIs ==
  ASSUME hdlc \in Hdlc, NEW d \in Byte, ParseBit(d), hdlc.bitIdx = 7
  PROVE  /\ hdlc' \in Hdlc /\ hdlc'.demod = d
         /\ hdlc'.rxstart = hdlc.rxstart /\ hdlc'.currchar = 0 /\ hdlc'.bitIdx = 0
         /\ PollByte(Currchar(d))
<1>1. (hdlc.rawDcd \/ hdlc.s) \in BOOLEAN /\ 0 \in 0 .. 127 /\ 0 \in 0 .. 7
  OBVIOUS
<1>2. PollByte(Currchar(d)) /\ hdlc' = [hdlc EXCEPT !.demod = d, !.currchar = 0, !.bitIdx = 0,
                                !.s = FALSE, !.rawDcd = (@ \/ hdlc.s)]
  BY DEF ParseBit
<1>3. PICK off \in BOOLEAN, raw \in BOOLEAN, none \in 0 .. 127, first \in 0 .. 7 :
        /\ none = 0 /\ first = 0
        /\ hdlc' = [hdlc EXCEPT !.demod = d, !.currchar = none, !.bitIdx = first,
                                !.s = off, !.rawDcd = raw]
  BY <1>1, <1>2
<1>4. /\ hdlc' \in Hdlc /\ hdlc'.demod = d /\ hdlc'.rxstart = hdlc.rxstart
      /\ hdlc'.currchar = none /\ hdlc'.bitIdx = first
  BY <1>3 DEF Hdlc
<1>5. QED
  BY <1>2, <1>3, <1>4

(* Whatever is heard, the receiver keeps its types, and no escape is left   *)
(* from one bit to the next.                                                *)
LEMMA HearTyped ==
  ASSUME LinkTypeOK, ~ax.escape, NEW b \in Bit, Hear(b)
  PROVE  /\ hdlc' \in Hdlc /\ ax' \in Ax /\ ~ax'.escape /\ heard' \in Seq(Seq(Byte))
         /\ hdlc'.demod = Heard(hdlc.demod, b)
<1>1. PICK d \in Byte :
        /\ d = Heard(hdlc.demod, b)
        /\ ParseFlag(d) \/ ParseReset(d) \/ ParseSkipped(d) \/ ParseBit(d)
  BY HearIs
<1>2. hdlc \in Hdlc /\ ax \in Ax /\ heard \in Seq(Seq(Byte))
  BY DEF LinkTypeOK
<1>3. CASE ParseFlag(d)
  <2>1. hdlc' \in Hdlc /\ hdlc'.demod = d
    BY <1>2, <1>3, ParseFlagIs
  <2>2. FLAG \in Byte /\ ax' = FlagTaken(ax)
    BY <1>2, <1>3, TakenOf DEF ParseFlag, PollFlag, FLAG, Byte
  <2>3. heard' \in Seq(Seq(Byte))
    BY <1>2, <1>3, ReceivedTyped DEF ParseFlag, PollFlag
  <2>4. QED
    BY <1>1, <1>2, <2>1, <2>2, <2>3, FlagTakenTyped
<1>4. CASE ParseReset(d) \/ ParseSkipped(d)
  BY <1>1, <1>2, <1>4 DEF ParseReset, ParseSkipped, PollNothing, Hdlc
<1>5. CASE ParseBit(d) /\ hdlc.bitIdx < 7
  <2>1. hdlc' = [hdlc EXCEPT !.demod = d, !.currchar = Currchar(d) \div 2, !.bitIdx = @ + 1]
    BY <1>5 DEF ParseBit
  <2>2. hdlc.bitIdx + 1 \in 0 .. 7 /\ Currchar(d) \div 2 \in 0 .. 127
    BY <1>2, <1>5, CurrcharTyped DEF Hdlc
  <2>3. hdlc' \in Hdlc /\ hdlc'.demod = d
    BY <1>2, <2>1, <2>2 DEF Hdlc
  <2>4. QED
    BY <1>1, <1>2, <1>5, <2>3 DEF ParseBit, PollNothing
<1>6. CASE ParseBit(d) /\ hdlc.bitIdx = 7
  <2>1. hdlc' \in Hdlc /\ hdlc'.demod = d
    BY <1>2, <1>6, ByteEndsIs
  <2>2. PollByte(Currchar(d)) /\ Currchar(d) \in Byte
    BY <1>2, <1>6, ByteEndsIs, CurrcharTyped
  <2>3. QED
    BY <1>1, <1>2, <2>1, <2>2, PollByteTyped
<1>7. hdlc.bitIdx < 7 \/ hdlc.bitIdx = 7
  BY <1>2 DEF Hdlc
<1>8. QED
  BY <1>1, <1>3, <1>4, <1>5, <1>6, <1>7

LEMMA MaskDoubles == \A t \in Masks : (2 * t) % 256 \in Masks \cup {0}
<1>1. \A t \in {1, 2, 4, 8} : (2 * t) % 256 = 2 * t
  OBVIOUS
<1>2. \A t \in {16, 32, 64} : (2 * t) % 256 = 2 * t
  OBVIOUS
<1>3. (2 * 128) % 256 = 0
  OBVIOUS
<1>4. QED
  BY <1>1, <1>2, <1>3 DEF Masks

(* The sender. *)
LEMMA SendBitTyped ==
  ASSUME LinkTypeOK, NEW b \in Bit, SendBit(b)
  PROVE  /\ fifo' \in Seq(Item) /\ preamble' \in Nat /\ trailer' \in Nat /\ curr' \in Byte
         /\ txBit' \in Masks \cup {0} /\ bitStuff' \in BOOLEAN /\ stuffCnt' \in Nat
<1>1. FLAG \in Byte
  BY DEF FLAG, Byte
<1>2. /\ fifo \in Seq(Item) /\ preamble \in Nat /\ trailer \in Nat /\ curr \in Byte
      /\ txBit \in Masks \cup {0} /\ bitStuff \in BOOLEAN /\ stuffCnt \in Nat
  BY DEF LinkTypeOK
<1>3. NextByte => bitStuff' \in BOOLEAN
  <2>1. OnesStuffed(Head(fifo)) \in BOOLEAN
    BY DEF OnesStuffed
  <2>2. QED
    BY <2>1, Zenon DEF NextByte
<1>4. /\ fifo' \in Seq(Item) /\ preamble' \in Nat /\ trailer' \in Nat /\ curr' \in Byte
      /\ bitStuff' \in BOOLEAN
  <2>1. CASE txBit # 0
    BY <1>2, <2>1 DEF SendBit
  <2>2. CASE txBit = 0 /\ preamble > 0 /\ NextByte
    <3>1. /\ preamble' = preamble - 1 /\ fifo' = fifo /\ trailer' = trailer
          /\ curr' = FLAG
      BY <2>2 DEF NextByte
    <3>2. QED
      BY <1>1, <1>2, <1>3, <2>2, <3>1
  <2>3. CASE txBit = 0 /\ fifo = <<>> /\ trailer > 0 /\ preamble = 0 /\ NextByte
    <3>1. /\ trailer' = trailer - 1 /\ fifo' = fifo /\ preamble' = preamble
          /\ curr' = FLAG
      BY <2>3 DEF NextByte
    <3>2. QED
      BY <1>1, <1>2, <1>3, <2>3, <3>1
  <2>4. CASE txBit = 0 /\ fifo # <<>> /\ preamble = 0 /\ NextByte
    <3>1. Head(fifo) \in Item /\ Tail(fifo) \in Seq(Item)
      BY <1>2, <2>4, HeadTailProperties
    <3>2. /\ curr' = Head(fifo).byte /\ fifo' = Tail(fifo)
          /\ preamble' = preamble /\ trailer' = trailer
      BY <2>4 DEF NextByte
    <3>3. QED
      BY <1>2, <1>3, <2>4, <3>1, <3>2 DEF Item
  <2>5. QED
    BY <1>2, <2>1, <2>2, <2>3, <2>4 DEF SendBit
<1>5. txBit' \in Masks \cup {0} /\ stuffCnt' \in Nat
  <2> DEFINE mask  == IF txBit = 0 THEN 1 ELSE txBit
             count == IF txBit = 0 /\ ~bitStuff THEN 0 ELSE stuffCnt
  <2>1. \/ stuffCnt' = 0 /\ txBit' = mask
        \/ txBit' = (2 * mask) % 256 /\ stuffCnt' = (IF b = 1 THEN count + 1 ELSE 0)
    BY DEF SendBit
  <2>2. mask \in Masks /\ count \in Nat
    BY <1>2 DEF Masks
  <2> HIDE DEF mask, count
  <2>3. QED
    BY <2>1, <2>2, MaskDoubles
<1>6. QED
  BY <1>4, <1>5

LEMMA LinkTypeInit == LinkInit => LinkTypeOK
<1> SUFFICES ASSUME LinkInit PROVE LinkTypeOK
  OBVIOUS
<1>1. 0 \in Byte /\ 0 \in 0 .. BufLen
  BY LinkConstants DEF Byte
<1>2. hdlc \in Hdlc /\ ax \in Ax
  BY <1>1 DEF LinkInit, Hdlc, Ax
<1>3. /\ fifo \in Seq(Item) /\ sent \in Seq(Frames) /\ heard \in Seq(Seq(Byte))
  BY DEF LinkInit
<1>4. /\ sending \in BOOLEAN /\ preamble \in Nat /\ trailer \in Nat
      /\ curr \in Byte /\ txBit \in Masks \cup {0} /\ bitStuff \in BOOLEAN /\ stuffCnt \in Nat
      /\ hit \in BOOLEAN /\ faded \in BOOLEAN /\ hits \in Nat
  BY <1>1 DEF LinkInit
<1>5. QED
  BY <1>2, <1>3, <1>4 DEF LinkTypeOK

LEMMA LineTyped ==
  ASSUME LinkTypeOK, NEW b \in Bit, NEW got \in Bit, Clear(b, got) \/ Disturbed(b, got)
  PROVE  hit' \in BOOLEAN /\ faded' \in BOOLEAN /\ hits' \in Nat
<1>1. CASE Clear(b, got)
  BY <1>1 DEF LinkTypeOK, Clear, line
<1>2. CASE Disturbed(b, got)
  BY <1>2 DEF LinkTypeOK, Disturbed
<1>3. QED
  BY <1>1, <1>2

Quiet == ~ax.escape

LEMMA LinkTypeStep == LinkTypeOK /\ Quiet /\ [LinkNext]_linkVars => LinkTypeOK' /\ Quiet'
<1> SUFFICES ASSUME LinkTypeOK, Quiet, [LinkNext]_linkVars PROVE LinkTypeOK' /\ Quiet'
  OBVIOUS
<1> USE DEF LinkTypeOK, Quiet
<1>1. ASSUME NEW f \in Frames, PutFrame(f) PROVE LinkTypeOK' /\ Quiet'
  <2>1. fifo' \in Seq(Item)
    <3>1. Delimiter \in Item
      BY DEF Delimiter, Item, FLAG, Byte
    <3>2. \A c \in Byte : Data(c) \in Item
      BY DEF Data, Item
    <3>3. f \in Seq(Byte) /\ Len(f) \in Nat
      BY LinkConstants
    <3>4. [i \in 1 .. Len(f) |-> Data(f[i])] \in Seq(Item)
      BY <3>2, <3>3, FunctionIsSeq
    <3>5. QED
      BY <1>1, <3>1, <3>4 DEF PutFrame
  <2>2. QED
    BY <1>1, <2>1, LinkConstants, AppendProperties DEF PutFrame, rxvars
<1>2. CASE BitSent
  <2>1. PICK b \in Bit, got \in Bit :
          /\ SendBit(b) /\ (Clear(b, got) \/ Disturbed(b, got)) /\ Hear(got)
          /\ UNCHANGED <<main, sent>>
    BY <1>2 DEF BitSent
  <2>2. sending' = sending
    BY <2>1 DEF SendBit
  <2>3. QED
    BY <2>1, <2>2, SendBitTyped, LineTyped, HearTyped
<1>3. CASE TxStops
  BY <1>3 DEF TxStops, rxvars, line
<1>4. CASE BitOfSilence
  <2>1. PICK got \in Bit :
          /\ (Clear(1, got) \/ Disturbed(1, got)) /\ Hear(got)
          /\ UNCHANGED <<txvars, main, sent>>
    BY <1>4 DEF BitOfSilence
  <2>2. 1 \in Bit
    BY DEF Bit
  <2>3. QED
    BY <2>1, <2>2, LineTyped, HearTyped DEF txvars
<1>5. CASE Fade
  BY <1>5 DEF Fade, txvars, rxvars
<1>6. CASE MainSees
  BY <1>6 DEF MainSees, txvars, line, Ax
<1>7. CASE MainDone
  BY <1>7 DEF MainDone, txvars, line, Ax
<1>8. CASE UNCHANGED linkVars
  BY <1>8 DEF linkVars, txvars, rxvars, line
<1>9. QED
  BY <1>1, <1>2, <1>3, <1>4, <1>5, <1>6, <1>7, <1>8 DEF LinkNext

(* What the FIFO holds of a frame from its n-th element on: the flag that    *)
(* opens it, its bytes, the flag that closes it.                            *)
ItemAt(f, n) == IF n \in 1 .. Len(f) THEN Data(f[n]) ELSE Delimiter

LeftFrom(f, n) == [i \in 1 .. Len(f) + 2 - n |-> ItemAt(f, n + i - 1)]

LEMMA LeftWhole ==
  ASSUME NEW f \in Seq(Byte)
  PROVE  <<Delimiter>> \o [i \in 1 .. Len(f) |-> Data(f[i])] \o <<Delimiter>> = LeftFrom(f, 0)
<1> DEFINE data  == [i \in 1 .. Len(f) |-> Data(f[i])]
           whole == <<Delimiter>> \o data \o <<Delimiter>>
<1>1. Len(f) \in Nat
  OBVIOUS
<1>2. data \in Seq({Data(c) : c \in Byte}) /\ Len(data) = Len(f)
  <2>1. data \in [1 .. Len(f) -> {Data(c) : c \in Byte}]
    OBVIOUS
  <2>2. QED
    BY <1>1, <2>1, FunctionIsSeq
<1>3. \A i \in 1 .. Len(f) : data[i] = Data(f[i])
  OBVIOUS
<1> HIDE DEF data
<1>4. /\ whole \in Seq({Data(c) : c \in Byte} \cup {Delimiter}) /\ Len(whole) = Len(f) + 2
      /\ \A i \in 1 .. Len(f) + 2 :
           whole[i] = IF i = 1 \/ i = Len(f) + 2 THEN Delimiter ELSE data[i - 1]
  BY <1>1, <1>2
<1> HIDE DEF whole
<1>5. \A i \in 1 .. Len(f) + 2 : whole[i] = ItemAt(f, 0 + i - 1)
  BY <1>1, <1>3, <1>4 DEF ItemAt
<1>6. whole = [i \in 1 .. Len(f) + 2 |-> whole[i]]
  BY <1>1, <1>4
<1>7. whole = LeftFrom(f, 0)
  BY <1>1, <1>5, <1>6 DEF LeftFrom
<1>8. QED
  BY <1>7 DEF whole, data

LEMMA LeftTail ==
  ASSUME NEW f \in Seq(Byte), NEW n \in 0 .. Len(f) + 1
  PROVE  /\ LeftFrom(f, n) # <<>> /\ Head(LeftFrom(f, n)) = ItemAt(f, n)
         /\ Tail(LeftFrom(f, n)) = LeftFrom(f, n + 1)
<1> DEFINE left == LeftFrom(f, n)
<1>1. Len(f) \in Nat /\ Len(f) + 2 - n \in Nat \ {0}
  OBVIOUS
<1>2. left \in Seq({ItemAt(f, m) : m \in 0 .. Len(f) + 1}) /\ Len(left) = Len(f) + 2 - n
  <2>1. left \in [1 .. Len(f) + 2 - n -> {ItemAt(f, m) : m \in 0 .. Len(f) + 1}]
    <3>1. \A i \in 1 .. Len(f) + 2 - n : n + i - 1 \in 0 .. Len(f) + 1
      BY <1>1
    <3>2. QED
      BY <3>1 DEF LeftFrom
  <2>2. QED
    BY <1>1, <2>1, FunctionIsSeq
<1>3. \A i \in 1 .. Len(f) + 2 - n : left[i] = ItemAt(f, n + i - 1)
  BY DEF LeftFrom
<1> HIDE DEF left
<1>4. left # <<>> /\ Head(left) = ItemAt(f, n)
  BY <1>1, <1>2, <1>3
<1>5. /\ Tail(left) \in Seq({ItemAt(f, m) : m \in 0 .. Len(f) + 1})
      /\ Len(Tail(left)) = Len(f) + 2 - (n + 1)
      /\ \A i \in 1 .. Len(f) + 2 - (n + 1) : Tail(left)[i] = left[i + 1]
  BY <1>1, <1>2, <1>4, HeadTailProperties
<1>6. \A i \in 1 .. Len(f) + 2 - (n + 1) : left[i + 1] = ItemAt(f, n + 1 + i - 1)
  BY <1>1, <1>3
<1>7. Tail(left) = LeftFrom(f, n + 1)
  <2> DEFINE tail == Tail(left)
  <2>1. tail \in Seq({ItemAt(f, m) : m \in 0 .. Len(f) + 1}) /\ Len(tail) = Len(f) + 2 - (n + 1)
    BY <1>5
  <2>2. \A i \in 1 .. Len(f) + 2 - (n + 1) : tail[i] = ItemAt(f, n + 1 + i - 1)
    BY <1>5, <1>6
  <2> HIDE DEF tail
  <2>3. tail = [i \in 1 .. Len(f) + 2 - (n + 1) |-> tail[i]]
    BY <2>1
  <2>4. tail = LeftFrom(f, n + 1)
    BY <2>2, <2>3 DEF LeftFrom
  <2>5. QED
    BY <2>4 DEF tail
<1>8. QED
  BY <1>4, <1>7 DEF left

LEMMA NothingLeft ==
  ASSUME NEW f \in Seq(Byte), NEW n \in Nat
  PROVE  LeftFrom(f, n) = <<>> <=> n >= Len(f) + 2
<1>1. Len(f) \in Nat
  OBVIOUS
<1>2. CASE n >= Len(f) + 2
  BY <1>1, <1>2 DEF LeftFrom
<1>3. CASE n < Len(f) + 2
  BY <1>1, <1>3, LeftTail
<1>4. QED
  BY <1>1, <1>2, <1>3

(* The receiver is in the frame f and has n bytes of it. *)
Receiving(f, n) ==
  hdlc.rxstart /\ ax.sync /\ ax.len = n /\ \A i \in 1 .. n : ax.buf[i - 1] = f[i]

(* A flag goes out, and the receiver has heard it so far. *)
FlagGoesOut ==
  /\ txBit # 0 /\ curr = FLAG /\ ~bitStuff
  /\ FlagUpTo(hdlc.demod, txBit)

(* The flags before the frame: whatever the receiver makes of them, the last *)
(* one begins a frame.                                                      *)
Opening(f) ==
  \/ fifo = LeftFrom(f, 0) /\ (txBit = 0 \/ FlagGoesOut)
  \/ fifo = LeftFrom(f, 1) /\ preamble = 0 /\ FlagGoesOut

OnesCounted == stuffCnt \in 0 .. 5 /\ OnesEnd(hdlc.demod, stuffCnt)

(* Between two bytes, n of them received. *)
Between(f, n) ==
  /\ txBit = 0 /\ fifo = LeftFrom(f, n + 1) /\ preamble = 0
  /\ Receiving(f, n) /\ hdlc.bitIdx = 0 /\ hdlc.currchar = 0
  /\ OnesCounted /\ (bitStuff \/ stuffCnt = 0)

(* Within the n-th byte. *)
InByte(f, n) ==
  /\ MaskIs(txBit, hdlc.bitIdx) /\ fifo = LeftFrom(f, n + 1) /\ preamble = 0
  /\ curr = f[n] /\ bitStuff /\ Receiving(f, n - 1)
  /\ hdlc.currchar = Shifted(curr, txBit) /\ OnesCounted

(* In a flag the receiver counts fewer than eight bits, since the first one *)
(* may look like a stuffed one.                                             *)
FlagBits ==
  FlagGoesOut /\ (MaskIs(txBit, hdlc.bitIdx) \/ MaskIs(txBit, hdlc.bitIdx + 1))

Closing(f) == fifo = <<>> /\ preamble = 0 /\ FlagBits /\ Receiving(f, Len(f))

(* The frame is heard, and only flags go out. *)
Closed(f) ==
  /\ fifo = <<>> /\ preamble = 0 /\ heard # <<>> /\ Last(heard) = f
  /\ hdlc.rxstart /\ ax.len = 0
  /\ FlagBits \/ (txBit = 0 /\ hdlc.bitIdx = 0 /\ OnesEnd(hdlc.demod, 0))

InFrame(f) ==
  \/ Opening(f) \/ Closing(f) \/ Closed(f)
  \/ \E n \in 0 .. Len(f) : Between(f, n)
  \/ \E n \in 1 .. Len(f) : InByte(f, n)

Latest(f) == sent # <<>> /\ f = sent[Len(sent)]

OnItsWay(f) == IF sending THEN InFrame(f) ELSE heard # <<>> /\ Last(heard) = f

(* The frame put last, as long as the line was not disturbed, is on its way *)
(* or heard.                                                                *)
Promise == \A f \in Seq(Byte) : Latest(f) /\ ~hit /\ FrameFits(f) => OnItsWay(f)

SenderRests ==
  /\ faded => hit
  /\ ~sending => txBit = 0
  /\ sending => sent # <<>>

LinkInv == LinkTypeOK /\ Quiet /\ SenderRests /\ Promise

LEMMA ZeroSentIsZero == (FLAG \div 1) % 2 = 0
BY DEF FLAG

(* AFSK_DAC_ISR where no ones are stuffed. *)
LEMMA BitOfFlag ==
  ASSUME LinkTypeOK, NEW b \in Bit, SendBit(b), ~bitStuff', curr' = FLAG
  PROVE  /\ txBit = 0 => b = 0 /\ txBit' = 2
         /\ txBit # 0 => b = (FLAG \div txBit) % 2 /\ txBit' = (2 * txBit) % 256
         /\ b = 0 => stuffCnt' = 0
<1> DEFINE mask == IF txBit = 0 THEN 1 ELSE txBit
<1>1. /\ b = (FLAG \div mask) % 2 /\ txBit' = (2 * mask) % 256
      /\ b = 0 => stuffCnt' = 0
  BY DEF SendBit
<1>2. txBit = 0 => mask = 1
  OBVIOUS
<1>3. txBit # 0 => mask = txBit
  OBVIOUS
<1> HIDE DEF mask
<1>4. (2 * 1) % 256 = 2
  OBVIOUS
<1>5. QED
  BY <1>1, <1>2, <1>3, <1>4, ZeroSentIsZero

(* What is heard is parsed in the one way its last bits say. *)
LEMMA HeardAs ==
  ASSUME LinkTypeOK, NEW b \in Bit, Hear(b)
  PROVE  LET d == Heard(hdlc.demod, b) IN
         /\ d \in Byte
         /\ d = FLAG => ParseFlag(d)
         /\ d # FLAG /\ d % 128 # RESET /\ hdlc.rxstart =>
              IF Stuffed(d) THEN ParseSkipped(d) ELSE ParseBit(d)
<1>1. PICK d \in Byte :
        /\ d = Heard(hdlc.demod, b)
        /\ ParseFlag(d) \/ ParseReset(d) \/ ParseSkipped(d) \/ ParseBit(d)
  BY HearIs
<1>2. FLAG % 128 # RESET
  BY DEF FLAG, RESET
<1>3. QED
  BY <1>1, <1>2 DEF ParseFlag, ParseReset, ParseSkipped, ParseBit

(* A flag that begins is heard from its first bit on. *)
LEMMA FlagStarts ==
  ASSUME LinkTypeOK, Quiet, NEW b \in Bit, SendBit(b), Hear(b), txBit = 0, curr' = FLAG, ~bitStuff'
  PROVE  FlagGoesOut' /\ b = 0 /\ txBit' = 2
<1>1. b = 0 /\ txBit' = 2
  BY BitOfFlag
<1>2. hdlc'.demod = Heard(hdlc.demod, 0) /\ hdlc.demod \in Byte
  BY <1>1, HearTyped DEF LinkTypeOK, Quiet, Hdlc
<1>3. QED
  BY <1>1, <1>2, FlagBegins DEF FlagGoesOut

(* A flag that goes on is not taken for anything until its last bit.        *)
LEMMA FlagGoesOn ==
  ASSUME LinkTypeOK, Quiet, NEW b \in Bit, SendBit(b), Hear(b), FlagGoesOut
  PROVE  /\ UNCHANGED <<fifo, preamble, trailer, curr, bitStuff>>
         /\ txBit < 128 => /\ FlagGoesOut' /\ txBit' = 2 * txBit
                           /\ hdlc.rxstart => ParseBit(Heard(hdlc.demod, b))
         /\ txBit = 128 => /\ txBit' = 0 /\ stuffCnt' = 0
                           /\ ParseFlag(FLAG)
<1>1. /\ txBit # 0 /\ curr = FLAG /\ ~bitStuff /\ FlagUpTo(hdlc.demod, txBit)
      /\ txBit \in Masks \ {1} /\ hdlc.demod \in Byte
  BY DEF FlagGoesOut, FlagUpTo, LinkTypeOK, Hdlc
<1>2. UNCHANGED <<fifo, preamble, trailer, curr, bitStuff>>
  BY <1>1 DEF SendBit
<1>3. b = (FLAG \div txBit) % 2 /\ txBit' = (2 * txBit) % 256 /\ (b = 0 => stuffCnt' = 0)
  BY <1>1, <1>2, BitOfFlag
<1>4. hdlc'.demod = Heard(hdlc.demod, b)
  BY HearTyped DEF Quiet
<1>5. CASE txBit < 128
  <2>1. b = 1 /\ FlagUpTo(Heard(hdlc.demod, 1), 2 * txBit)
    BY <1>1, <1>3, <1>5, FlagBit
  <2>2. (2 * txBit) % 256 = 2 * txBit /\ 2 * txBit # 0
    BY <1>1, <1>5 DEF Masks
  <2>3. FlagGoesOut'
    BY <1>1, <1>2, <1>3, <1>4, <2>1, <2>2 DEF FlagGoesOut
  <2>4. hdlc.rxstart => ParseBit(Heard(hdlc.demod, b))
    BY <1>1, <1>5, <2>1, FlagBit, HeardAs
  <2>5. QED
    BY <1>2, <1>3, <1>5, <2>2, <2>3, <2>4
<1>6. CASE txBit = 128
  <2>1. b = 0 /\ Heard(hdlc.demod, 0) = FLAG
    BY <1>1, <1>3, <1>6, FlagBit
  <2>2. (2 * 128) % 256 = 0
    OBVIOUS
  <2>3. QED
    BY <1>2, <1>3, <1>6, <2>1, <2>2, HeardAs
<1>7. txBit < 128 \/ txBit = 128
  BY <1>1 DEF Masks
<1>8. QED
  BY <1>5, <1>6, <1>7, <1>2

(* The flag at the end of which the receiver begins a frame. *)
LEMMA FrameBegins ==
  ASSUME LinkTypeOK, Quiet, ParseFlag(FLAG), NEW f
  PROVE  /\ Receiving(f, 0)' /\ hdlc'.bitIdx = 0 /\ hdlc'.currchar = 0
         /\ OnesEnd(hdlc'.demod, 0)
         /\ heard' = IF GoodFrame(ax) THEN Append(heard, Received(ax)) ELSE heard
<1>1. FLAG \in Byte /\ FLAG % 2 = 0
  BY DEF FLAG, Byte
<1>2. /\ hdlc'.demod = FLAG
      /\ hdlc'.rxstart /\ hdlc'.currchar = 0 /\ hdlc'.bitIdx = 0
  BY <1>1, ParseFlagIs DEF LinkTypeOK
<1>3. ax' = FlagTaken(ax)
  BY <1>1, TakenOf DEF ParseFlag, PollFlag, LinkTypeOK, Quiet
<1>4. ax'.sync /\ ax'.len = 0
  BY <1>3, FlagTakenTyped DEF LinkTypeOK
<1>5. heard' = IF GoodFrame(ax) THEN Append(heard, Received(ax)) ELSE heard
  BY DEF ParseFlag, PollFlag
<1>6. QED
  BY <1>1, <1>2, <1>4, <1>5 DEF Receiving, OnesEnd

LEMMA OpeningStep ==
  ASSUME LinkTypeOK, Quiet, NEW f \in Seq(Byte), Opening(f), NEW b \in Bit, SendBit(b), Hear(b)
  PROVE  Opening(f)' \/ Between(f, 0)'
<1>1. CASE FlagGoesOut /\ txBit < 128
  BY <1>1, FlagGoesOn DEF Opening, FlagGoesOut
<1>2. CASE FlagGoesOut /\ txBit = 128
  <2>1. UNCHANGED <<fifo, preamble>> /\ txBit' = 0 /\ stuffCnt' = 0 /\ ParseFlag(FLAG)
    BY <1>2, FlagGoesOn
  <2>2. CASE fifo = LeftFrom(f, 0)
    BY <2>1, <2>2 DEF Opening
  <2>3. CASE fifo = LeftFrom(f, 1) /\ preamble = 0
    BY <2>1, <2>3, FrameBegins DEF Between, OnesCounted
  <2>4. QED
    BY <2>2, <2>3 DEF Opening
<1>3. CASE txBit = 0 /\ fifo = LeftFrom(f, 0)
  <2>1. NextByte /\ 0 \in 0 .. Len(f) + 1
    BY <1>3 DEF SendBit
  <2>2. fifo # <<>> /\ Head(fifo) = Delimiter /\ Tail(fifo) = LeftFrom(f, 1)
    BY <1>3, <2>1, LeftTail DEF ItemAt
  <2>3. ~OnesStuffed(Delimiter) /\ Delimiter.byte = FLAG
    BY DEF OnesStuffed, Delimiter
  <2>4. /\ curr' = FLAG /\ ~bitStuff'
        /\ \/ fifo' = LeftFrom(f, 0)
           \/ fifo' = LeftFrom(f, 1) /\ preamble' = 0
    BY <1>3, <2>1, <2>2, <2>3 DEF NextByte
  <2>5. FlagGoesOut'
    BY <1>3, <2>4, FlagStarts
  <2>6. QED
    BY <2>4, <2>5 DEF Opening
<1>4. FlagGoesOut => txBit < 128 \/ txBit = 128
  BY DEF FlagGoesOut, FlagUpTo, Masks
<1>5. QED
  BY <1>1, <1>2, <1>3, <1>4 DEF Opening

(* AFSK_DAC_ISR where ones are counted: the sender and the receiver count    *)
(* the same ones.                                                           *)
LEMMA BitCounted ==
  ASSUME LinkTypeOK, Quiet, NEW b \in Bit, SendBit(b), Hear(b),
         hdlc.rxstart, bitStuff', OnesCounted,
         txBit = 0 => bitStuff \/ stuffCnt = 0,
         NEW m, m = IF txBit = 0 THEN 1 ELSE txBit
  PROVE  LET d == Heard(hdlc.demod, b) IN
         /\ OnesCounted' /\ d \in Byte /\ d % 2 = b
         /\ stuffCnt = 5 => txBit' = m /\ ParseSkipped(d)
         /\ stuffCnt < 5 => b = (curr' \div m) % 2 /\ txBit' = (2 * m) % 256 /\ ParseBit(d)
<1> DEFINE d == Heard(hdlc.demod, b)
<1>1. stuffCnt \in 0 .. 5 /\ OnesEnd(hdlc.demod, stuffCnt) /\ hdlc.demod \in Byte
  BY DEF OnesCounted, LinkTypeOK, Hdlc
<1>2. /\ stuffCnt = 5 => b = 0 /\ stuffCnt' = 0 /\ txBit' = m
      /\ stuffCnt < 5 => /\ b = (curr' \div m) % 2 /\ txBit' = (2 * m) % 256
                         /\ stuffCnt' = IF b = 1 THEN stuffCnt + 1 ELSE 0
  <2>1. (IF txBit = 0 /\ ~bitStuff THEN 0 ELSE stuffCnt) = stuffCnt
    OBVIOUS
  <2>2. FifthOne(stuffCnt) <=> stuffCnt = 5
    BY <1>1 DEF FifthOne
  <2>3. \/ FifthOne(stuffCnt) /\ b = 0 /\ stuffCnt' = 0 /\ txBit' = m
        \/ /\ ~FifthOne(stuffCnt) /\ b = (curr' \div m) % 2 /\ txBit' = (2 * m) % 256
           /\ stuffCnt' = IF b = 1 THEN stuffCnt + 1 ELSE 0
    BY <2>1 DEF SendBit
  <2>4. QED
    BY <1>1, <2>2, <2>3
<1>3. /\ d \in Byte /\ hdlc'.demod = d
      /\ d # FLAG /\ d % 128 # RESET => IF Stuffed(d) THEN ParseSkipped(d) ELSE ParseBit(d)
  BY HeardAs, HearTyped DEF Quiet
<1>4. CASE b = 0
  <2>1. /\ d # FLAG /\ d % 128 # RESET /\ OnesEnd(d, 0) /\ d % 2 = 0
        /\ Stuffed(d) <=> stuffCnt = 5
    BY <1>1, <1>4, ZeroBit
  <2>2. stuffCnt' = 0
    BY <1>1, <1>2, <1>4
  <2> HIDE DEF d
  <2>3. OnesCounted'
    BY <1>3, <2>1, <2>2 DEF OnesCounted
  <2>4. QED
    BY <1>2, <1>3, <1>4, <2>1, <2>3 DEF d
<1>5. CASE b = 1
  <2>1. stuffCnt \in 0 .. 4 /\ stuffCnt' = stuffCnt + 1
    BY <1>1, <1>2, <1>5
  <2>2. /\ d # FLAG /\ d % 128 # RESET /\ OnesEnd(d, stuffCnt + 1) /\ d % 2 = 1
        /\ ~Stuffed(d)
    BY <1>1, <1>5, <2>1, OneBit
  <2> HIDE DEF d
  <2>3. OnesCounted'
    BY <1>3, <2>1, <2>2 DEF OnesCounted
  <2>4. QED
    BY <1>2, <1>3, <1>5, <2>1, <2>2, <2>3 DEF d
<1>6. QED
  BY <1>4, <1>5 DEF Bit

(* A bit of a byte, the first one and the last one included.                *)
LEMMA ByteStep ==
  ASSUME LinkTypeOK, Quiet, NEW f \in Seq(Byte), FrameFits(f), NEW n \in 1 .. Len(f),
         NEW b \in Bit, SendBit(b), Hear(b), OnesCounted, txBit = 0 => bitStuff \/ stuffCnt = 0,
         NEW m, m = IF txBit = 0 THEN 1 ELSE txBit,
         MaskIs(m, hdlc.bitIdx), hdlc.currchar = Shifted(f[n], m), Receiving(f, n - 1),
         bitStuff', curr' = f[n], fifo' = LeftFrom(f, n + 1), preamble' = 0
  PROVE  InByte(f, n)' \/ Between(f, n)'
<1> DEFINE d == Heard(hdlc.demod, b)
<1>1. hdlc.rxstart
  BY DEF Receiving
<1>2. /\ OnesCounted' /\ d \in Byte /\ d % 2 = b
      /\ stuffCnt = 5 => txBit' = m /\ ParseSkipped(d)
      /\ stuffCnt < 5 => b = (curr' \div m) % 2 /\ txBit' = (2 * m) % 256 /\ ParseBit(d)
  BY <1>1, BitCounted
<1> HIDE DEF d
<1>3. hdlc \in Hdlc /\ ax \in Ax /\ hdlc.bitIdx \in 0 .. 7
  BY DEF LinkTypeOK, Hdlc
<1>4. m \in Masks /\ (hdlc.bitIdx < 7 <=> m < 128)
  BY <1>3, NextMask
<1>5. CASE stuffCnt = 5
  <2>1. hdlc' = [hdlc EXCEPT !.demod = d] /\ ax' = ax
    BY <1>2, <1>5 DEF ParseSkipped, PollNothing
  <2>2. /\ hdlc'.rxstart = hdlc.rxstart /\ hdlc'.bitIdx = hdlc.bitIdx
        /\ hdlc'.currchar = hdlc.currchar
    BY <1>3, <2>1 DEF Hdlc
  <2>3. Receiving(f, n - 1)'
    BY <2>1, <2>2 DEF Receiving
  <2>4. InByte(f, n)'
    BY <1>2, <1>5, <2>2, <2>3 DEF InByte
  <2>5. QED
    BY <2>4
<1>6. CASE stuffCnt < 5 /\ m < 128
  <2>1. hdlc.bitIdx < 7 /\ ParseBit(d)
    BY <1>2, <1>4, <1>6
  <2>2. /\ hdlc' = [hdlc EXCEPT !.demod = d, !.currchar = Currchar(d) \div 2, !.bitIdx = @ + 1]
        /\ ax' = ax
    BY <1>3, <2>1 DEF ParseBit, PollNothing
  <2>3. /\ hdlc'.rxstart = hdlc.rxstart /\ hdlc'.bitIdx = hdlc.bitIdx + 1
        /\ hdlc'.currchar = Currchar(d) \div 2
    BY <1>3, <2>2 DEF Hdlc
  <2>4. Currchar(d) = Shifted(f[n], m) + 128 * b
    BY <1>2 DEF Currchar
  <2>5. f[n] \in Byte /\ b = (f[n] \div m) % 2
    BY <1>2, <1>6
  <2>6. Currchar(d) \div 2 = Shifted(f[n], 2 * m)
    BY <1>4, <1>6, <2>4, <2>5, BitShifted
  <2>7. MaskIs(txBit', hdlc'.bitIdx) /\ txBit' = 2 * m
    BY <1>2, <1>3, <1>6, <2>1, <2>3, NextMask
  <2>8. Receiving(f, n - 1)'
    BY <2>2, <2>3 DEF Receiving
  <2>9. InByte(f, n)'
    BY <1>2, <2>3, <2>6, <2>7, <2>8 DEF InByte
  <2>10. QED
    BY <2>9
<1>7. CASE stuffCnt < 5 /\ m = 128
  <2>1. hdlc.bitIdx = 7 /\ ParseBit(d)
    BY <1>2, <1>3, <1>4, <1>7
  <2>2. /\ hdlc'.rxstart = hdlc.rxstart /\ hdlc'.currchar = 0 /\ hdlc'.bitIdx = 0
        /\ PollByte(Currchar(d))
    BY <1>2, <1>3, <2>1, ByteEndsIs
  <2>3. Currchar(d) = Shifted(f[n], m) + 128 * b
    BY <1>2 DEF Currchar
  <2>4. f[n] \in Byte /\ b = (f[n] \div m) % 2
    BY <1>2, <1>7
  <2>5. Currchar(d) = f[n]
    BY <1>4, <1>7, <2>3, <2>4, BitShifted
  <2>6. ax.sync /\ ax.len = n - 1 /\ \A i \in 1 .. n - 1 : ax.buf[i - 1] = f[i]
    BY DEF Receiving
  <2>7. Fits(ax) /\ n - 1 \in 0 .. BufLen - 1 /\ n \in Nat
    BY <2>6, LinkConstants DEF Fits, FrameFits
  <2>8. ax'.sync /\ ax'.len = n /\ ax'.buf = [ax.buf EXCEPT ![n - 1] = f[n]]
    BY <1>3, <2>2, <2>4, <2>5, <2>6, <2>7, PollByteTyped DEF Quiet
  <2>9. \A i \in 1 .. n : ax'.buf[i - 1] = f[i]
    <3>1. ax.buf \in [0 .. BufLen - 1 -> Byte]
      BY <1>3 DEF Ax
    <3>2. SUFFICES ASSUME NEW i \in 1 .. n PROVE ax'.buf[i - 1] = f[i]
      OBVIOUS
    <3>3. i \in Nat /\ i - 1 \in 0 .. BufLen - 1 /\ (i = n \/ (i \in 1 .. n - 1 /\ i - 1 # n - 1))
      BY <2>7, LinkConstants
    <3>4. CASE i = n
      BY <2>7, <2>8, <3>1, <3>4
    <3>5. CASE i \in 1 .. n - 1 /\ i - 1 # n - 1
      <4>1. ax'.buf[i - 1] = ax.buf[i - 1]
        BY <2>8, <3>1, <3>3, <3>5
      <4>2. QED
        BY <2>6, <3>5, <4>1
    <3>6. QED
      BY <3>3, <3>4, <3>5
  <2>10. Receiving(f, n)'
    BY <1>1, <2>2, <2>8, <2>9 DEF Receiving
  <2>11. txBit' = 0
    <3>1. (2 * 128) % 256 = 0
      OBVIOUS
    <3>2. QED
      BY <1>2, <1>7, <3>1
  <2>12. Between(f, n)'
    BY <1>2, <2>2, <2>10, <2>11 DEF Between
  <2>13. QED
    BY <2>12
<1>8. stuffCnt = 5 \/ stuffCnt < 5
  BY DEF OnesCounted
<1>9. m < 128 \/ m = 128
  BY <1>4 DEF Masks
<1>10. QED
  BY <1>5, <1>6, <1>7, <1>8, <1>9

LEMMA NothingShifted == \A c \in Byte : Shifted(c, 1) = 0
<1>1. \A c \in Byte : c % 1 = 0
  BY DEF Byte
<1>2. 0 * (128 \div 1) = 0
  OBVIOUS
<1>3. QED
  BY <1>1, <1>2 DEF Shifted

LEMMA InByteStep ==
  ASSUME LinkTypeOK, Quiet, NEW f \in Seq(Byte), FrameFits(f), NEW n \in 1 .. Len(f), InByte(f, n),
         NEW b \in Bit, SendBit(b), Hear(b)
  PROVE  InByte(f, n)' \/ Between(f, n)'
<1>1. txBit # 0
  BY DEF InByte, MaskIs
<1>2. UNCHANGED <<fifo, preamble, curr, bitStuff>>
  BY <1>1 DEF SendBit
<1>3. /\ MaskIs(txBit, hdlc.bitIdx) /\ hdlc.currchar = Shifted(f[n], txBit) /\ OnesCounted
      /\ Receiving(f, n - 1) /\ bitStuff' /\ curr' = f[n] /\ fifo' = LeftFrom(f, n + 1)
      /\ preamble' = 0
  BY <1>2 DEF InByte
<1>4. QED
  BY <1>1, <1>3, ByteStep

(* The flag that closes a frame may begin behind five ones. *)
LEMMA ClosingBegins ==
  ASSUME LinkTypeOK, Quiet, NEW b \in Bit, SendBit(b), Hear(b), txBit = 0, curr' = FLAG, ~bitStuff',
         hdlc.rxstart, hdlc.bitIdx = 0, NEW n \in 0 .. 5, OnesEnd(hdlc.demod, n)
  PROVE  /\ FlagBits' /\ hdlc'.rxstart /\ UNCHANGED <<ax, heard>>
<1> DEFINE d == Heard(hdlc.demod, b)
<1>1. FlagGoesOut' /\ b = 0 /\ txBit' = 2
  BY FlagStarts
<1>2. hdlc \in Hdlc /\ hdlc.demod \in Byte
  BY DEF LinkTypeOK, Hdlc
<1>3. d \in Byte /\ d # FLAG /\ d % 128 # RESET
  BY <1>1, <1>2, ZeroBit, HeardAs
<1>4. IF Stuffed(d) THEN ParseSkipped(d) ELSE ParseBit(d)
  BY <1>3, HeardAs
<1> HIDE DEF d
<1>5. CASE ParseSkipped(d)
  <2>1. hdlc' = [hdlc EXCEPT !.demod = d] /\ UNCHANGED <<ax, heard>>
    BY <1>5, <1>3 DEF ParseSkipped, PollNothing
  <2>2. hdlc'.bitIdx = 0 /\ hdlc'.rxstart
    BY <1>2, <2>1 DEF Hdlc
  <2>3. QED
    BY <1>1, <2>1, <2>2 DEF FlagBits, MaskIs
<1>6. CASE ParseBit(d)
  <2>1. /\ hdlc' = [hdlc EXCEPT !.demod = d, !.currchar = Currchar(d) \div 2, !.bitIdx = @ + 1]
        /\ UNCHANGED <<ax, heard>>
    BY <1>6 DEF ParseBit, PollNothing
  <2>2. hdlc'.bitIdx = 1 /\ hdlc'.rxstart
    BY <1>2, <2>1 DEF Hdlc
  <2>3. QED
    BY <1>1, <2>1, <2>2 DEF FlagBits, MaskIs
<1>7. QED
  BY <1>4, <1>5, <1>6

LEMMA BetweenStep ==
  ASSUME LinkTypeOK, Quiet, NEW f \in Seq(Byte), FrameFits(f), NEW n \in 0 .. Len(f), Between(f, n),
         NEW b \in Bit, SendBit(b), Hear(b)
  PROVE  \/ n < Len(f) /\ InByte(f, n + 1)'
         \/ Closing(f)'
<1>1. /\ txBit = 0 /\ fifo = LeftFrom(f, n + 1) /\ preamble = 0 /\ NextByte
      /\ n + 1 \in 0 .. Len(f) + 1 /\ Len(f) \in Nat
  BY DEF Between, SendBit
<1>2. fifo # <<>> /\ Head(fifo) = ItemAt(f, n + 1) /\ Tail(fifo) = LeftFrom(f, n + 1 + 1)
  BY <1>1, LeftTail
<1>3. /\ curr' = ItemAt(f, n + 1).byte /\ bitStuff' = OnesStuffed(ItemAt(f, n + 1))
      /\ fifo' = LeftFrom(f, n + 1 + 1) /\ preamble' = 0
  <2>1. /\ curr' = Head(fifo).byte /\ bitStuff' = OnesStuffed(Head(fifo))
        /\ fifo' = Tail(fifo) /\ preamble' = preamble
    BY <1>1, <1>2 DEF NextByte
  <2>2. QED
    BY <1>1, <1>2, <2>1
<1>4. CASE n < Len(f)
  <2>1. n + 1 \in 1 .. Len(f) /\ ItemAt(f, n + 1) = Data(f[n + 1])
    BY <1>1, <1>4 DEF ItemAt
  <2>2. curr' = f[n + 1] /\ bitStuff'
    <3>1. OnesStuffed(Data(f[n + 1])) = TRUE /\ Data(f[n + 1]).byte = f[n + 1]
      BY DEF OnesStuffed, Data, Special
    <3>2. QED
      BY <1>3, <2>1, <3>1
  <2>3. MaskIs(1, hdlc.bitIdx) /\ hdlc.currchar = Shifted(f[n + 1], 1)
    <3>1. f[n + 1] \in Byte
      BY <2>1
    <3>2. Shifted(f[n + 1], 1) = 0
      BY <3>1, NothingShifted
    <3>3. QED
      BY <3>2 DEF Between, MaskIs
  <2>4. OnesCounted /\ (bitStuff \/ stuffCnt = 0) /\ Receiving(f, n + 1 - 1)
    BY DEF Between
  <2>5. 1 = IF txBit = 0 THEN 1 ELSE txBit
    BY <1>1
  <2>6. InByte(f, n + 1)' \/ Between(f, n + 1)'
    BY <1>3, <2>1, <2>2, <2>3, <2>4, <2>5, ByteStep
  <2>7. txBit' # 0
    <3>1. /\ stuffCnt = 5 => txBit' = 1
          /\ stuffCnt < 5 => txBit' = (2 * 1) % 256
      BY <2>2, <2>4, <2>5, BitCounted DEF Receiving
    <3>2. stuffCnt = 5 \/ stuffCnt < 5
      BY <2>4 DEF OnesCounted
    <3>3. QED
      BY <3>1, <3>2
  <2>8. QED
    BY <1>4, <2>6, <2>7 DEF Between
<1>5. CASE n = Len(f)
  <2>1. ItemAt(f, n + 1) = Delimiter
    BY <1>1, <1>5 DEF ItemAt
  <2>2. curr' = FLAG /\ ~bitStuff'
    <3>1. OnesStuffed(Delimiter) = FALSE /\ Delimiter.byte = FLAG
      BY DEF OnesStuffed, Delimiter
    <3>2. QED
      BY <1>3, <2>1, <3>1
  <2>3. fifo' = <<>>
    BY <1>1, <1>3, <1>5, NothingLeft
  <2>4. /\ hdlc.rxstart /\ hdlc.bitIdx = 0 /\ stuffCnt \in 0 .. 5 /\ OnesEnd(hdlc.demod, stuffCnt)
    BY DEF Between, Receiving, OnesCounted
  <2>5. FlagBits' /\ hdlc'.rxstart /\ UNCHANGED <<ax, heard>>
    BY <1>1, <2>2, <2>4, ClosingBegins
  <2>6. Receiving(f, Len(f))'
    BY <1>5, <2>5 DEF Between, Receiving
  <2>7. QED
    BY <1>3, <2>3, <2>5, <2>6 DEF Closing
<1>6. QED
  BY <1>1, <1>4, <1>5

(* In a flag no byte is completed, and its last bit is taken for a flag.     *)
LEMMA FlagBitsStep ==
  ASSUME LinkTypeOK, Quiet, NEW b \in Bit, SendBit(b), Hear(b), FlagBits, hdlc.rxstart
  PROVE  /\ UNCHANGED <<fifo, preamble>>
         /\ \/ FlagBits' /\ hdlc'.rxstart /\ UNCHANGED <<ax, heard>>
            \/ txBit' = 0 /\ ParseFlag(FLAG)
<1> DEFINE d == Heard(hdlc.demod, b)
<1>1. /\ FlagGoesOut /\ txBit \in Masks \ {1}
      /\ MaskIs(txBit, hdlc.bitIdx) \/ MaskIs(txBit, hdlc.bitIdx + 1)
      /\ hdlc \in Hdlc /\ hdlc.bitIdx \in 0 .. 7
  BY DEF FlagBits, FlagGoesOut, FlagUpTo, LinkTypeOK, Hdlc
<1>2. CASE txBit < 128
  <2>1. UNCHANGED <<fifo, preamble>> /\ FlagGoesOut' /\ txBit' = 2 * txBit /\ ParseBit(d)
    BY <1>1, <1>2, FlagGoesOn
  <2> HIDE DEF d
  <2>2. hdlc.bitIdx < 7
    BY <1>1, <1>2 DEF MaskIs
  <2>3. /\ hdlc' = [hdlc EXCEPT !.demod = d, !.currchar = Currchar(d) \div 2, !.bitIdx = @ + 1]
        /\ UNCHANGED <<ax, heard>>
    BY <2>1, <2>2 DEF ParseBit, PollNothing
  <2>4. hdlc'.bitIdx = hdlc.bitIdx + 1 /\ hdlc'.rxstart
    BY <1>1, <2>3 DEF Hdlc
  <2>5. MaskIs(txBit', hdlc'.bitIdx) \/ MaskIs(txBit', hdlc'.bitIdx + 1)
    BY <1>1, <1>2, <2>1, <2>2, <2>4 DEF MaskIs
  <2>6. QED
    BY <2>1, <2>3, <2>4, <2>5 DEF FlagBits
<1>3. CASE txBit = 128
  BY <1>1, <1>3, FlagGoesOn
<1>4. QED
  BY <1>1, <1>2, <1>3 DEF Masks

(* The frame is heard at the last bit of the flag that closes it. *)
LEMMA ClosingStep ==
  ASSUME LinkTypeOK, Quiet, NEW f \in Seq(Byte), FrameFits(f), sent # <<>>, f = Last(sent),
         Closing(f), NEW b \in Bit, SendBit(b), Hear(b)
  PROVE  Closing(f)' \/ Closed(f)'
<1>1. FlagBits /\ hdlc.rxstart /\ fifo = <<>> /\ preamble = 0 /\ Receiving(f, Len(f))
  BY DEF Closing, Receiving
<1>2. /\ UNCHANGED <<fifo, preamble>>
      /\ \/ FlagBits' /\ hdlc'.rxstart /\ UNCHANGED <<ax, heard>>
         \/ txBit' = 0 /\ ParseFlag(FLAG)
  BY <1>1, FlagBitsStep
<1>3. CASE FlagBits' /\ hdlc'.rxstart /\ UNCHANGED <<ax, heard>>
  BY <1>1, <1>2, <1>3 DEF Closing, Receiving
<1>4. CASE txBit' = 0 /\ ParseFlag(FLAG)
  <2>1. Received(ax) = f
    BY <1>1 DEF Receiving, Received
  <2>2. GoodFrame(ax)
    <3>1. Len(sent) \in DOMAIN sent /\ sent[Len(sent)] = f
      BY DEF LinkTypeOK, Last
    <3>2. ax.len >= MinFrameLen
      BY <1>1, LinkConstants DEF Receiving, FrameFits
    <3>3. QED
      BY <2>1, <3>1, <3>2 DEF GoodFrame
  <2>3. /\ Receiving(f, 0)' /\ hdlc'.bitIdx = 0 /\ OnesEnd(hdlc'.demod, 0)
        /\ heard' = Append(heard, f)
    BY <1>4, <2>1, <2>2, FrameBegins
  <2>4. heard' # <<>> /\ Last(heard') = f
    BY <2>3, heard \in Seq(Seq(Byte)) DEF LinkTypeOK, Last
  <2>5. QED
    BY <1>1, <1>2, <1>4, <2>3, <2>4 DEF Closed, Receiving
<1>5. QED
  BY <1>2, <1>3, <1>4

(* The flags behind it are no frames. *)
LEMMA ClosedStep ==
  ASSUME LinkTypeOK, Quiet, NEW f, Closed(f), NEW b \in Bit, SendBit(b), Hear(b)
  PROVE  Closed(f)'
<1>1. /\ fifo = <<>> /\ preamble = 0 /\ heard # <<>> /\ Last(heard) = f
      /\ hdlc.rxstart /\ ax.len = 0
  BY DEF Closed
<1>2. CASE FlagBits
  <2>1. /\ UNCHANGED <<fifo, preamble>>
        /\ \/ FlagBits' /\ hdlc'.rxstart /\ UNCHANGED <<ax, heard>>
           \/ txBit' = 0 /\ ParseFlag(FLAG)
    BY <1>1, <1>2, FlagBitsStep
  <2>2. ~GoodFrame(ax)
    BY <1>1, LinkConstants DEF GoodFrame
  <2>3. ParseFlag(FLAG) => /\ Receiving(f, 0)' /\ hdlc'.bitIdx = 0 /\ OnesEnd(hdlc'.demod, 0)
                           /\ heard' = heard
    BY <2>2, FrameBegins
  <2>4. QED
    BY <1>1, <2>1, <2>3 DEF Closed, Receiving
<1>3. CASE txBit = 0 /\ hdlc.bitIdx = 0 /\ OnesEnd(hdlc.demod, 0)
  <2>1. NextByte
    BY <1>3 DEF SendBit
  <2>2. curr' = FLAG /\ ~bitStuff' /\ UNCHANGED <<fifo, preamble>>
    BY <1>1, <2>1 DEF NextByte
  <2>3. FlagBits' /\ hdlc'.rxstart /\ UNCHANGED <<ax, heard>>
    BY <1>1, <1>3, <2>2, ClosingBegins
  <2>4. QED
    BY <1>1, <2>2, <2>3 DEF Closed
<1>4. QED
  BY <1>2, <1>3 DEF Closed

LEMMA InFrameStep ==
  ASSUME LinkTypeOK, Quiet, NEW f \in Seq(Byte), FrameFits(f),
         sent # <<>>, f = Last(sent), InFrame(f),
         NEW b \in Bit, SendBit(b), Hear(b)
  PROVE  InFrame(f)'
<1>1. Len(f) \in Nat /\ 0 \in 0 .. Len(f)
  OBVIOUS
<1>2. CASE Opening(f)
  BY <1>1, <1>2, OpeningStep DEF InFrame
<1>3. CASE Closing(f)
  BY <1>3, ClosingStep DEF InFrame
<1>4. CASE Closed(f)
  BY <1>4, ClosedStep DEF InFrame
<1>5. ASSUME NEW n \in 0 .. Len(f), Between(f, n) PROVE InFrame(f)'
  <2>1. (n < Len(f) /\ InByte(f, n + 1)') \/ Closing(f)'
    BY <1>5, BetweenStep
  <2>2. n < Len(f) => n + 1 \in 1 .. Len(f)
    BY <1>1
  <2>3. QED
    BY <2>1, <2>2 DEF InFrame
<1>6. ASSUME NEW n \in 1 .. Len(f), InByte(f, n) PROVE InFrame(f)'
  <2>1. InByte(f, n)' \/ Between(f, n)'
    BY <1>6, InByteStep
  <2>2. n \in 0 .. Len(f)
    BY <1>1
  <2>3. QED
    BY <2>1, <2>2 DEF InFrame
<1>7. QED
  BY <1>2, <1>3, <1>4, <1>5, <1>6 DEF InFrame

(* With nobody sending there are no edges, hence no flags. *)
LEMMA SilenceHeard ==
  ASSUME LinkTypeOK, Quiet, Hear(1)
  PROVE  heard' = heard
<1>1. 1 \in Bit /\ hdlc.demod \in Byte
  BY DEF Bit, LinkTypeOK, Hdlc
<1>2. PICK d \in Byte :
        /\ d = Heard(hdlc.demod, 1)
        /\ ParseFlag(d) \/ ParseReset(d) \/ ParseSkipped(d) \/ ParseBit(d)
  BY <1>1, HearIs
<1>3. d # FLAG
  BY <1>1, <1>2 DEF Heard, FLAG, Byte
<1>4. CASE ParseReset(d) \/ ParseSkipped(d)
  BY <1>4 DEF ParseReset, ParseSkipped, PollNothing
<1>5. CASE ParseBit(d)
  BY <1>5 DEF ParseBit, PollNothing, PollByte
<1>6. QED
  BY <1>2, <1>3, <1>4, <1>5 DEF ParseFlag

LEMMA LinkInvStep == LinkInv /\ [LinkNext]_linkVars => LinkInv'
<1> SUFFICES ASSUME LinkInv, [LinkNext]_linkVars PROVE LinkInv'
  OBVIOUS
<1>1. LinkTypeOK /\ Quiet /\ SenderRests /\ Promise
  BY DEF LinkInv
<1>2. LinkTypeOK' /\ Quiet'
  BY <1>1, LinkTypeStep
<1>3. ASSUME SenderRests',
             \A f \in Seq(Byte) : Latest(f)' /\ ~hit' /\ FrameFits(f) => OnItsWay(f)'
      PROVE  LinkInv'
  BY <1>2, <1>3 DEF LinkInv, Promise, FrameFits
<1>4. ASSUME NEW g \in Frames, PutFrame(g) PROVE LinkInv'
  <2>1. /\ sent' = Append(sent, g) /\ sending' /\ ~hit' /\ ~faded' /\ txBit' = 0
    BY <1>1, <1>4 DEF PutFrame, SenderRests
  <2>2. sent \in Seq(Frames) /\ g \in Seq(Byte)
    BY <1>1, LinkConstants DEF LinkTypeOK
  <2>3. sent' # <<>> /\ sent'[Len(sent')] = g
    BY <2>1, <2>2, AppendProperties
  <2>4. fifo' = LeftFrom(g, 0)
    BY <1>4, <2>2, LeftWhole DEF PutFrame
  <2>5. OnItsWay(g)'
    BY <2>1, <2>4 DEF OnItsWay, InFrame, Opening
  <2>6. ASSUME NEW f \in Seq(Byte), Latest(f)' PROVE OnItsWay(f)'
    BY <2>3, <2>5, <2>6 DEF Latest
  <2>7. SenderRests'
    BY <2>1, <2>3 DEF SenderRests
  <2>8. QED
    BY <1>3, <2>6, <2>7
<1>5. CASE BitSent
  <2>1. PICK b \in Bit, got \in Bit :
          /\ SendBit(b) /\ (Clear(b, got) \/ Disturbed(b, got)) /\ Hear(got)
          /\ UNCHANGED <<main, sent>>
    BY <1>5 DEF BitSent
  <2>2. sending /\ sending'
    BY <2>1 DEF SendBit
  <2>3. SenderRests'
    BY <1>1, <2>1, <2>2 DEF Clear, Disturbed, line, SenderRests
  <2>4. ASSUME NEW f \in Seq(Byte), Latest(f)', ~hit', FrameFits(f) PROVE OnItsWay(f)'
    <3>1. got = b /\ ~hit
      BY <1>1, <2>1, <2>4 DEF Clear, Disturbed, line, SenderRests
    <3>2. sent # <<>> /\ f = sent[Len(sent)] /\ InFrame(f)
      BY <1>1, <2>1, <2>2, <2>4, <3>1 DEF Latest, Promise, OnItsWay
    <3>3. InFrame(f)'
      BY <1>1, <2>1, <2>4, <3>1, <3>2, InFrameStep DEF Last
    <3>4. QED
      BY <2>2, <3>3 DEF OnItsWay
  <2>5. QED
    BY <1>3, <2>3, <2>4
<1>6. CASE TxStops
  <2>1. /\ sending /\ ~sending' /\ txBit = 0 /\ fifo = <<>>
        /\ UNCHANGED <<txBit, heard, sent, hit, faded>>
    BY <1>6 DEF TxStops, rxvars, line
  <2>2. ASSUME NEW f \in Seq(Byte), Latest(f)', ~hit', FrameFits(f) PROVE OnItsWay(f)'
    <3>1. InFrame(f)
      BY <1>1, <2>1, <2>2 DEF Latest, Promise, OnItsWay
    <3>2. Len(f) \in Nat
      OBVIOUS
    <3>3. ~FlagGoesOut /\ ~FlagBits
      BY <2>1 DEF FlagGoesOut, FlagBits
    <3>4. ~Opening(f) /\ ~Closing(f)
      BY <2>1, <3>2, <3>3, NothingLeft DEF Opening, Closing
    <3>5. \A n \in 0 .. Len(f) : ~Between(f, n)
      BY <2>1, <3>2, NothingLeft DEF Between
    <3>6. \A n \in 1 .. Len(f) : ~InByte(f, n)
      BY <2>1 DEF InByte, MaskIs
    <3>7. Closed(f)
      BY <3>1, <3>4, <3>5, <3>6 DEF InFrame
    <3>8. QED
      BY <2>1, <3>7 DEF Closed, OnItsWay
  <2>3. SenderRests'
    BY <1>1, <2>1 DEF SenderRests
  <2>4. QED
    BY <1>3, <2>2, <2>3
<1>7. CASE BitOfSilence
  <2>1. PICK got \in Bit : (Clear(1, got) \/ Disturbed(1, got)) /\ Hear(got)
    BY <1>7 DEF BitOfSilence
  <2>2. ~sending /\ UNCHANGED <<sending, txBit, sent>>
    BY <1>7 DEF BitOfSilence, txvars
  <2>3. SenderRests'
    BY <1>1, <2>1, <2>2 DEF Clear, Disturbed, line, SenderRests
  <2>4. ASSUME NEW f \in Seq(Byte), Latest(f)', ~hit', FrameFits(f) PROVE OnItsWay(f)'
    <3>1. got = 1 /\ ~hit
      BY <2>1, <2>4 DEF Clear, Disturbed, line
    <3>2. heard' = heard
      BY <1>1, <2>1, <3>1, SilenceHeard
    <3>3. QED
      BY <1>1, <2>2, <2>4, <3>1, <3>2 DEF Latest, Promise, OnItsWay
  <2>5. QED
    BY <1>3, <2>3, <2>4
<1>8. CASE Fade
  <2>1. hit' /\ SenderRests'
    BY <1>1, <1>8 DEF Fade, txvars, SenderRests
  <2>2. QED
    BY <1>3, <2>1
<1>9. CASE MainSees \/ MainDone \/ UNCHANGED linkVars
  <2>1. /\ UNCHANGED <<txvars, hdlc, heard, line, sent>>
        /\ ax'.sync = ax.sync /\ ax'.len = ax.len /\ ax'.buf = ax.buf
    BY <1>1, <1>9 DEF MainSees, MainDone, linkVars, rxvars, LinkTypeOK, Ax
  <2>2. ASSUME NEW f, InFrame(f) PROVE InFrame(f)'
    <3>1. FlagGoesOut' = FlagGoesOut /\ FlagBits' = FlagBits /\ OnesCounted' = OnesCounted
      BY <2>1 DEF txvars, FlagGoesOut, FlagBits, OnesCounted
    <3>2. \A n : Receiving(f, n) => Receiving(f, n)'
      BY <2>1 DEF Receiving
    <3>3. QED
      BY <2>1, <2>2, <3>1, <3>2 DEF txvars, InFrame, Opening, Closing, Closed, Between, InByte
  <2>3. ASSUME NEW f \in Seq(Byte), Latest(f)', ~hit', FrameFits(f) PROVE OnItsWay(f)'
    BY <1>1, <2>1, <2>2, <2>3 DEF txvars, line, Latest, Promise, OnItsWay
  <2>4. SenderRests'
    BY <1>1, <2>1 DEF txvars, line, SenderRests
  <2>5. QED
    BY <1>3, <2>3, <2>4
<1>10. QED
  BY <1>4, <1>5, <1>6, <1>7, <1>8, <1>9 DEF LinkNext

(* The fields of the sender and of the receiver keep their types, whatever   *)
(* is heard: no shift of currchar and no count of hdlc_parse leaves a byte,  *)
(* and ax25_poll never writes past the buffer of a frame.                    *)
THEOREM LinkTypeCorrect == LinkSpec => []LinkTypeOK
<1>1. LinkInit => LinkTypeOK /\ Quiet
  BY LinkTypeInit DEF LinkInit, Quiet
<1>2. QED
  BY <1>1, LinkTypeStep, PTL DEF LinkSpec

(* For every frame that fits, and any number of flags: if its bits are heard *)
(* as AFSK_DAC_ISR sends them, ax25_poll gives it to ax25_decode, whatever   *)
(* the receiver has heard before.                                            *)
THEOREM UndisturbedIsHeard == LinkSpec => []UndisturbedHeard
<1>1. LinkInit => LinkInv
  BY LinkTypeInit DEF LinkInit, Quiet, LinkInv, SenderRests, Promise, Latest
<1>2. LinkInv => UndisturbedHeard
  <2>1. SUFFICES ASSUME LinkInv, ~sending, sent # <<>>, ~hit, FrameFits(Last(sent))
                 PROVE  heard # <<>> /\ Last(heard) = Last(sent)
    BY DEF UndisturbedHeard
  <2>2. PICK f \in Seq(Byte) : f = sent[Len(sent)] /\ f = Last(sent)
    BY <2>1, LinkConstants DEF LinkInv, LinkTypeOK, Last
  <2>3. QED
    BY <2>1, <2>2 DEF LinkInv, Promise, Latest, OnItsWay
<1>3. QED
  BY <1>1, <1>2, LinkInvStep, PTL DEF LinkSpec

----------------------------------------------------------------------------
(* The carrier is detected within a frame only: dcd is on when a flag has   *)
(* begun a frame, at least one of its bytes has come, and neither its end,  *)
(* nor seven ones, nor a full buffer has been met since.  The channel is    *)
(* not taken for busy by what is left of a frame that is over.              *)
WithinFrame(a) == a.dcd => a.sync /\ a.len > 0

CarrierInFrame == WithinFrame(ax)

LEMMA TakenWithinFrame ==
  ASSUME NEW a \in Ax, NEW c \in Byte, WithinFrame(a)
  PROVE  WithinFrame(Taken(a, c))
<1> USE DEF WithinFrame
<1>t. a.sync \in BOOLEAN /\ a.len \in Nat
  BY LinkConstants DEF Ax
<1>1. CASE (a.escape \/ c \notin Special) /\ a.sync /\ Fits(a)
  <2>1. Taken(a, c) = DataTaken(a, c)
    BY <1>1, TakenOf
  <2>2. DataTaken(a, c).sync = a.sync /\ DataTaken(a, c).len = a.len + 1
    BY <1>1, DataTakenTyped
  <2>3. QED
    BY <1>1, <1>t, <2>1, <2>2
<1>2. CASE (a.escape \/ c \notin Special) /\ ~(a.sync /\ Fits(a))
  <2>1. \/ Taken(a, c) = [a EXCEPT !.escape = FALSE, !.sync = FALSE, !.dcd = FALSE]
        \/ Taken(a, c) = [a EXCEPT !.escape = FALSE]
    BY <1>2, <1>t, TakenOf
  <2>2. QED
    BY <2>1 DEF Ax
<1>3. CASE ~a.escape /\ c = FLAG
  <2>1. Taken(a, c) = FlagTaken(a)
    BY <1>3, TakenOf
  <2>2. QED
    BY <2>1, FlagTakenTyped
<1>4. CASE ~a.escape /\ c \in {RESET, ESC}
  <2>1. \/ Taken(a, c) = [a EXCEPT !.sync = FALSE, !.dcd = FALSE]
        \/ Taken(a, c) = [a EXCEPT !.escape = TRUE]
    BY <1>4, TakenOf
  <2>2. QED
    BY <2>1 DEF Ax
<1>5. QED
  BY <1>1, <1>2, <1>3, <1>4 DEF Special

LEMMA HearWithinFrame ==
  ASSUME LinkTypeOK, CarrierInFrame, NEW b \in Bit, Hear(b)
  PROVE  CarrierInFrame'
<1> USE DEF CarrierInFrame
<1>1. PICK d \in Byte : ParseFlag(d) \/ ParseReset(d) \/ ParseSkipped(d) \/ ParseBit(d)
  BY HearIs
<1>2. ax \in Ax /\ FLAG \in Byte /\ ESC \in Byte
  BY DEF LinkTypeOK, FLAG, ESC, Byte
<1>3. CASE ParseFlag(d)
  BY <1>2, <1>3, TakenWithinFrame DEF ParseFlag, PollFlag
<1>4. CASE ParseBit(d) /\ PollByte(Currchar(d))
  <2>1. Currchar(d) \in Byte
    BY CurrcharTyped
  <2>2. /\ Taken(ax, ESC) \in Ax /\ WithinFrame(Taken(ax, ESC))
        /\ ax' = Taken(ax, Currchar(d)) \/ ax' = Taken(Taken(ax, ESC), Currchar(d))
    BY <1>2, <1>4, TakenWithinFrame, TakenTyped DEF PollByte
  <2>3. QED
    BY <1>2, <2>1, <2>2, TakenWithinFrame
<1>5. CASE UNCHANGED ax
  BY <1>5
<1>6. QED
  BY <1>1, <1>3, <1>4, <1>5 DEF ParseReset, ParseSkipped, ParseBit, PollNothing

(* For all frames and every disturbance of the line, and wherever the main  *)
(* loop clears dcd itself (main.c:647).                                     *)
THEOREM CarrierWithinFrame == LinkSpec => []CarrierInFrame
<1> DEFINE CarrierInv == LinkTypeOK /\ Quiet /\ CarrierInFrame
<1>1. LinkInit => CarrierInv
  BY LinkTypeInit DEF LinkInit, Quiet, CarrierInFrame, WithinFrame
<1>2. ASSUME CarrierInv, [LinkNext]_linkVars PROVE CarrierInFrame'
  <2>1. CASE BitSent
    BY <1>2, <2>1, HearWithinFrame DEF BitSent
  <2>2. CASE BitOfSilence
    BY <1>2, <2>2, HearWithinFrame DEF BitOfSilence
  <2>3. CASE MainSees \/ MainDone
    BY <1>2, <2>3 DEF MainSees, MainDone, LinkTypeOK, Ax, CarrierInFrame, WithinFrame
  <2>4. CASE (\E f \in Frames : PutFrame(f)) \/ TxStops \/ Fade \/ UNCHANGED linkVars
    <3>1. UNCHANGED ax
      BY <2>4 DEF PutFrame, TxStops, Fade, linkVars, rxvars
    <3>2. QED
      BY <1>2, <3>1 DEF CarrierInFrame
  <2>5. QED
    BY <1>2, <2>1, <2>2, <2>3, <2>4 DEF LinkNext
<1>3. CarrierInv /\ [LinkNext]_linkVars => CarrierInv'
  BY <1>2, LinkTypeStep
<1>4. QED
  BY <1>1, <1>3, PTL DEF LinkSpec
=============================================================================
