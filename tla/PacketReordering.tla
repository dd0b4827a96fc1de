-------------------------- MODULE PacketReordering --------------------------
(* How live555's MultiFramedRTPSource puts the packets of a stream in order  *)
(* again and makes frames of them, and how RTPReceptionStats extends their   *)
(* 16-bit numbers.                                                           *)
(*                                                                           *)
(* Packets are known by their place in the stream, which the code cannot     *)
(* see; it compares their sequence numbers, which wrap.  The network loses,  *)
(* delays and repeats packets.  Whatever the code does with a packet happens *)
(* in the event loop; pc says what it does:                                  *)
(*   waiting     the sink has asked for a frame, none is complete            *)
(*   loop        doGetNextFrame1 looks at the head of the queue              *)
(*   delivering  a frame is given to the sink by a task of the event loop    *)
EXTENDS Integers, Sequences, FiniteSets

CONSTANTS Stream,         \* the kinds of the packets, as in FrameStream
          Half,           \* 0x8000: half the range of sequence numbers
          FirstNumber,    \* the sequence number of the first packet
          Threshold,      \* fThresholdTime, in ticks
          MaxDuplicates   \* how many packets the network repeats

Kinds == {"whole", "pair", "begin", "middle", "end", "bad"}

\* A packet whose payload header is refused ("bad") stands between frames.
ASSUME StreamAssumption ==
  /\ Stream \in Seq(Kinds)
  /\ \A i \in 2..Len(Stream) :
       Stream[i] \in {"middle", "end"} <=> Stream[i - 1] \in {"begin", "middle"}

ASSUME NumberAssumption ==
  Half \in Nat \ {0} /\ FirstNumber \in 0..2 * Half - 1 /\ Threshold \in Nat
    /\ MaxDuplicates \in Nat

VARIABLES
  queue,      \* the packets: place, isFirstPacket, age, frames used
  seen,       \* fHaveSeenFirstPacket
  expected,   \* fNextExpectedSeqNo
  highest,    \* fHighestExtSeqNumReceived
  base,       \* fBaseExtSeqNumReceived
  pc,
  begins,     \* fCurrentPacketBeginsFrame
  completes,  \* fCurrentPacketCompletesFrame
  lossInFrame,\* fPacketLossInFragmentedFrame
  frame,      \* the pieces copied to fSavedTo so far
  given,      \* the frame given to the sink last
  arrived,    \* the packets that have arrived
  want,       \* the place fNextExpectedSeqNo stands for
  duplicates

bufferVars == <<queue, seen, expected, want>>
statsVars  == <<highest, base>>
frameVars  == <<begins, completes, lossInFrame, frame, given>>

vars == <<bufferVars, statsVars, pc, frameVars, arrived, duplicates>>

Places == 1..Len(Stream)

Number(n) == (FirstNumber + n - 1) % (2 * Half)

\* Mutant of Next16: the number does not wrap.
NextUnbounded(s) == s + 1

Next16(s) == (s + 1) % (2 * Half)

\* Mutant of Less: numbers are compared as they are.
LessUnwrapped(s1, s2) == s1 < s2

\* seqNumLT: less-than on sequence numbers.
Less(s1, s2) ==
  LET diff == s2 - s1
  IN  IF diff > 0 THEN diff < Half ELSE diff < 0 /\ diff < -Half

Head16 == Number(queue[1].n)

-----------------------------------------------------------------------------
(* Reception *)

Newest == CHOOSE n \in arrived : \A m \in arrived : m <= n
Oldest == CHOOSE n \in arrived : \A m \in arrived : n <= m

\* The network delays no packet by half the range of numbers, and no gap is
\* waited for that long.
InReach(n) ==
  /\ arrived # {} => n - Newest < Half /\ Newest - n < Half
  /\ seen => n - want < Half /\ want - n < Half

\* Mutant of Extended: a packet that came out of order is taken to be of the
\* newest packet's cycle.
ExtendedForward(s) ==
  LET old == highest % (2 * Half)
  IN  highest - old + s + (IF Less(old, s) /\ s < old THEN 2 * Half ELSE 0)

\* noteIncomingPacket: the number is extended by the cycle it belongs to.
Extended(s) ==
  LET old        == highest % (2 * Half)
      cycle      == highest - old
      difference == s - old
  IN  IF Less(old, s)
      THEN cycle + s + (IF difference < 0 THEN 2 * Half ELSE 0)
      ELSE cycle + s - (IF difference >= Half THEN 2 * Half ELSE 0)

NoteIncomingPacket(s) ==
  IF arrived = {}
  THEN highest' = 2 * Half + s /\ base' = 2 * Half + s
  ELSE LET old == highest % (2 * Half)
       IN  IF Less(old, s)
           THEN /\ highest' = IF Extended(s) > highest THEN Extended(s) ELSE highest
                /\ UNCHANGED base
           ELSE /\ base' = IF Extended(s) < base THEN Extended(s) ELSE base
                /\ UNCHANGED highest

Insert(q, k, p) == SubSeq(q, 1, k) \o <<p>> \o SubSeq(q, k + 1, Len(q))

\* Where storePacket puts a packet with the number s: at the tail if it comes
\* after it, otherwise before the first that comes after it.
PlaceFor(s) ==
  IF queue = <<>> \/ Less(Number(queue[Len(queue)].n), s) THEN Len(queue)
  ELSE LET later == {i \in 1..Len(queue) : Less(s, Number(queue[i].n))}
       IN  IF later = {} THEN Len(queue)
           ELSE (CHOOSE i \in later : \A j \in later : i <= j) - 1

\* A packet with the number s is in the queue before the place for it.
Queued(s) == \E i \in 1..PlaceFor(s) : Number(queue[i].n) = s

\* storePacket; a packet that is too late or there already is dropped.
StorePacket(n) ==
  LET s   == Number(n)
      new == [n |-> n, first |-> ~seen, age |-> 0, used |-> 0]
      due == IF seen THEN expected ELSE s
  IN  /\ seen' = TRUE
      /\ expected' = due
      /\ want' = IF seen THEN want ELSE n
      /\ queue' = IF Less(s, due) \/ Queued(s) THEN queue
                  ELSE Insert(queue, PlaceFor(s), new)

\* networkReadHandler1, and then doGetNextFrame1 if the sink waits.
Arrive(n) ==
  /\ pc \in {"waiting", "delivering"}
  /\ InReach(n)
  /\ \/ n \notin arrived /\ UNCHANGED duplicates
     \/ n \in arrived /\ duplicates < MaxDuplicates /\ duplicates' = duplicates + 1
  /\ arrived' = arrived \cup {n}
  /\ NoteIncomingPacket(Number(n))
  /\ StorePacket(n)
  /\ pc' = IF pc = "waiting" THEN "loop" ELSE pc
  /\ UNCHANGED frameVars

Tick ==
  /\ pc # "loop"
  /\ queue' = [i \in DOMAIN queue |->
                 [queue[i] EXCEPT !.age = IF @ <= Threshold THEN @ + 1 ELSE @]]
  /\ UNCHANGED <<seen, expected, want, statsVars, pc, frameVars, arrived, duplicates>>

-----------------------------------------------------------------------------
(* doGetNextFrame1, one turn of its loop at a time *)

\* getNextCompletedPacket: the head is the packet expected, or has waited for
\* it long enough.
HeadExpected == Head16 = expected
HeadExpired  == Threshold = 0 \/ queue[1].age > Threshold
HeadReady    == queue # <<>> /\ (HeadExpected \/ HeadExpired)

LossBeforeHead == IF HeadExpected THEN queue[1].first ELSE TRUE

NothingReady ==
  /\ pc = "loop" /\ ~HeadReady
  /\ pc' = "waiting"
  /\ UNCHANGED <<bufferVars, statsVars, frameVars, arrived, duplicates>>

\* releaseUsedPacket, with the expected number getNextCompletedPacket has left.
Release ==
  /\ queue' = Tail(queue)
  /\ expected' = Next16(Head16)
  /\ want' = queue[1].n + 1

\* processSpecialHeader refuses the packet.  The loop ends, although the next
\* packet may be ready.
RejectHeader ==
  /\ pc = "loop" /\ HeadReady
  /\ queue[1].used = 0 /\ Stream[queue[1].n] = "bad"
  /\ Release
  /\ pc' = "waiting"
  /\ UNCHANGED <<seen, statsVars, frameVars, arrived, duplicates>>

Kind == Stream[queue[1].n]

\* What processSpecialHeader makes of a packet.  For an aggregation packet it
\* leaves the flags as the packet before has left them.
BeginsNow    == IF Kind = "pair" THEN begins ELSE Kind \notin {"middle", "end"}
CompletesNow == IF Kind = "pair" THEN completes ELSE Kind \notin {"begin", "middle"}

\* Mutant of Unusable: only the packet after the loss is unusable.
UnusableNext == ~BeginsNow /\ LossBeforeHead

\* A packet that does not begin a frame is lost to it after any loss.
Unusable == ~BeginsNow /\ (LossBeforeHead \/ lossInFrame)

RejectFragment ==
  /\ pc = "loop" /\ HeadReady
  /\ queue[1].used = 0 => Kind # "bad"
  /\ Unusable
  /\ Release
  /\ begins' = BeginsNow /\ completes' = CompletesNow
  /\ lossInFrame' = TRUE
  /\ pc' = "waiting"
  /\ UNCHANGED <<seen, statsVars, frame, given, arrived, duplicates>>

\* What the frame consists of once the next piece of the head is used: what was
\* there of another frame is forgotten if there was a loss.
FrameNow ==
  LET kept == IF BeginsNow /\ (LossBeforeHead \/ lossInFrame) THEN <<>> ELSE frame
  IN  Append(kept, <<queue[1].n, queue[1].used + 1>>)

Pieces == IF Kind = "pair" THEN 2 ELSE 1

\* BufferedPacket::use, and releaseUsedPacket if that was the last piece.
UseHead ==
  IF queue[1].used + 1 = Pieces THEN Release
  ELSE /\ queue' = [queue EXCEPT ![1].used = @ + 1]
       /\ expected' = Head16
       /\ want' = queue[1].n

\* The piece completes a frame: it is given to the sink, which asks for the
\* next.  While packets are queued the event loop gives it.
UsePiece ==
  /\ pc = "loop" /\ HeadReady
  /\ queue[1].used = 0 => Kind # "bad"
  /\ ~Unusable
  /\ begins' = BeginsNow /\ completes' = CompletesNow
  /\ lossInFrame' = (lossInFrame /\ ~BeginsNow)
  /\ UseHead
  /\ \/ /\ ~CompletesNow
        /\ frame' = FrameNow
        /\ UNCHANGED <<given, pc>>
     \/ /\ CompletesNow /\ queue' = <<>>
        /\ given' = FrameNow
        /\ frame' = <<>>
        /\ UNCHANGED pc
     \/ /\ CompletesNow /\ queue' # <<>>
        /\ given' = FrameNow
        /\ frame' = FrameNow
        /\ pc' = "delivering"
  /\ UNCHANGED <<seen, statsVars, arrived, duplicates>>

\* FramedSource::afterGetting, called by the event loop: the sink takes the
\* frame and asks for the next one.
AfterGetting ==
  /\ pc = "delivering"
  /\ frame' = <<>>
  /\ pc' = "loop"
  /\ UNCHANGED <<bufferVars, statsVars, begins, completes, lossInFrame, given,
                 arrived, duplicates>>

-----------------------------------------------------------------------------
\* The source as constructed, after the sink's first getNextFrame.
Init ==
  /\ queue = <<>> /\ seen = FALSE /\ expected = 0 /\ want = 0
  /\ highest = 0 /\ base = 0
  /\ pc = "waiting"
  /\ begins = TRUE /\ completes = TRUE /\ lossInFrame = FALSE
  /\ frame = <<>> /\ given = <<>>
  /\ arrived = {} /\ duplicates = 0

Next ==
  \/ \E n \in Places : Arrive(n)
  \/ Tick \/ NothingReady \/ RejectHeader \/ RejectFragment \/ UsePiece
  \/ AfterGetting

Spec == Init /\ [][Next]_vars

-----------------------------------------------------------------------------
(* Properties *)

Packets ==
  [n : Places, first : BOOLEAN, age : 0..Threshold + 1, used : 0..1]

\* Every variable has the values its counterpart can have.
TypeOK ==
  /\ queue \in Seq(Packets)
  /\ seen \in BOOLEAN
  /\ expected \in 0..2 * Half - 1
  /\ want \in 0..Len(Stream) + 1
  /\ highest \in Nat /\ base \in Int
  /\ pc \in {"waiting", "loop", "delivering"}
  /\ begins \in BOOLEAN /\ completes \in BOOLEAN /\ lossInFrame \in BOOLEAN
  /\ frame \in Seq(Places \X (1..2))
  /\ given \in Seq(Places \X (1..2))
  /\ arrived \subseteq Places
  /\ duplicates \in 0..MaxDuplicates

\* The assertions of ReorderingPacketBuffer, and RTPReceptionStats: numbers that
\* wrap stand for the true places.  The queue is in the order of the stream and
\* has no packet before the one expected, and the extended numbers are those of
\* the newest packet and, from the first that arrived on, of the oldest.
NumbersTrue ==
  arrived # {} =>
    /\ expected = Number(want)
    /\ \A i \in 1..Len(queue) : want <= queue[i].n
    /\ \A i, j \in 1..Len(queue) : i < j => queue[i].n < queue[j].n
    /\ highest % (2 * Half) = Number(Newest)
    /\ highest - base = Newest - Oldest

\* A packet that arrives for the first time is only dropped when a later one has
\* been used, or given up waiting for: none is lost to a wrapped number or to
\* the packets it overtakes.
OnlyLateRefused ==
  [][\A n \in arrived' \ arrived :
       n \in {queue'[i].n : i \in DOMAIN queue'} \/ n < want]_vars

\* Data that waits for the rest of its frame is a fragment, as the comment in
\* doGetNextFrame1 says of it.
OnlyFragmentsWait ==
  pc # "delivering" /\ frame # <<>> =>
    Stream[frame[Len(frame)][1]] \in {"begin", "middle"}

FS == INSTANCE FrameStream

\* The sink is given whole frames in the order of the stream, whatever the
\* network does to the packets: of a stream whose aggregation packets come before
\* its fragments (see OnlyFragmentsWait), and so do its packets with a bad header,
\* which take the mark of the loss before them away with them.
GivesFrames == FS!Spec
=============================================================================
