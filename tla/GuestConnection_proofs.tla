----------------------- MODULE GuestConnection_proofs -----------------------
(* Proofs about GuestConnection, for any calls, rooms and chunks.          *)
EXTENDS GuestConnection, TLAPS

-----------------------------------------------------------------------------
(* Sequences.                                                              *)

\* What Append adds, and that it changes nothing before.
LEMMA AppendFacts ==
  ASSUME NEW S, NEW s \in Seq(S), NEW e \in S
  PROVE  /\ Append(s, e) \in Seq(S)
         /\ Len(s) \in Nat /\ Len(Append(s, e)) = Len(s) + 1
         /\ DOMAIN Append(s, e) = 1 .. Len(s) + 1
         /\ \A i \in 1 .. Len(s) : Append(s, e)[i] = s[i]
         /\ Append(s, e)[Len(s) + 1] = e
  OBVIOUS

\* What Tail leaves.
LEMMA TailFacts ==
  ASSUME NEW S, NEW s \in Seq(S), s # <<>>
  PROVE  /\ Head(s) \in S /\ Head(s) = s[1]
         /\ Tail(s) \in Seq(S)
         /\ Len(s) \in Nat \ {0} /\ Len(Tail(s)) = Len(s) - 1
         /\ DOMAIN s = 1 .. Len(s) /\ DOMAIN Tail(s) = 1 .. Len(s) - 1
         /\ \A i \in 1 .. Len(s) - 1 : Tail(s)[i] = s[i + 1]
  OBVIOUS

\* A connection that was cut within a frame holds frames all the same.
LEMMA CutFacts ==
  ASSUME NEW S, NEW s \in Seq(S), NEW e \in S
  PROVE  <<e>> \o (IF s = <<>> THEN <<>> ELSE Tail(s)) \in Seq(S)
<1>1. CASE s = <<>>
  BY <1>1
<1>2. CASE s # <<>>
  <2>1. Tail(s) \in Seq(S)
    BY <1>2
  <2>2. <<e>> \o Tail(s) \in Seq(S)
    BY <2>1
  <2> QED BY <1>2, <2>2
<1> QED BY <1>1, <1>2

\* The sequence without elements.
LEMMA EmptyFacts ==
  ASSUME NEW S, NEW s \in Seq(S), Len(s) = 0
  PROVE  s = <<>>
  OBVIOUS

\* All frames of s belong to c, or to nobody.
Own(c, s) == \A i \in DOMAIN s : s[i].call \in {c, NoCall}

LEMMA OwnAppend ==
  ASSUME NEW c, NEW s \in Seq(Frame), NEW e \in Frame, Own(c, s), e.call \in {c, NoCall}
  PROVE  Append(s, e) \in Seq(Frame) /\ Own(c, Append(s, e))
<1>1. /\ Append(s, e) \in Seq(Frame)
      /\ DOMAIN Append(s, e) = 1 .. Len(s) + 1 /\ DOMAIN s = 1 .. Len(s) /\ Len(s) \in Nat
      /\ \A i \in 1 .. Len(s) : Append(s, e)[i] = s[i]
      /\ Append(s, e)[Len(s) + 1] = e
  BY AppendFacts
<1>2. ASSUME NEW i \in 1 .. Len(s) + 1 PROVE Append(s, e)[i].call \in {c, NoCall}
  <2>1. i \in 1 .. Len(s) \/ i = Len(s) + 1
    BY <1>1
  <2> QED BY <1>1, <2>1 DEF Own
<1> QED BY <1>1, <1>2 DEF Own

LEMMA OwnTail ==
  ASSUME NEW c, NEW s \in Seq(Frame), s # <<>>, Own(c, s)
  PROVE  /\ Tail(s) \in Seq(Frame) /\ Own(c, Tail(s))
         /\ Head(s) \in Frame /\ Head(s).call \in {c, NoCall}
<1>1. /\ Head(s) \in Frame /\ Head(s) = s[1] /\ Tail(s) \in Seq(Frame)
      /\ Len(s) \in Nat \ {0} /\ DOMAIN s = 1 .. Len(s) /\ DOMAIN Tail(s) = 1 .. Len(s) - 1
      /\ \A i \in 1 .. Len(s) - 1 : Tail(s)[i] = s[i + 1]
  BY TailFacts
<1>2. ASSUME NEW i \in 1 .. Len(s) - 1 PROVE Tail(s)[i].call \in {c, NoCall}
  <2>1. i + 1 \in 1 .. Len(s) /\ Tail(s)[i] = s[i + 1]
    BY <1>1
  <2> QED BY <1>1, <2>1 DEF Own
<1>3. 1 \in DOMAIN s
  BY <1>1
<1> QED BY <1>1, <1>2, <1>3 DEF Own

-----------------------------------------------------------------------------
(* The inductive invariant.                                                *)

\* Only a streamed command has channels.
ClassOk == \A c \in Callers : class[c] = "stream" => c \in Streamers

\* Who writes a request or reads an answer has the mutex, and nobody else.
Held == \A c \in Callers : pc[c] \in {"send", "read"} <=> lock = c

\* With the guest go the requests.
Cut == guest = "off" => requests = <<>> /\ serving = NoCall

\* What is under way between host and guest is the exchange of the call that
\* reads, in one of its stages: the request, the handling, the frames of the
\* answer, of which the last ends it.
Exchange ==
  /\ requests # <<>> => requests = <<lock>> /\ serving = NoCall /\ frames = <<>>
  /\ serving # NoCall => serving = lock
  /\ requests # <<>> \/ serving # NoCall \/ frames # <<>> => lock \in Callers /\ pc[lock] = "read"
  /\ \A i \in DOMAIN frames :
       /\ frames[i].call \in {lock, NoCall}
       /\ frames[i].kind = "chunk" => class[lock] = "stream"
       /\ frames[i].kind = "done" =>
            class[lock] = "stream" /\ i = Len(frames) /\ serving = NoCall
       /\ frames[i].kind = "reply" =>
            class[lock] # "stream" /\ i = Len(frames) /\ serving = NoCall

\* What the host has of an answer, wherever it is.
Contents ==
  /\ \A c \in Callers : got[c] \in {c, NoCall}
  /\ \A c \in Streamers : Own(c, ch[c]) /\ Own(c, out[c]) /\ Own(c, received[c])

IInv ==
  /\ TypeOK /\ ClassOk /\ Held /\ Cut
  /\ ~broken => Exchange /\ Contents

-----------------------------------------------------------------------------
(* Types.                                                                  *)

\* The frames are frames.
LEMMA FrameTypes ==
  /\ Garbage \in Frame /\ Note \in Frame
  /\ \A c \in Callers : Final(c) \in Frame /\ Reply(c) \in Frame
  /\ \A c \in Callers, n \in 0 .. MaxChunks : Chunk(c, n) \in Frame
  BY BoundsAssumption DEF Frame, Garbage, Note, Final, Reply, Chunk

LEMMA CallerSets ==
  /\ Streamers \subseteq Callers /\ Others \subseteq Callers /\ Destroyer \in Callers
  /\ NoCall \notin Callers /\ Destroyer \notin Streamers /\ Destroyer \notin Others
  /\ Streamers \cap Others = {}
  BY CallsAssumption DEF Callers, Calls

LEMMA InitTyped == ASSUME Init PROVE TypeOK
<1>1. <<>> \in Seq(Callers) /\ <<>> \in Seq(Frame) /\ 0 \in 0 .. MaxChunks
  BY BoundsAssumption
<1>2. /\ [c \in Streamers |-> <<>>] \in [Streamers -> Seq(Frame)]
      /\ [c \in Streamers |-> 0] \in [Streamers -> 0 .. MaxChunks]
  BY <1>1
<1>3. /\ [c \in Callers |-> "decoded"] \in [Callers -> Classes]
      /\ [c \in Callers |-> "idle"] \in
           [Callers -> {"idle", "lock", "send", "read", "kill", "over"}]
      /\ [c \in Callers |-> NoCall] \in [Callers -> Callers \cup {NoCall}]
  BY DEF Classes
<1> QED BY <1>1, <1>2, <1>3 DEF Init, TypeOK

\* A call that returns.
LEMMA ReturnTyped ==
  ASSUME TypeOK, NEW c \in Callers, Return(c)
  PROVE  /\ lock' \in Callers \cup {NoCall}
         /\ pc' \in [Callers -> {"idle", "lock", "send", "read", "kill", "over"}]
  BY DEF TypeOK, Return

\* Every step of a caller, before it reads, preserves the types.
LEMMA CallTyped ==
  ASSUME TypeOK, ClassOk, NEW c \in Callers,
         \/ c \in Others /\ Request(c)
         \/ c \in Streamers /\ ExecStream(c)
         \/ Destroy \/ Lock(c) \/ Send(c) \/ SendFails(c) \/ Kill
  PROVE  TypeOK'
<1> USE CallerSets DEF TypeOK, wire, context, stream, history
<1>1. ASSUME NEW d \in Callers, NEW k \in Classes, Start(d, k)
      PROVE  /\ pc' \in [Callers -> {"idle", "lock", "send", "read", "kill", "over"}]
             /\ class' \in [Callers -> Classes]
             /\ UNCHANGED <<guest, lock, requests, serving, printed, frames, expired, left,
                            ch, out, closed, received, got, torn, broken>>
  BY <1>1 DEF Start
<1>2. CASE c \in Others /\ Request(c)
  <2>1. PICK k \in Classes : Call(c, k)
    BY <1>2 DEF Request, Exec, ReadFile, WriteFile, ListFiles, StatFile, GlobFiles, DeleteFile,
                MoveFile, ChmodFile, Classes
  <2> QED BY <1>1, <2>1 DEF Call
<1>3. CASE c \in Streamers /\ ExecStream(c)
  <2>1. Start(c, "stream") /\ "stream" \in Classes
    BY <1>3 DEF ExecStream, Classes
  <2>2. timed' \subseteq Streamers /\ timed \subseteq timed' /\ reading' \subseteq Streamers /\ known' = known
    BY <1>3 DEF ExecStream
  <2> QED BY <1>1, <2>1, <2>2
<1>4. CASE Destroy
  <2>1. Start(Destroyer, "shutdown") /\ "shutdown" \in Classes
    BY <1>4 DEF Destroy, Classes
  <2> QED BY <1>1, <1>4, <2>1 DEF Destroy
<1>5. CASE Lock(c)
  BY <1>5 DEF Lock
<1>6. CASE Send(c)
  <2>1. Append(requests, c) \in Seq(Callers)
    BY AppendFacts
  <2> QED BY <1>6, <2>1 DEF Send
<1>7. CASE SendFails(c)
  <2>1. out' \in [Streamers -> Seq(Frame)] /\ closed' \subseteq Streamers
    <3>1. CASE class[c] = "stream" /\ c \in Streamers
      <4> DEFINE begun == IF c \in expired THEN <<Note>> ELSE <<>>
      <4>1. begun \in Seq(Frame)
        BY FrameTypes
      <4>2. out' = [out EXCEPT ![c] = begun] /\ closed' = closed \cup {c}
        BY <1>7, <3>1 DEF SendFails
      <4> HIDE DEF begun
      <4> QED BY <3>1, <4>1, <4>2
    <3>2. CASE class[c] # "stream"
      BY <1>7, <3>2 DEF SendFails
    <3> QED BY <3>1, <3>2 DEF ClassOk
  <2>2. /\ lock' \in Callers \cup {NoCall}
        /\ pc' \in [Callers -> {"idle", "lock", "send", "read", "kill", "over"}]
    BY <1>7 DEF SendFails, Return
  <2> QED BY <1>7, <2>1, <2>2 DEF SendFails
<1>8. CASE Kill
  BY <1>8 DEF Kill
<1> QED BY <1>2, <1>3, <1>4, <1>5, <1>6, <1>7, <1>8

\* Every step of the agent preserves the types.
LEMMA AgentTyped ==
  ASSUME TypeOK, Agent \/ Hang \/ GuestDies
  PROVE  TypeOK'
<1> USE CallerSets DEF TypeOK, wire, context, stream, history
<1>1. CASE ReadRequest
  <2>1. /\ Head(requests) \in Callers /\ Tail(requests) \in Seq(Callers)
    BY <1>1, TailFacts DEF ReadRequest
  <2> QED BY <1>1, <2>1 DEF ReadRequest
<1>2. ASSUME NEW f \in Frame, frames' = Append(frames, f) PROVE frames' \in Seq(Frame)
  BY <1>2, AppendFacts
<1>3. CASE PowerOff
  <2>1. frames' \in Seq(Frame)
    BY <1>2, <1>3, FrameTypes DEF PowerOff
  <2>2. <<>> \in Seq(Callers)
    OBVIOUS
  <2> QED BY <1>3, <2>1, <2>2 DEF PowerOff, Off
<1>4. CASE \E c \in Calls : Finish(c)
  <2>1. PICK c \in Calls : Finish(c)
    BY <1>4
  <2>2. (IF class[c] = "stream" THEN Final(c) ELSE Reply(c)) \in Frame
    BY FrameTypes DEF Callers
  <2>3. frames' \in Seq(Frame)
    BY <1>2, <2>1, <2>2 DEF Finish
  <2> QED BY <2>1, <2>3 DEF Finish
<1>5. ASSUME NEW c \in Streamers, NEW n \in 1 .. 2,
             printed[c] + n <= MaxChunks, printed' = [printed EXCEPT ![c] = @ + n]
      PROVE  printed' \in [Streamers -> 0 .. MaxChunks] /\ printed[c] + n \in 0 .. MaxChunks
  BY <1>5, BoundsAssumption
<1>6. CASE \E c \in Streamers : SendChunk(c)
  <2>1. PICK c \in Streamers : SendChunk(c)
    BY <1>6
  <2>2. printed[c] + 1 <= MaxChunks
    BY <2>1, BoundsAssumption DEF SendChunk
  <2>3. printed' \in [Streamers -> 0 .. MaxChunks] /\ printed[c] + 1 \in 0 .. MaxChunks
    BY <1>5, <2>1, <2>2 DEF SendChunk
  <2>4. Chunk(c, printed[c] + 1) \in Frame
    BY <2>3, FrameTypes
  <2>5. frames' \in Seq(Frame)
    BY <1>2, <2>1, <2>4 DEF SendChunk
  <2> QED BY <2>1, <2>3, <2>5 DEF SendChunk
<1>7. CASE \E c \in Streamers : SendBoth(c)
  <2>1. PICK c \in Streamers : SendBoth(c)
    BY <1>7
  <2>2. printed' \in [Streamers -> 0 .. MaxChunks]
    BY <1>5, <2>1 DEF SendBoth
  <2>3. frames' \in Seq(Frame)
    BY <1>2, <2>1, FrameTypes DEF SendBoth
  <2> QED BY <2>1, <2>2, <2>3 DEF SendBoth
<1>8. CASE GuestDies
  <2>1. <<>> \in Seq(Callers)
    OBVIOUS
  <2> QED BY <1>8, <2>1 DEF GuestDies, Off
<1>9. CASE Hang
  BY <1>9 DEF Hang
<1> QED BY <1>1, <1>3, <1>4, <1>6, <1>7, <1>8, <1>9 DEF Agent

\* Every step of a caller that reads preserves the types.
LEMMA ReadTyped ==
  ASSUME TypeOK, ClassOk, NEW c \in Callers, ReadStep(c) \/ ReadGarbage(c)
  PROVE  TypeOK'
<1> USE CallerSets DEF TypeOK, wire, context, stream, history
<1>1. ASSUME Return(c)
      PROVE  /\ lock' \in Callers \cup {NoCall}
             /\ pc' \in [Callers -> {"idle", "lock", "send", "read", "kill", "over"}]
  BY <1>1 DEF Return
<1>2. ASSUME frames # <<>>
      PROVE  Head(frames) \in Frame /\ Tail(frames) \in Seq(Frame)
  BY <1>2, TailFacts
<1>3. ASSUME class[c] = "stream" PROVE c \in Streamers
  BY <1>3 DEF ClassOk
<1>4. CASE ReadReply(c)
  <2>1. Head(frames).call \in Callers \cup {NoCall}
    BY <1>2, <1>4 DEF ReadReply, Reads, Frame
  <2>2. frames' \in Seq(Frame)
    BY <1>2, <1>4 DEF ReadReply, Reads
  <2>3. got' \in [Callers -> Callers \cup {NoCall}]
    BY <1>4, <2>1 DEF ReadReply
  <2> QED BY <1>1, <1>4, <2>2, <2>3 DEF ReadReply
<1>5. CASE ReadChunk(c)
  <2>1. c \in Streamers /\ Head(frames) \in Frame /\ frames' \in Seq(Frame)
    BY <1>2, <1>3, <1>5 DEF ReadChunk
  <2>2. Append(ch[c], Head(frames)) \in Seq(Frame)
    BY <2>1, AppendFacts
  <2>3. ch' \in [Streamers -> Seq(Frame)]
    <3>1. ch' = ch \/ ch' = [ch EXCEPT ![c] = Append(ch[c], Head(frames))]
      BY <1>5 DEF ReadChunk
    <3>2. ch \in [Streamers -> Seq(Frame)]
      OBVIOUS
    <3> HIDE DEF TypeOK, wire, context, stream, history
    <3> QED BY <2>1, <2>2, <3>1, <3>2
  <2> QED BY <1>5, <2>1, <2>3 DEF ReadChunk
<1>6. CASE ReadDone(c)
  <2>1. frames' \in Seq(Frame)
    BY <1>2, <1>6 DEF ReadDone, Reads
  <2> QED BY <1>1, <1>6, <2>1 DEF ReadDone
<1>7. CASE Abandon(c)
  <2>1. frames' \in Seq(Frame)
    BY <1>2, <1>7 DEF Abandon, Reads
  <2> QED BY <1>1, <1>7, <2>1 DEF Abandon
<1>8. CASE ReadTimesOut(c)
  <2>1. <<Garbage>> \o (IF frames = <<>> THEN <<>> ELSE Tail(frames)) \in Seq(Frame)
    BY CutFacts, FrameTypes
  <2>2. frames' \in Seq(Frame) /\ torn' \in BOOLEAN
    BY <1>8, <2>1 DEF ReadTimesOut
  <2>3. c \in Streamers /\ Note \in Frame
    BY <1>3, <1>8, FrameTypes DEF ReadTimesOut
  <2>4. Append(ch[c], Note) \in Seq(Frame)
    BY <2>3, AppendFacts
  <2>5. ch' \in [Streamers -> Seq(Frame)]
    BY <1>8, <2>3, <2>4 DEF ReadTimesOut
  <2> QED BY <1>1, <1>8, <2>2, <2>5 DEF ReadTimesOut
<1>9. CASE ReadFails(c)
  BY <1>1, <1>9 DEF ReadFails
<1>10. CASE ReadGarbage(c)
  <2>1. frames' \in Seq(Frame)
    BY <1>2, <1>10 DEF ReadGarbage, Reads
  <2> QED BY <1>1, <1>10, <2>1 DEF ReadGarbage
<1> QED BY <1>4, <1>5, <1>6, <1>7, <1>8, <1>9, <1>10 DEF ReadStep

\* Every step of a forwarder, of the client and of the clock preserves the types.
LEMMA ForwardTyped ==
  ASSUME TypeOK, NEW c \in Streamers, Forwarder(c) \/ Client(c) \/ Deadline(c)
  PROVE  TypeOK'
<1> USE CallerSets DEF TypeOK, wire, context, stream, history
<1>1. ASSUME NEW s \in Seq(Frame), s # <<>>
      PROVE  Head(s) \in Frame /\ Tail(s) \in Seq(Frame)
  BY <1>1, TailFacts
<1>2. CASE Forward(c)
  <2>1. Head(ch[c]) \in Frame /\ Tail(ch[c]) \in Seq(Frame)
    BY <1>1, <1>2 DEF Forward
  <2>2. Append(out[c], Head(ch[c])) \in Seq(Frame)
    BY <2>1, AppendFacts
  <2>3. ch' \in [Streamers -> Seq(Frame)] /\ out' \in [Streamers -> Seq(Frame)]
    BY <1>2, <2>1, <2>2 DEF Forward
  <2> QED BY <1>2, <2>3 DEF Forward
<1>3. CASE Drop(c)
  <2>1. Tail(ch[c]) \in Seq(Frame)
    BY <1>1, <1>3 DEF Drop
  <2>2. ch' \in [Streamers -> Seq(Frame)]
    BY <1>3, <2>1 DEF Drop
  <2> QED BY <1>3, <2>2 DEF Drop
<1>4. CASE CloseStream(c)
  <2>1. Append(out[c], Note) \in Seq(Frame)
    BY AppendFacts, FrameTypes
  <2>2. out' \in [Streamers -> Seq(Frame)]
    <3>1. out' = out \/ out' = [out EXCEPT ![c] = Append(out[c], Note)]
      BY <1>4 DEF CloseStream
    <3>2. out \in [Streamers -> Seq(Frame)]
      OBVIOUS
    <3> HIDE DEF TypeOK, wire, context, stream, history
    <3> QED BY <2>1, <3>1, <3>2
  <2> QED BY <1>4, <2>2 DEF CloseStream
<1>5. CASE Receive(c)
  <2>1. Head(out[c]) \in Frame /\ Tail(out[c]) \in Seq(Frame)
    BY <1>1, <1>5 DEF Receive
  <2>2. Append(received[c], Head(out[c])) \in Seq(Frame)
    BY <2>1, AppendFacts
  <2>3. received' \in [Streamers -> Seq(Frame)] /\ out' \in [Streamers -> Seq(Frame)]
    BY <1>5, <2>1, <2>2 DEF Receive
  <2> QED BY <1>5, <2>3 DEF Receive
<1>6. CASE Leave(c)
  BY <1>6 DEF Leave
<1>7. CASE Deadline(c)
  BY <1>7 DEF Deadline
<1> QED BY <1>2, <1>3, <1>4, <1>5, <1>6, <1>7 DEF Forwarder, Client

\* The disjuncts of Next, grouped as the lemmas are.
LEMMA NextCases ==
  ASSUME Next
  PROVE  \/ Agent \/ Hang \/ GuestDies
         \/ \E c \in Callers :
              \/ c \in Others /\ Request(c)
              \/ c \in Streamers /\ ExecStream(c)
              \/ Destroy \/ Lock(c) \/ Send(c) \/ SendFails(c) \/ Kill
         \/ \E c \in Callers : ReadStep(c) \/ ReadGarbage(c)
         \/ \E c \in Streamers : Forwarder(c) \/ Client(c) \/ Deadline(c)
  BY CallerSets DEF Next, SendStep

LEMMA NextTyped == ASSUME TypeOK, ClassOk, Next PROVE TypeOK'
  BY NextCases, AgentTyped, CallTyped, ReadTyped, ForwardTyped

-----------------------------------------------------------------------------
(* The mutex, the guest that is off, and the channels.                     *)

\* The call that returns gives the mutex back.
LEMMA ReturnHeld ==
  ASSUME TypeOK, Held, NEW c \in Callers, pc[c] \in {"send", "read"}, Return(c)
  PROVE  Held'
<1>1. lock = c /\ NoCall \notin Callers
  BY CallerSets DEF Held
<1>2. ASSUME NEW d \in Callers PROVE (pc[d] \in {"send", "read"} <=> lock = d)'
  <2>1. CASE d = c
    BY <1>1, <2>1 DEF Return, TypeOK
  <2>2. CASE d # c
    BY <1>1, <2>2 DEF Return, TypeOK, Held
  <2> QED BY <2>1, <2>2
<1> QED BY <1>2 DEF Held

\* Only the head of the queue for the mutex, the sender and the reader touch it.
LEMMA HeldKept == ASSUME TypeOK, Held, Next PROVE Held'
<1> USE CallerSets DEF TypeOK
<1>1. CASE UNCHANGED <<lock, pc>>
  BY <1>1 DEF Held
<1>2. ASSUME NEW c \in Callers, pc[c] \in {"send", "read"}, Return(c) PROVE Held'
  BY <1>2, ReturnHeld
<1>3. ASSUME NEW c \in Callers, NEW k, Start(c, k) PROVE Held'
  BY <1>3 DEF Start, Held
<1>4. ASSUME NEW c \in Callers, Lock(c) PROVE Held'
  <2>1. \A d \in Callers : (pc[d] \in {"send", "read"} <=> lock = d)'
    BY <1>4 DEF Lock, Held
  <2> QED BY <2>1 DEF Held
<1>5. ASSUME NEW c \in Callers, Send(c) PROVE Held'
  BY <1>5 DEF Send, Held
<1>6. CASE Kill
  BY <1>6 DEF Kill, Held
<1>7. CASE Agent \/ Hang \/ GuestDies
  <2>1. UNCHANGED <<lock, pc>>
    BY <1>7 DEF Agent, Hang, GuestDies, ReadRequest, PowerOff, Finish, SendChunk, SendBoth
  <2> QED BY <1>1, <2>1
<1>8. ASSUME NEW c \in Streamers, Forwarder(c) \/ Client(c) \/ Deadline(c) PROVE Held'
  <2>1. UNCHANGED <<lock, pc>>
    BY <1>8 DEF Forwarder, Client, Forward, Drop, CloseStream, Receive, Leave, Deadline
  <2> QED BY <1>1, <2>1
<1>9. ASSUME NEW c \in Callers, ReadStep(c) \/ ReadGarbage(c) PROVE Held'
  <2>1. CASE ReadChunk(c)
    <3>1. UNCHANGED <<lock, pc>>
      BY <2>1 DEF ReadChunk
    <3> QED BY <1>1, <3>1
  <2>2. CASE ~ReadChunk(c)
    <3>1. pc[c] = "read" /\ Return(c)
      BY <1>9, <2>2 DEF ReadStep, ReadReply, ReadDone, Abandon, ReadTimesOut, ReadFails,
                        ReadGarbage, Reads
    <3> QED BY <1>2, <3>1
  <2> QED BY <2>1, <2>2
<1>10. ASSUME NEW c \in Callers, SendFails(c) PROVE Held'
  <2>1. pc[c] = "send" /\ Return(c)
    BY <1>10 DEF SendFails
  <2> QED BY <1>2, <2>1
<1>11. ASSUME NEW c \in Callers, Request(c) PROVE Held'
  <2>1. PICK k : Start(c, k)
    BY <1>11 DEF Request, Call, Exec, ReadFile, WriteFile, ListFiles, StatFile, GlobFiles,
                 DeleteFile, MoveFile, ChmodFile
  <2> QED BY <1>3, <2>1
<1>12. ASSUME NEW c \in Streamers, ExecStream(c) PROVE Held'
  BY <1>3, <1>12 DEF ExecStream
<1>13. CASE Destroy
  BY <1>3, <1>13 DEF Destroy
<1> QED BY <1>4, <1>5, <1>6, <1>7, <1>8, <1>9, <1>10, <1>11, <1>12, <1>13, NextCases

\* A call has its class from its start on.
LEMMA ClassKept == ASSUME TypeOK, ClassOk, Next PROVE ClassOk'
<1> USE CallerSets DEF TypeOK
<1>1. ASSUME NEW c \in Callers, NEW k, Start(c, k), k = "stream" => c \in Streamers PROVE ClassOk'
  <2>1. \A d \in Callers : (class[d] = "stream" => d \in Streamers)'
    BY <1>1 DEF Start, ClassOk
  <2> QED BY <2>1 DEF ClassOk
<1>2. CASE UNCHANGED class
  BY <1>2 DEF ClassOk
<1>3. ASSUME NEW c \in Callers, Request(c) PROVE ClassOk'
  <2>1. PICK k : Start(c, k) /\ k # "stream"
    BY <1>3 DEF Request, Call, Exec, ReadFile, WriteFile, ListFiles, StatFile, GlobFiles,
                DeleteFile, MoveFile, ChmodFile
  <2> QED BY <1>1, <2>1
<1>4. ASSUME NEW c \in Streamers, ExecStream(c) PROVE ClassOk'
  BY <1>1, <1>4 DEF ExecStream
<1>5. CASE Destroy
  BY <1>1, <1>5 DEF Destroy
<1>6. CASE Agent \/ Hang \/ GuestDies
  <2>1. UNCHANGED class
    BY <1>6 DEF Agent, Hang, GuestDies, ReadRequest, PowerOff, Finish, SendChunk, SendBoth
  <2> QED BY <1>2, <2>1
<1>7. ASSUME NEW c \in Callers, Lock(c) \/ Send(c) \/ SendFails(c) \/ Kill PROVE ClassOk'
  <2>1. UNCHANGED class
    BY <1>7 DEF Lock, Send, SendFails, Kill
  <2> QED BY <1>2, <2>1
<1>8. ASSUME NEW c \in Callers, ReadStep(c) \/ ReadGarbage(c) PROVE ClassOk'
  <2>1. UNCHANGED class
    BY <1>8 DEF ReadStep, ReadReply, ReadChunk, ReadDone, Abandon, ReadTimesOut, ReadFails,
                ReadGarbage
  <2> QED BY <1>2, <2>1
<1>9. ASSUME NEW c \in Streamers, Forwarder(c) \/ Client(c) \/ Deadline(c) PROVE ClassOk'
  <2>1. UNCHANGED class
    BY <1>9 DEF Forwarder, Client, Forward, Drop, CloseStream, Receive, Leave, Deadline
  <2> QED BY <1>2, <2>1
<1> QED BY <1>3, <1>4, <1>5, <1>6, <1>7, <1>8, <1>9, NextCases

\* A guest that is off is sent nothing.
LEMMA CutKept == ASSUME TypeOK, Cut, Next PROVE Cut'
<1> USE DEF TypeOK
<1>1. CASE UNCHANGED <<guest, requests, serving>>
  BY <1>1 DEF Cut
<1>2. ASSUME NEW c \in Callers, Send(c) PROVE Cut'
  BY <1>2 DEF Send, Cut
<1>3. CASE Kill
  BY <1>3 DEF Kill, Cut
<1>4. CASE PowerOff \/ GuestDies
  BY <1>4 DEF PowerOff, GuestDies, Off, Cut
<1>5. CASE ReadRequest \/ Hang
  BY <1>5 DEF ReadRequest, Hang, wire, Cut
<1>6. CASE \E c \in Calls : Finish(c)
  BY <1>6 DEF Finish, Writable, Cut
<1>7. CASE \E c \in Streamers : SendChunk(c) \/ SendBoth(c)
  BY <1>7 DEF SendChunk, SendBoth, Writable, Cut
<1>8. ASSUME NEW c \in Callers, NEW k, Start(c, k) PROVE Cut'
  BY <1>1, <1>8 DEF Start, wire
<1>9. ASSUME NEW c \in Callers, Request(c) \/ ExecStream(c) \/ Destroy PROVE Cut'
  <2>1. PICK d \in Callers, k \in Classes : Start(d, k)
    BY <1>9, CallerSets
       DEF Request, Call, Exec, ReadFile, WriteFile, ListFiles, StatFile, GlobFiles,
           DeleteFile, MoveFile, ChmodFile, ExecStream, Destroy, Classes
  <2> QED BY <1>8, <2>1
<1>10. ASSUME NEW c \in Callers, Lock(c) \/ SendFails(c) PROVE Cut'
  <2>1. UNCHANGED <<guest, requests, serving>>
    BY <1>10 DEF Lock, SendFails, wire
  <2> QED BY <1>1, <2>1
<1>11. ASSUME NEW c \in Callers, ReadStep(c) \/ ReadGarbage(c) PROVE Cut'
  <2>1. UNCHANGED <<guest, requests, serving>>
    BY <1>11 DEF ReadStep, ReadReply, ReadChunk, ReadDone, Abandon, ReadTimesOut, ReadFails,
                 ReadGarbage, wire
  <2> QED BY <1>1, <2>1
<1>12. ASSUME NEW c \in Streamers, Forwarder(c) \/ Client(c) \/ Deadline(c) PROVE Cut'
  <2>1. UNCHANGED <<guest, requests, serving>>
    BY <1>12 DEF Forwarder, Client, Forward, Drop, CloseStream, Receive, Leave, Deadline, wire
  <2> QED BY <1>1, <2>1
<1>13. CASE Agent
  BY <1>4, <1>5, <1>6, <1>7, <1>13 DEF Agent
<1> QED BY <1>2, <1>3, <1>4, <1>5, <1>9, <1>10, <1>11, <1>12, <1>13, NextCases, CallerSets

-----------------------------------------------------------------------------
(* The exchange under way, as long as nothing is broken.                   *)

\* What a step that breaks nothing leaves of broken.
LEMMA StillWhole == ASSUME TypeOK, Next, ~broken' PROVE ~broken
  BY NextCases
     DEF TypeOK, history, Agent, Hang, GuestDies, ReadRequest, PowerOff, Finish, SendChunk, SendBoth,
         Lock, Send, SendFails, Kill, ReadStep, ReadReply, ReadChunk, ReadDone, Abandon,
         ReadTimesOut, ReadFails, ReadGarbage, Forwarder, Client, Forward, Drop, CloseStream,
         Receive, Leave, Deadline, Request, Call, Exec, ReadFile, WriteFile, ListFiles, StatFile,
         GlobFiles, DeleteFile, MoveFile, ChmodFile, ExecStream, Destroy, Start

\* Nothing is under way.
Quiet == requests = <<>> /\ serving = NoCall /\ frames = <<>>

LEMMA QuietExchange == ASSUME Quiet' PROVE Exchange'
  BY DEF Quiet, Exchange

\* The agent adds the frame f to the answer.
LEMMA AnswerGrows ==
  ASSUME TypeOK, Exchange, NEW f \in Frame,
         serving # NoCall, frames' = Append(frames, f), requests' = requests,
         UNCHANGED <<lock, pc, class>>,
         serving' \in {serving, NoCall}, f.call \in {serving, NoCall},
         f.kind = "chunk" => class[serving] = "stream",
         f.kind = "done" => class[serving] = "stream" /\ serving' = NoCall,
         f.kind = "reply" => class[serving] # "stream" /\ serving' = NoCall
  PROVE  Exchange'
<1>1. serving = lock /\ requests = <<>> /\ lock \in Callers /\ pc[lock] = "read"
  BY DEF Exchange
<1>2. /\ DOMAIN frames = 1 .. Len(frames) /\ Len(frames) \in Nat
      /\ DOMAIN frames' = 1 .. Len(frames) + 1 /\ Len(frames') = Len(frames) + 1
      /\ \A i \in 1 .. Len(frames) : frames'[i] = frames[i]
      /\ frames'[Len(frames) + 1] = f
  BY AppendFacts DEF TypeOK
<1>3. ASSUME NEW i \in 1 .. Len(frames) + 1
      PROVE  /\ frames'[i].call \in {lock, NoCall}
             /\ frames'[i].kind = "chunk" => class[lock] = "stream"
             /\ frames'[i].kind = "done" =>
                  class[lock] = "stream" /\ i = Len(frames') /\ serving' = NoCall
             /\ frames'[i].kind = "reply" =>
                  class[lock] # "stream" /\ i = Len(frames') /\ serving' = NoCall
  <2>1. CASE i \in 1 .. Len(frames)
    <3>1. frames'[i] = frames[i] /\ i \in DOMAIN frames
      BY <1>2, <2>1
    <3> QED BY <1>1, <3>1 DEF Exchange
  <2>2. CASE i = Len(frames) + 1
    BY <1>1, <1>2, <2>2
  <2> QED BY <1>2, <2>1, <2>2
<1>4. frames' # <<>>
  BY <1>2
<1> QED BY <1>1, <1>2, <1>3, <1>4 DEF Exchange

\* The reader has taken a frame that does not end the answer.
LEMMA AnswerShrinks ==
  ASSUME TypeOK, Exchange, frames # <<>>, frames' = Tail(frames),
         UNCHANGED <<lock, pc, class, requests, serving>>
  PROVE  Exchange'
<1>1. /\ Len(frames) \in Nat \ {0} /\ DOMAIN frames = 1 .. Len(frames)
      /\ DOMAIN frames' = 1 .. Len(frames) - 1 /\ Len(frames') = Len(frames) - 1
      /\ \A i \in 1 .. Len(frames) - 1 : frames'[i] = frames[i + 1]
  BY TailFacts DEF TypeOK
<1>2. ASSUME NEW i \in 1 .. Len(frames) - 1
      PROVE  /\ frames'[i].call \in {lock, NoCall}
             /\ frames'[i].kind = "chunk" => class[lock] = "stream"
             /\ frames'[i].kind = "done" =>
                  class[lock] = "stream" /\ i = Len(frames') /\ serving = NoCall
             /\ frames'[i].kind = "reply" =>
                  class[lock] # "stream" /\ i = Len(frames') /\ serving = NoCall
  <2>1. i + 1 \in DOMAIN frames /\ frames'[i] = frames[i + 1]
    BY <1>1
  <2>2. i \in Nat /\ Len(frames') \in Nat /\ Len(frames) = Len(frames') + 1
    BY <1>1
  <2>3. \A j, n, m \in Nat : m = n + 1 /\ j + 1 = m => j = n
    OBVIOUS
  <2>4. i + 1 = Len(frames) => i = Len(frames')
    BY <1>1, <2>2, <2>3, Zenon
  <2> QED BY <2>1, <2>4 DEF Exchange
<1>3. requests = <<>> /\ lock \in Callers /\ pc[lock] = "read"
  BY DEF Exchange
<1> QED BY <1>1, <1>2, <1>3 DEF Exchange

\* The frame that the reader is given.
LEMMA FirstFrame ==
  ASSUME TypeOK, Exchange, Held, NEW c \in Callers, pc[c] = "read", frames # <<>>
  PROVE  /\ lock = c /\ requests = <<>>
         /\ Head(frames) \in Frame /\ Head(frames).call \in {c, NoCall}
         /\ Head(frames).kind = "chunk" => class[c] = "stream"
         /\ Head(frames).kind = "done" => class[c] = "stream"
         /\ Head(frames).kind = "reply" => class[c] # "stream"
         /\ Head(frames).kind \in {"done", "reply"} => serving = NoCall /\ Tail(frames) = <<>>
<1>1. lock = c /\ requests = <<>>
  BY DEF Held, Exchange
<1>2. /\ 1 \in DOMAIN frames /\ Head(frames) = frames[1] /\ Head(frames) \in Frame
      /\ Tail(frames) \in Seq(Frame) /\ Len(Tail(frames)) = Len(frames) - 1
  BY TailFacts DEF TypeOK
<1>3. Len(frames) = 1 => Tail(frames) = <<>>
  <2>1. Len(frames) = 1 => Len(Tail(frames)) = 0
    BY <1>2
  <2> QED BY <1>2, <2>1, EmptyFacts
<1> QED BY <1>1, <1>2, <1>3 DEF Exchange

\* A step that breaks nothing keeps the exchange in its stages.
LEMMA ExchangeKept ==
  ASSUME TypeOK, ClassOk, Held, Cut, Exchange, Next, ~broken'
  PROVE  Exchange'
<1> USE CallerSets
<1>1. CASE UNCHANGED <<lock, pc, class, requests, serving, frames>>
  BY <1>1 DEF Exchange
<1>2. ASSUME NEW c \in Callers, NEW k, Start(c, k) PROVE Exchange'
  <2>1. pc[c] = "idle" /\ UNCHANGED <<lock, requests, serving, frames>>
    BY <1>2 DEF Start, wire
  <2>2. ASSUME lock \in Callers, pc[lock] = "read"
        PROVE  pc'[lock] = pc[lock] /\ class'[lock] = class[lock]
    BY <1>2, <2>1, <2>2 DEF Start, TypeOK
  <2>3. ASSUME requests # <<>> \/ serving # NoCall \/ frames # <<>> PROVE Exchange'
    <3>1. lock \in Callers /\ pc[lock] = "read"
      BY <2>3 DEF Exchange
    <3> QED BY <2>1, <2>2, <3>1 DEF Exchange
  <2>4. CASE Quiet
    BY <2>1, <2>4, QuietExchange DEF Quiet
  <2> QED BY <2>3, <2>4 DEF Quiet
<1>3. ASSUME NEW c \in Callers, Request(c) \/ ExecStream(c) \/ Destroy PROVE Exchange'
  <2>1. PICK d \in Callers, k \in Classes : Start(d, k)
    BY <1>3
       DEF Request, Call, Exec, ReadFile, WriteFile, ListFiles, StatFile, GlobFiles,
           DeleteFile, MoveFile, ChmodFile, ExecStream, Destroy, Classes
  <2> QED BY <1>2, <2>1
<1>4. ASSUME NEW c \in Callers, Lock(c) PROVE Exchange'
  <2>1. Quiet /\ UNCHANGED <<requests, serving, frames>>
    BY <1>4 DEF Lock, Exchange, Quiet, wire
  <2> QED BY <2>1, QuietExchange DEF Quiet
<1>5. ASSUME NEW c \in Callers, pc[c] = "send" PROVE Quiet /\ lock = c
  BY <1>5 DEF Held, Exchange, Quiet
<1>6. ASSUME NEW c \in Callers, Send(c) PROVE Exchange'
  <2>1. Quiet /\ lock = c
    BY <1>5, <1>6 DEF Send
  <2>2. /\ requests' = <<c>> /\ pc'[c] = "read"
        /\ lock' = c /\ serving' = NoCall /\ frames' = <<>>
    BY <1>6, <2>1 DEF Send, Quiet, TypeOK
  <2> QED BY <2>2 DEF Exchange
<1>7. ASSUME NEW c \in Callers, SendFails(c) PROVE Exchange'
  <2>1. Quiet /\ UNCHANGED <<requests, serving, frames>>
    BY <1>5, <1>7 DEF SendFails, wire
  <2> QED BY <2>1, QuietExchange DEF Quiet
<1>8. CASE Kill
  BY <1>8, QuietExchange DEF Kill, Quiet
<1>9. CASE ReadRequest
  <2>1. requests = <<lock>> /\ frames = <<>> /\ lock \in Callers /\ pc[lock] = "read"
    BY <1>9 DEF ReadRequest, Exchange
  <2>2. /\ serving' = lock /\ requests' = <<>> /\ frames' = <<>>
        /\ UNCHANGED <<lock, pc, class>>
    BY <1>9, <2>1 DEF ReadRequest
  <2> QED BY <2>1, <2>2 DEF Exchange
<1>10. CASE PowerOff
  <2>1. /\ serving = Destroyer /\ serving' = NoCall /\ requests' = <<>>
        /\ frames' = Append(frames, Reply(Destroyer)) /\ UNCHANGED <<lock, pc, class>>
    BY <1>10 DEF PowerOff, Off
  <2>2. requests = <<>> /\ class[Destroyer] # "stream"
    BY <2>1 DEF Exchange, ClassOk
  <2>3. Reply(Destroyer) \in Frame /\ Reply(Destroyer).call = Destroyer
        /\ Reply(Destroyer).kind = "reply"
    BY FrameTypes DEF Reply
  <2> QED BY <2>1, <2>2, <2>3, AnswerGrows
<1>11. ASSUME NEW c \in Calls, Finish(c) PROVE Exchange'
  <2> DEFINE f == IF class[c] = "stream" THEN Final(c) ELSE Reply(c)
  <2>1. /\ serving = c /\ serving' = NoCall /\ UNCHANGED <<requests, lock, pc, class>>
        /\ frames' = Append(frames, f)
    BY <1>11 DEF Finish
  <2>2. /\ c \in Callers /\ f \in Frame /\ f.call = c
        /\ f.kind = IF class[c] = "stream" THEN "done" ELSE "reply"
    BY FrameTypes DEF Final, Reply, Callers
  <2> HIDE DEF f
  <2> QED BY <2>1, <2>2, AnswerGrows
<1>12. ASSUME NEW c \in Streamers, SendChunk(c) PROVE Exchange'
  <2> DEFINE f == Chunk(c, printed[c] + 1)
  <2>1. /\ serving = c /\ UNCHANGED <<requests, serving, lock, pc, class>>
        /\ class[c] = "stream" /\ frames' = Append(frames, f) /\ printed[c] < MaxChunks
    BY <1>12 DEF SendChunk
  <2>2. printed[c] + 1 \in 0 .. MaxChunks
    BY <2>1, BoundsAssumption DEF TypeOK
  <2>3. f \in Frame /\ f.call = c /\ f.kind = "chunk"
    BY <2>2, FrameTypes DEF Chunk
  <2> HIDE DEF f
  <2> QED BY <2>1, <2>3, AnswerGrows
<1>13. ASSUME NEW c \in Streamers, SendBoth(c) PROVE Exchange'
  <2>1. /\ serving = c /\ UNCHANGED <<requests, serving, lock, pc, class>>
        /\ frames' = Append(frames, Garbage)
    BY <1>13 DEF SendBoth
  <2>2. Garbage \in Frame /\ Garbage.call = NoCall /\ Garbage.kind = "garbage"
    BY FrameTypes DEF Garbage
  <2> QED BY <2>1, <2>2, AnswerGrows
<1>14. CASE Agent \/ Hang \/ GuestDies
  <2>1. CASE Hang
    <3>1. UNCHANGED <<requests, serving, frames, lock, pc, class>>
      BY <2>1 DEF Hang, wire
    <3> QED BY <3>1 DEF Exchange
  <2>2. CASE Agent \/ GuestDies
    BY <1>9, <1>10, <1>11, <1>12, <1>13, <2>2 DEF Agent, GuestDies
  <2> QED BY <1>14, <2>1, <2>2
<1>15. ASSUME NEW c \in Callers, ReadReply(c) PROVE Exchange'
  <2>1. /\ class[c] # "stream" /\ pc[c] = "read" /\ frames # <<>>
        /\ Head(frames).kind \in {"chunk", "done", "reply"}
        /\ frames' = Tail(frames) /\ UNCHANGED <<requests, serving>>
    BY <1>15 DEF ReadReply, Reads
  <2>2. Quiet'
    BY <2>1, FirstFrame DEF Quiet
  <2> QED BY <2>2, QuietExchange
<1>16. ASSUME NEW c \in Callers, ReadChunk(c) PROVE Exchange'
  <2>1. frames # <<>> /\ frames' = Tail(frames) /\ UNCHANGED <<lock, pc, class, requests, serving>>
    BY <1>16 DEF ReadChunk
  <2> QED BY <2>1, AnswerShrinks
<1>17. ASSUME NEW c \in Callers, ReadDone(c) PROVE Exchange'
  <2>1. /\ pc[c] = "read" /\ frames # <<>> /\ Head(frames).kind = "done"
        /\ frames' = Tail(frames) /\ UNCHANGED <<requests, serving>>
    BY <1>17 DEF ReadDone, Reads
  <2>2. Quiet'
    BY <2>1, FirstFrame DEF Quiet
  <2> QED BY <2>2, QuietExchange
<1>18. ASSUME NEW c \in Callers, ReadFails(c) PROVE Exchange'
  <2>1. Quiet'
    BY <1>18 DEF ReadFails, wire, Cut, Quiet
  <2> QED BY <2>1, QuietExchange
<1>19. ASSUME NEW c \in Callers, ReadStep(c) \/ ReadGarbage(c) PROVE Exchange'
  BY <1>15, <1>16, <1>17, <1>18, <1>19
     DEF ReadStep, Abandon, ReadTimesOut, ReadGarbage
<1>20. ASSUME NEW c \in Streamers, Forwarder(c) \/ Client(c) \/ Deadline(c) PROVE Exchange'
  <2>1. UNCHANGED <<lock, pc, class, requests, serving, frames>>
    BY <1>20 DEF Forwarder, Client, Forward, Drop, CloseStream, Receive, Leave, Deadline, wire
  <2> QED BY <1>1, <2>1
<1> QED BY <1>3, <1>4, <1>6, <1>7, <1>8, <1>14, <1>19, <1>20, NextCases

-----------------------------------------------------------------------------
(* What the host is given.                                                 *)

\* The frame goes to whoever it belongs to: f is a frame of c or nobody's, and
\* only c's sequence of queue changes.
LEMMA OwnGrows ==
  ASSUME NEW queue, queue \in [Streamers -> Seq(Frame)], NEW c \in Streamers,
         \A d \in Streamers : Own(d, queue[d]),
         NEW f \in Frame, f.call \in {c, NoCall}
  PROVE  \A d \in Streamers : Own(d, [queue EXCEPT ![c] = Append(@, f)][d])
<1>1. Own(c, Append(queue[c], f))
  BY OwnAppend
<1> QED BY <1>1

LEMMA OwnShrinks ==
  ASSUME NEW queue, queue \in [Streamers -> Seq(Frame)], NEW c \in Streamers,
         \A d \in Streamers : Own(d, queue[d]), queue[c] # <<>>
  PROVE  /\ \A d \in Streamers : Own(d, [queue EXCEPT ![c] = Tail(@)][d])
         /\ Head(queue[c]) \in Frame /\ Head(queue[c]).call \in {c, NoCall}
<1>1. /\ Own(c, Tail(queue[c]))
      /\ Head(queue[c]) \in Frame /\ Head(queue[c]).call \in {c, NoCall}
  BY OwnTail
<1> QED BY <1>1

\* A step that breaks nothing gives every call what is its own.
LEMMA ContentsKept ==
  ASSUME TypeOK, ClassOk, Held, Exchange, Contents, Next, ~broken'
  PROVE  Contents'
<1> USE CallerSets DEF TypeOK
<1>1. CASE UNCHANGED <<got, ch, out, received>>
  BY <1>1 DEF Contents, Own
<1>2. Note \in Frame /\ Note.call = NoCall
  BY FrameTypes DEF Note
<1>3. ASSUME NEW c \in Callers, ReadReply(c) PROVE Contents'
  <2>1. pc[c] = "read" /\ frames # <<>>
    BY <1>3 DEF ReadReply, Reads
  <2>2. Head(frames).call \in {c, NoCall}
    BY <2>1, FirstFrame
  <2>3. /\ got' = [got EXCEPT ![c] =
             IF class[c] = "decoded" /\ Head(frames).kind # "reply"
               THEN NoCall ELSE Head(frames).call]
        /\ UNCHANGED <<ch, out, received>>
    BY <1>3 DEF ReadReply, stream
  <2>4. \A d \in Callers : got'[d] \in {d, NoCall}
    BY <2>2, <2>3 DEF Contents
  <2> QED BY <2>3, <2>4 DEF Contents, Own
<1>4. ASSUME NEW c \in Callers, ReadChunk(c) PROVE Contents'
  <2>1. pc[c] = "read" /\ frames # <<>> /\ UNCHANGED <<got, out, received>>
    BY <1>4 DEF ReadChunk
  <2>2. c \in Streamers /\ Head(frames) \in Frame /\ Head(frames).call \in {c, NoCall}
    BY <1>4, <2>1, FirstFrame DEF ReadChunk, ClassOk
  <2>3. ch' \in {ch, [ch EXCEPT ![c] = Append(@, Head(frames))]}
    BY <1>4 DEF ReadChunk
  <2>4. \A d \in Streamers : Own(d, [ch EXCEPT ![c] = Append(@, Head(frames))][d])
    BY <2>2, OwnGrows DEF Contents
  <2>5. \A d \in Streamers : Own(d, ch[d])'
    BY <2>3, <2>4 DEF Contents, Own
  <2> QED BY <2>1, <2>5 DEF Contents, Own
<1>5. ASSUME NEW c \in Streamers, Forward(c) PROVE Contents'
  <2>1. /\ ch[c] # <<>> /\ UNCHANGED <<got, received>>
        /\ ch' = [ch EXCEPT ![c] = Tail(@)]
        /\ out' = [out EXCEPT ![c] = Append(@, Head(ch[c]))]
    BY <1>5 DEF Forward
  <2>2. /\ \A d \in Streamers : Own(d, [ch EXCEPT ![c] = Tail(@)][d])
        /\ Head(ch[c]) \in Frame /\ Head(ch[c]).call \in {c, NoCall}
    BY <2>1, OwnShrinks DEF Contents
  <2>3. \A d \in Streamers : Own(d, [out EXCEPT ![c] = Append(@, Head(ch[c]))][d])
    BY <2>2, OwnGrows DEF Contents
  <2> QED BY <2>1, <2>2, <2>3 DEF Contents, Own
<1>6. ASSUME NEW c \in Streamers, Drop(c) PROVE Contents'
  <2>1. ch[c] # <<>> /\ ch' = [ch EXCEPT ![c] = Tail(@)] /\ UNCHANGED <<got, out, received>>
    BY <1>6 DEF Drop
  <2>2. \A d \in Streamers : Own(d, [ch EXCEPT ![c] = Tail(@)][d])
    BY <2>1, OwnShrinks DEF Contents
  <2> QED BY <2>1, <2>2 DEF Contents, Own
<1>7. ASSUME NEW c \in Streamers, CloseStream(c) PROVE Contents'
  <2>1. /\ out' \in {out, [out EXCEPT ![c] = Append(@, Note)]}
        /\ UNCHANGED <<got, ch, received>>
    BY <1>7 DEF CloseStream
  <2>2. \A d \in Streamers : Own(d, [out EXCEPT ![c] = Append(@, Note)][d])
    BY <1>2, OwnGrows DEF Contents
  <2> QED BY <2>1, <2>2 DEF Contents, Own
<1>8. ASSUME NEW c \in Streamers, Receive(c) PROVE Contents'
  <2>1. /\ out[c] # <<>> /\ UNCHANGED <<got, ch>>
        /\ received' = [received EXCEPT ![c] = Append(@, Head(out[c]))]
        /\ out' = [out EXCEPT ![c] = Tail(@)]
    BY <1>8 DEF Receive
  <2>2. /\ \A d \in Streamers : Own(d, [out EXCEPT ![c] = Tail(@)][d])
        /\ Head(out[c]) \in Frame /\ Head(out[c]).call \in {c, NoCall}
    BY <2>1, OwnShrinks DEF Contents
  <2>3. \A d \in Streamers : Own(d, [received EXCEPT ![c] = Append(@, Head(out[c]))][d])
    BY <2>2, OwnGrows DEF Contents
  <2> QED BY <2>1, <2>2, <2>3 DEF Contents, Own
<1>9. ASSUME NEW c \in Callers, SendFails(c) PROVE Contents'
  <2>1. UNCHANGED <<got, ch, received>>
    BY <1>9 DEF SendFails
  <2>2. CASE class[c] = "stream"
    <3> DEFINE begun == IF c \in expired THEN <<Note>> ELSE <<>>
    <3>1. c \in Streamers /\ out' = [out EXCEPT ![c] = begun]
      BY <1>9, <2>2 DEF SendFails, ClassOk
    <3>2. \A i \in DOMAIN begun : begun[i] = Note
      OBVIOUS
    <3>3. Own(c, begun)
      BY <1>2, <3>2 DEF Own
    <3> HIDE DEF begun
    <3>4. \A d \in Streamers : Own(d, out'[d])
      BY <3>1, <3>3 DEF Contents
    <3> QED BY <2>1, <3>4 DEF Contents, Own
  <2>3. CASE class[c] # "stream"
    <3>1. UNCHANGED out
      BY <1>9, <2>3 DEF SendFails
    <3> QED BY <1>1, <2>1, <3>1
  <2> QED BY <2>2, <2>3
<1>10. ASSUME NEW c \in Callers, Request(c) \/ ExecStream(c) \/ Destroy PROVE Contents'
  <2>1. UNCHANGED <<got, ch, out, received>>
    BY <1>10
       DEF Request, Call, Exec, ReadFile, WriteFile, ListFiles, StatFile, GlobFiles,
           DeleteFile, MoveFile, ChmodFile, ExecStream, Destroy, Start, stream
  <2> QED BY <1>1, <2>1
<1>11. ASSUME NEW c \in Callers, Lock(c) \/ Send(c) \/ Kill PROVE Contents'
  <2>1. UNCHANGED <<got, ch, out, received>>
    BY <1>11 DEF Lock, Send, Kill, stream
  <2> QED BY <1>1, <2>1
<1>12. CASE Agent \/ Hang \/ GuestDies
  <2>1. UNCHANGED <<got, ch, out, received>>
    BY <1>12 DEF Agent, Hang, GuestDies, ReadRequest, PowerOff, Finish, SendChunk, SendBoth, stream
  <2> QED BY <1>1, <2>1
<1>13. ASSUME NEW c \in Callers, ReadDone(c) \/ ReadFails(c) PROVE Contents'
  <2>1. UNCHANGED <<got, ch, out, received>>
    BY <1>13 DEF ReadDone, ReadFails, stream
  <2> QED BY <1>1, <2>1
<1>14. ASSUME NEW c \in Callers, ReadStep(c) \/ ReadGarbage(c) PROVE Contents'
  BY <1>3, <1>4, <1>13, <1>14 DEF ReadStep, Abandon, ReadTimesOut, ReadGarbage
<1>15. ASSUME NEW c \in Streamers, Leave(c) \/ Deadline(c) PROVE Contents'
  <2>1. UNCHANGED <<got, ch, out, received>>
    BY <1>15 DEF Leave, Deadline, stream
  <2> QED BY <1>1, <2>1
<1>16. ASSUME NEW c \in Streamers, Forwarder(c) \/ Client(c) \/ Deadline(c) PROVE Contents'
  BY <1>5, <1>6, <1>7, <1>8, <1>15, <1>16 DEF Forwarder, Client
<1> QED BY <1>9, <1>10, <1>11, <1>12, <1>14, <1>16, NextCases

-----------------------------------------------------------------------------
(* The output of a command.                                                *)

\* A stream has output from its first read on, and none in ch once out is closed.
Fresh ==
  \A c \in Streamers :
    /\ pc[c] \in {"idle", "lock", "send"} =>
         ch[c] = <<>> /\ out[c] = <<>> /\ received[c] = <<>>
    /\ pc[c] # "idle" => class[c] = "stream"
    /\ c \in closed => pc[c] = "over" /\ ch[c] = <<>>

EndsWithNote(s) == s # <<>> /\ s[Len(s)] = Note

\* The note of a time-out is the last that a stream's handler is sent.
NoteLast ==
  \A c \in (closed \cap expired) \ left :
    EndsWithNote(out[c]) \/ (out[c] = <<>> /\ EndsWithNote(received[c]))

\* Only the Destroy turns a guest off without breaking an exchange, and its own
\* answer is the only one that is under way then.
Gone ==
  /\ guest = "off" => \A c \in Streamers : pc[c] # "read"
  /\ pc[Destroyer] \in {"kill", "over"} => guest = "off"
  /\ lock = Destroyer /\ frames # <<>> => guest = "off"

\* A command prints when its request has been sent.
Unprinted == \A c \in Streamers : pc[c] \in {"idle", "lock", "send"} => printed[c] = 0

\* s holds the chunks of c after the first k, in order.
Numbered(c, s, k) == \A i \in DOMAIN s : s[i] = Chunk(c, k + i)

\* What the host has of the output of c.
Seen(c) == Len(received[c]) + Len(out[c]) + Len(ch[c])

\* The handler, the two channels and the connection hold all of the output of c
\* between them, in order.
Ended == \E i \in DOMAIN frames : frames[i].kind = "done"
Exact(c) ==
  /\ Numbered(c, received[c], 0)
  /\ Numbered(c, out[c], Len(received[c]))
  /\ Numbered(c, ch[c], Len(received[c]) + Len(out[c]))
  /\ pc[c] # "read" => printed[c] = Seen(c)
  /\ pc[c] = "read" =>
       /\ \A i \in DOMAIN frames : frames[i].kind = "chunk" => frames[i] = Chunk(c, Seen(c) + i)
       /\ printed[c] + (IF Ended THEN 1 ELSE 0) = Seen(c) + Len(frames)

\* Mixed-up chunks that the reader has yet to come to: it will not get past them.
Mixed == \E i \in DOMAIN frames : frames[i].kind = "garbage"
Whole == \A c \in Streamers \ (expired \cup left) : (pc[c] = "read" /\ Mixed) \/ Exact(c)

-----------------------------------------------------------------------------
(* The stages of a stream, and the note at its end.                        *)

\* A call that starts has been idle, and only its own class and stage change.
LEMMA Starts ==
  ASSUME TypeOK, NEW c \in Callers,
         \/ c \in Others /\ Request(c)
         \/ c \in Streamers /\ ExecStream(c)
         \/ Destroy
  PROVE  \E d \in Callers, k \in Classes :
           /\ pc[d] = "idle" /\ pc' = [pc EXCEPT ![d] = "lock"]
           /\ class' = [class EXCEPT ![d] = k]
           /\ d \in Streamers => k = "stream"
           /\ UNCHANGED <<guest, lock, requests, serving, printed, frames, expired, left,
                          ch, out, closed, received, got, torn, broken>>
<1> USE CallerSets
<1>1. CASE c \in Others /\ Request(c)
  <2>1. PICK k \in Classes : Call(c, k)
    BY <1>1 DEF Request, Exec, ReadFile, WriteFile, ListFiles, StatFile, GlobFiles, DeleteFile,
                MoveFile, ChmodFile, Classes
  <2> QED BY <1>1, <2>1 DEF Call, Start, wire, stream, history
<1>2. CASE c \in Streamers /\ ExecStream(c)
  BY <1>2 DEF ExecStream, Start, wire, stream, history, Classes
<1>3. CASE Destroy
  BY <1>3 DEF Destroy, Start, wire, stream, history, Classes
<1> QED BY <1>1, <1>2, <1>3

\* The stages of the streams, step by step.
LEMMA FreshKept == ASSUME TypeOK, ClassOk, Fresh, Next PROVE Fresh'
<1> USE CallerSets DEF TypeOK
<1>1. CASE UNCHANGED <<pc, class, ch, out, received, closed>>
  BY <1>1 DEF Fresh
<1>2. ASSUME NEW c \in Callers,
             \/ c \in Others /\ Request(c)
             \/ c \in Streamers /\ ExecStream(c)
             \/ Destroy
      PROVE  Fresh'
  <2>1. PICK d \in Callers, k \in Classes :
           /\ pc[d] = "idle" /\ pc' = [pc EXCEPT ![d] = "lock"]
           /\ class' = [class EXCEPT ![d] = k]
           /\ d \in Streamers => k = "stream"
           /\ UNCHANGED <<ch, out, received, closed>>
    BY <1>2, Starts
  <2>2. \A e \in Streamers \ {d} : pc'[e] = pc[e] /\ class'[e] = class[e]
    BY <2>1
  <2>3. d \in Streamers => pc'[d] = "lock" /\ class'[d] = "stream"
    BY <2>1
  <2> QED BY <2>1, <2>2, <2>3 DEF Fresh
<1>3. ASSUME NEW c \in Callers, Lock(c) \/ Send(c) PROVE Fresh'
  <2>1. /\ pc[c] \in {"lock", "send"} /\ pc' \in {[pc EXCEPT ![c] = "send"], [pc EXCEPT ![c] = "read"]}
        /\ pc[c] = "lock" => pc' = [pc EXCEPT ![c] = "send"]
        /\ UNCHANGED <<class, ch, out, received, closed>>
    BY <1>3 DEF Lock, Send, stream
  <2> QED BY <2>1 DEF Fresh
<1>4. ASSUME NEW c \in Callers, SendFails(c) PROVE Fresh'
  <2>1. /\ pc[c] = "send" /\ UNCHANGED <<class, ch, received>>
        /\ pc' = [pc EXCEPT ![c] = IF c = Destroyer THEN "kill" ELSE "over"]
    BY <1>4 DEF SendFails, Return
  <2>2. \A d \in Streamers \ {c} : out'[d] = out[d] /\ (d \in closed' <=> d \in closed)
    BY <1>4 DEF SendFails
  <2>3. \A d \in Streamers \ {c} : pc'[d] = pc[d]
    BY <2>1
  <2>4. c \in Streamers => pc'[c] = "over" /\ ch'[c] = <<>> /\ class'[c] = "stream"
    BY <2>1 DEF Fresh
  <2> QED BY <2>1, <2>2, <2>3, <2>4 DEF Fresh
<1>5. CASE Kill
  <2>1. /\ pc' = [pc EXCEPT ![Destroyer] = "over"] /\ UNCHANGED <<class, ch, out, received, closed>>
    BY <1>5 DEF Kill, stream
  <2>2. \A d \in Streamers : pc'[d] = pc[d]
    BY <2>1
  <2> QED BY <2>1, <2>2 DEF Fresh
<1>6. CASE Agent \/ Hang \/ GuestDies
  <2>1. UNCHANGED <<pc, class, ch, out, received, closed>>
    BY <1>6 DEF Agent, Hang, GuestDies, ReadRequest, PowerOff, Finish, SendChunk, SendBoth, stream
  <2> QED BY <1>1, <2>1
<1>7. ASSUME NEW c \in Callers, ReadStep(c) \/ ReadGarbage(c) PROVE Fresh'
  <2>1. /\ pc[c] = "read" /\ UNCHANGED <<class, out, received, closed>>
        /\ \/ pc' = pc
           \/ pc' = [pc EXCEPT ![c] = IF c = Destroyer THEN "kill" ELSE "over"]
    BY <1>7 DEF ReadStep, ReadReply, ReadChunk, ReadDone, Abandon, ReadTimesOut, ReadFails,
                ReadGarbage, Reads, Return, stream
  <2>2. \A d \in Streamers \ {c} : ch'[d] = ch[d]
    BY <1>7 DEF ReadStep, ReadReply, ReadChunk, ReadDone, Abandon, ReadTimesOut, ReadFails,
                ReadGarbage, stream
  <2>3. ASSUME NEW d \in Streamers \ {c} PROVE pc'[d] = pc[d]
    BY <2>1
  <2>4. c \in Streamers => pc'[c] \in {"read", "over"} /\ c \notin closed /\ class[c] = "stream"
    BY <2>1 DEF Fresh
  <2> QED BY <2>1, <2>2, <2>3, <2>4 DEF Fresh
<1>8. ASSUME NEW c \in Streamers, Forward(c) \/ Drop(c) \/ Receive(c) PROVE Fresh'
  <2>1. /\ UNCHANGED <<pc, class, closed>>
        /\ \A d \in Streamers \ {c} : UNCHANGED <<ch[d], out[d], received[d]>>
    BY <1>8 DEF Forward, Drop, Receive
  <2>2. pc[c] \notin {"idle", "lock", "send"}
    BY <1>8 DEF Forward, Drop, Receive, Fresh
  <2>3. c \in closed => ch'[c] = ch[c]
    BY <1>8 DEF Forward, Drop, Receive, Fresh
  <2> QED BY <2>1, <2>2, <2>3 DEF Fresh
<1>9. ASSUME NEW c \in Streamers, CloseStream(c) PROVE Fresh'
  <2>1. /\ pc[c] = "over" /\ ch[c] = <<>> /\ closed' = closed \cup {c}
        /\ UNCHANGED <<pc, class, ch, received>>
        /\ \A d \in Streamers \ {c} : out'[d] = out[d]
    BY <1>9 DEF CloseStream
  <2> QED BY <2>1 DEF Fresh
<1>10. ASSUME NEW c \in Streamers, Leave(c) \/ Deadline(c) PROVE Fresh'
  <2>1. UNCHANGED <<pc, class, ch, out, received, closed>>
    BY <1>10 DEF Leave, Deadline, stream
  <2> QED BY <1>1, <2>1
<1> QED
  BY <1>2, <1>3, <1>4, <1>5, <1>6, <1>7, <1>8, <1>9, <1>10, NextCases DEF Forwarder, Client

\* What was appended last is the last, and what is left of a queue ends as it did.
LEMMA NoteFacts ==
  /\ EndsWithNote(<<Note>>)
  /\ \A s \in Seq(Frame) : EndsWithNote(Append(s, Note))
  /\ \A s \in Seq(Frame) : 
       EndsWithNote(s) => (EndsWithNote(Tail(s)) \/ (Tail(s) = <<>> /\ Head(s) = Note))
<1>1. ASSUME NEW s \in Seq(Frame) PROVE EndsWithNote(Append(s, Note))
  <2>1. Len(Append(s, Note)) = Len(s) + 1 /\ Append(s, Note)[Len(s) + 1] = Note /\ Len(s) \in Nat
    BY AppendFacts, FrameTypes
  <2>2. Append(s, Note) # <<>>
    BY <2>1
  <2> QED BY <2>1, <2>2 DEF EndsWithNote
<1>2. ASSUME NEW s \in Seq(Frame), EndsWithNote(s)
      PROVE  EndsWithNote(Tail(s)) \/ (Tail(s) = <<>> /\ Head(s) = Note)
  <2>1. /\ Head(s) = s[1] /\ Tail(s) \in Seq(Frame) /\ Len(s) \in Nat \ {0}
        /\ Len(Tail(s)) = Len(s) - 1
        /\ \A i \in 1 .. Len(s) - 1 : Tail(s)[i] = s[i + 1]
    BY <1>2, TailFacts DEF EndsWithNote
  <2>2. CASE Len(s) = 1
    <3>1. Len(Tail(s)) = 0
      BY <2>1, <2>2
    <3> QED BY <1>2, <2>1, <2>2, <3>1, EmptyFacts DEF EndsWithNote
  <2>3. CASE Len(s) # 1
    <3>1. Len(s) - 1 \in 1 .. Len(s) - 1 /\ (Len(s) - 1) + 1 = Len(s)
      BY <2>1, <2>3
    <3>2. Tail(s)[Len(Tail(s))] = s[Len(s)]
      BY <2>1, <3>1
    <3>3. Tail(s) # <<>>
      <4>1. Len(Tail(s)) # 0 /\ Len(<<>>) = 0
        BY <2>1, <2>3
      <4> QED BY <4>1, Zenon
    <3>4. s[Len(s)] = Note
      BY <1>2, Zenon DEF EndsWithNote
    <3>5. Tail(s)[Len(Tail(s))] = Note
      BY <3>2, <3>4, Zenon
    <3> QED BY <3>3, <3>5, Zenon DEF EndsWithNote
  <2> QED BY <2>2, <2>3
<1>3. EndsWithNote(<<Note>>)
  <2>1. Len(<<Note>>) = 1 /\ <<Note>>[1] = Note
    OBVIOUS
  <2>2. <<Note>>[Len(<<Note>>)] = Note
    BY <2>1, Zenon
  <2>3. <<Note>> # <<>>
    OBVIOUS
  <2> QED BY <2>2, <2>3, Zenon DEF EndsWithNote
<1> QED BY <1>1, <1>2, <1>3

\* Nothing comes after the note of a time-out.
LEMMA NoteKept == ASSUME TypeOK, ClassOk, Fresh, NoteLast, Next PROVE NoteLast'
<1> USE CallerSets DEF TypeOK
<1>1. CASE UNCHANGED <<out, received, closed, expired, left>>
  BY <1>1 DEF NoteLast
<1>2. ASSUME NEW c \in Callers,
             \/ c \in Others /\ Request(c)
             \/ c \in Streamers /\ ExecStream(c)
             \/ Destroy
      PROVE  NoteLast'
  BY <1>1, <1>2, Starts
<1>3. ASSUME NEW c \in Callers, Lock(c) \/ Send(c) \/ Kill PROVE NoteLast'
  BY <1>1, <1>3 DEF Lock, Send, Kill, stream, context
<1>4. ASSUME NEW c \in Callers, SendFails(c) PROVE NoteLast'
  <2>1. UNCHANGED <<received, expired, left>>
    BY <1>4 DEF SendFails, context
  <2>2. CASE class[c] = "stream"
    <3> DEFINE begun == IF c \in expired THEN <<Note>> ELSE <<>>
    <3>1. c \in Streamers /\ closed' = closed \cup {c} /\ out' = [out EXCEPT ![c] = begun]
      BY <1>4, <2>2 DEF SendFails, ClassOk
    <3>2. c \in expired => EndsWithNote(begun)
      BY NoteFacts
    <3> HIDE DEF begun
    <3> QED BY <2>1, <3>1, <3>2 DEF NoteLast
  <2>3. CASE class[c] # "stream"
    BY <1>1, <1>4, <2>1, <2>3 DEF SendFails
  <2> QED BY <2>2, <2>3
<1>5. CASE Agent \/ Hang \/ GuestDies
  BY <1>1, <1>5 DEF Agent, Hang, GuestDies, ReadRequest, PowerOff, Finish, SendChunk, SendBoth,
                    stream, context
<1>6. ASSUME NEW c \in Callers, ReadStep(c) \/ ReadGarbage(c) PROVE NoteLast'
  BY <1>1, <1>6 DEF ReadStep, ReadReply, ReadChunk, ReadDone, Abandon, ReadTimesOut, ReadFails,
                    ReadGarbage, stream, context
<1>7. ASSUME NEW c \in Streamers, Forward(c) PROVE NoteLast'
  <2>1. c \notin closed /\ UNCHANGED <<received, closed, expired, left>>
        /\ \A d \in Streamers \ {c} : out'[d] = out[d]
    BY <1>7 DEF Forward, context
  <2> QED BY <2>1 DEF NoteLast
<1>8. ASSUME NEW c \in Streamers, Drop(c) PROVE NoteLast'
  BY <1>1, <1>8 DEF Drop, context
<1>9. ASSUME NEW c \in Streamers, CloseStream(c) PROVE NoteLast'
  <2>1. /\ closed' = closed \cup {c} /\ UNCHANGED <<received, expired, left>>
        /\ \A d \in Streamers \ {c} : out'[d] = out[d]
        /\ c \in expired /\ c \notin left => out'[c] = Append(out[c], Note)
    BY <1>9 DEF CloseStream, context
  <2>2. EndsWithNote(Append(out[c], Note))
    BY NoteFacts
  <2> QED BY <2>1, <2>2 DEF NoteLast
<1>10. ASSUME NEW c \in Streamers, Receive(c) PROVE NoteLast'
  <2>1. /\ out[c] # <<>> /\ UNCHANGED <<closed, expired, left>>
        /\ out'[c] = Tail(out[c]) /\ received'[c] = Append(received[c], Head(out[c]))
        /\ \A d \in Streamers \ {c} : out'[d] = out[d] /\ received'[d] = received[d]
    BY <1>10 DEF Receive, context
  <2>2. ASSUME EndsWithNote(out[c])
        PROVE  EndsWithNote(out'[c]) \/ (out'[c] = <<>> /\ EndsWithNote(received'[c]))
    <3>1. out[c] \in Seq(Frame) /\ received[c] \in Seq(Frame)
      OBVIOUS
    <3> QED BY <2>1, <2>2, <3>1, NoteFacts
  <2> QED BY <2>1, <2>2 DEF NoteLast
<1>11. ASSUME NEW c \in Streamers, Leave(c) PROVE NoteLast'
  BY <1>11 DEF Leave, NoteLast, stream
<1>12. ASSUME NEW c \in Streamers, Deadline(c) PROVE NoteLast'
  BY <1>12 DEF Deadline, NoteLast, stream
<1> QED
  BY <1>2, <1>3, <1>4, <1>5, <1>6, <1>7, <1>8, <1>9, <1>10, <1>11, <1>12, NextCases
  DEF Forwarder, Client

-----------------------------------------------------------------------------
(* What is known of the guest and of what a command has printed, as long as  *)
(* nothing is broken.                                                        *)

\* The only way to a guest that is off is the Destroy's exchange.
LEMMA GoneKept ==
  ASSUME TypeOK, Held, Exchange, Gone, Next, ~broken'
  PROVE  Gone'
<1> USE CallerSets DEF TypeOK
<1>1. ASSUME NEW c \in Callers,
             \/ c \in Others /\ Request(c)
             \/ c \in Streamers /\ ExecStream(c)
             \/ Destroy
      PROVE  Gone'
  <2>1. PICK d \in Callers : pc' = [pc EXCEPT ![d] = "lock"] /\ UNCHANGED <<guest, lock, frames>>
    BY <1>1, Starts
  <2> QED BY <2>1 DEF Gone
<1>2. ASSUME NEW c \in Callers, Lock(c) PROVE Gone'
  <2>1. frames = <<>> /\ UNCHANGED <<guest, frames>> /\ pc' = [pc EXCEPT ![c] = "send"]
    BY <1>2 DEF Lock, Exchange, wire
  <2> QED BY <2>1 DEF Gone
<1>3. ASSUME NEW c \in Callers, Send(c) PROVE Gone'
  BY <1>3 DEF Send, Gone
<1>4. ASSUME NEW c \in Callers, Return(c), guest' = guest,
             c = Destroyer => guest = "off"
      PROVE  Gone'
  BY <1>4 DEF Return, Gone
<1>5. ASSUME NEW c \in Callers, SendFails(c) PROVE Gone'
  BY <1>4, <1>5 DEF SendFails
<1>6. CASE Kill
  BY <1>6 DEF Kill, Gone
<1>7. CASE PowerOff
  <2>1. lock = Destroyer /\ guest' = "off" /\ UNCHANGED <<lock, pc>>
    BY <1>7 DEF PowerOff, Off, Exchange
  <2> QED BY <2>1 DEF Gone, Held
<1>8. ASSUME NEW c \in Calls, Finish(c) \/ (c \in Streamers /\ (SendChunk(c) \/ SendBoth(c)))
      PROVE  Gone'
  <2>1. lock = c /\ c # Destroyer /\ UNCHANGED <<lock, pc, guest>>
    BY <1>8, CallsAssumption DEF Finish, SendChunk, SendBoth, Exchange, Calls
  <2> QED BY <2>1 DEF Gone
<1>9. CASE ReadRequest
  BY <1>9 DEF ReadRequest, Gone
<1>10. CASE Agent \/ Hang \/ GuestDies
  <2>1. CASE Hang
    <3>1. guest = "up" /\ serving # Destroyer /\ UNCHANGED <<pc, lock, frames>>
      BY <2>1, CallsAssumption DEF Hang, wire
    <3>2. guest' = "hung"
      BY <2>1 DEF Hang
    <3> QED BY <3>1, <3>2 DEF Gone
  <2>2. CASE Agent \/ GuestDies
    BY <1>7, <1>8, <1>9, <2>2 DEF Agent, GuestDies, Calls
  <2> QED BY <1>10, <2>1, <2>2
<1>11. ASSUME NEW c \in Callers, ReadChunk(c) PROVE Gone'
  BY <1>11 DEF ReadChunk, Gone
<1>12. ASSUME NEW c \in Callers, ReadReply(c) \/ ReadDone(c) \/ ReadFails(c) PROVE Gone'
  <2>1. pc[c] = "read" /\ Return(c) /\ guest' = guest /\ (frames # <<>> \/ guest = "off")
    BY <1>12 DEF ReadReply, ReadDone, ReadFails, Reads
  <2>2. lock = c
    BY <2>1 DEF Held
  <2> QED BY <1>4, <2>1, <2>2 DEF Gone
<1>13. ASSUME NEW c \in Callers, ReadStep(c) \/ ReadGarbage(c) PROVE Gone'
  BY <1>11, <1>12, <1>13 DEF ReadStep, Abandon, ReadTimesOut, ReadGarbage
<1>14. ASSUME NEW c \in Streamers, Forwarder(c) \/ Client(c) \/ Deadline(c) PROVE Gone'
  <2>1. UNCHANGED <<guest, lock, pc, frames>>
    BY <1>14 DEF Forwarder, Client, Forward, Drop, CloseStream, Receive, Leave, Deadline, wire
  <2> QED BY <2>1 DEF Gone
<1> QED BY <1>1, <1>2, <1>3, <1>5, <1>6, <1>10, <1>13, <1>14, NextCases

\* A command prints only while its call reads.
LEMMA UnprintedKept ==
  ASSUME TypeOK, Held, Exchange, Unprinted, Next
  PROVE  Unprinted'
<1> USE CallerSets DEF TypeOK
<1>1. ASSUME UNCHANGED printed, NEW c \in Callers,
             \A d \in Callers \ {c} : pc'[d] = pc[d],
             pc[c] \notin {"idle", "lock", "send"} => pc'[c] \notin {"idle", "lock", "send"}
      PROVE  Unprinted'
  BY <1>1 DEF Unprinted
<1>2. CASE UNCHANGED <<printed, pc>>
  BY <1>2 DEF Unprinted
<1>3. ASSUME NEW c \in Callers,
             \/ c \in Others /\ Request(c)
             \/ c \in Streamers /\ ExecStream(c)
             \/ Destroy
      PROVE  Unprinted'
  <2>1. PICK d \in Callers :
          pc[d] = "idle" /\ pc' = [pc EXCEPT ![d] = "lock"] /\ UNCHANGED printed
    BY <1>3, Starts
  <2> QED BY <1>1, <2>1
<1>4. ASSUME NEW c \in Callers, Lock(c) \/ Send(c) \/ SendFails(c) PROVE Unprinted'
  <2>1. /\ pc[c] \in {"lock", "send"} /\ UNCHANGED printed
        /\ \A d \in Callers \ {c} : pc'[d] = pc[d]
    BY <1>4 DEF Lock, Send, SendFails, Return, wire
  <2> QED BY <1>1, <2>1
<1>5. CASE Kill
  <2>1. /\ UNCHANGED printed /\ \A d \in Callers \ {Destroyer} : pc'[d] = pc[d]
        /\ pc'[Destroyer] = "over"
    BY <1>5 DEF Kill
  <2> QED BY <1>1, <2>1
<1>6. ASSUME NEW c \in Streamers, SendChunk(c) \/ SendBoth(c) PROVE Unprinted'
  <2>1. /\ pc[c] = "read" /\ pc' = pc
        /\ \A d \in Streamers \ {c} : printed'[d] = printed[d]
    BY <1>6 DEF SendChunk, SendBoth, Exchange
  <2> QED BY <2>1 DEF Unprinted
<1>7. CASE Agent \/ Hang \/ GuestDies
  <2>1. CASE \E c \in Streamers : SendChunk(c) \/ SendBoth(c)
    BY <1>6, <2>1
  <2>2. CASE ~ \E c \in Streamers : SendChunk(c) \/ SendBoth(c)
    BY <1>2, <1>7, <2>2 DEF Agent, Hang, GuestDies, ReadRequest, PowerOff, Finish, wire
  <2> QED BY <2>1, <2>2
<1>8. ASSUME NEW c \in Callers, ReadStep(c) \/ ReadGarbage(c) PROVE Unprinted'
  <2>1. /\ UNCHANGED printed /\ pc[c] = "read"
        /\ \/ pc' = pc
           \/ pc' = [pc EXCEPT ![c] = IF c = Destroyer THEN "kill" ELSE "over"]
    BY <1>8 DEF ReadStep, ReadReply, ReadChunk, ReadDone, Abandon, ReadTimesOut, ReadFails,
                ReadGarbage, Reads, Return, wire
  <2>2. pc'[c] \in {"read", "kill", "over"} /\ \A d \in Callers \ {c} : pc'[d] = pc[d]
    BY <2>1
  <2> QED BY <1>1, <2>1, <2>2
<1>9. ASSUME NEW c \in Streamers, Forwarder(c) \/ Client(c) \/ Deadline(c) PROVE Unprinted'
  BY <1>2, <1>9 DEF Forwarder, Client, Forward, Drop, CloseStream, Receive, Leave, Deadline, wire
<1> QED BY <1>3, <1>4, <1>5, <1>7, <1>8, <1>9, NextCases

-----------------------------------------------------------------------------
(* The output, from the command to the handler.                            *)

LEMMA NumberedAppend ==
  ASSUME NEW c, NEW s \in Seq(Frame), NEW k \in Nat, Numbered(c, s, k),
         NEW e \in Frame, e = Chunk(c, k + Len(s) + 1)
  PROVE  Numbered(c, Append(s, e), k)
<1>1. /\ DOMAIN Append(s, e) = 1 .. Len(s) + 1 /\ DOMAIN s = 1 .. Len(s) /\ Len(s) \in Nat
      /\ \A i \in 1 .. Len(s) : Append(s, e)[i] = s[i]
      /\ Append(s, e)[Len(s) + 1] = e
  BY AppendFacts
<1>2. ASSUME NEW i \in 1 .. Len(s) + 1 PROVE Append(s, e)[i] = Chunk(c, k + i)
  <2>1. CASE i \in 1 .. Len(s)
    BY <1>1, <2>1 DEF Numbered
  <2>2. CASE i = Len(s) + 1
    <3>1. k + Len(s) + 1 = k + i
      BY <1>1, <2>2
    <3> QED BY <1>1, <2>2, <3>1
  <2> QED BY <1>1, <2>1, <2>2
<1> QED BY <1>1, <1>2 DEF Numbered

LEMMA NumberedTail ==
  ASSUME NEW c, NEW s \in Seq(Frame), s # <<>>, NEW k \in Nat, Numbered(c, s, k)
  PROVE  /\ Head(s) = Chunk(c, k + 1) /\ Head(s) \in Frame
         /\ Numbered(c, Tail(s), k + 1)
<1>1. /\ Head(s) = s[1] /\ Len(s) \in Nat \ {0} /\ Head(s) \in Frame
      /\ DOMAIN s = 1 .. Len(s) /\ DOMAIN Tail(s) = 1 .. Len(s) - 1
      /\ \A i \in 1 .. Len(s) - 1 : Tail(s)[i] = s[i + 1]
  BY TailFacts
<1>2. ASSUME NEW i \in 1 .. Len(s) - 1 PROVE Tail(s)[i] = Chunk(c, k + 1 + i)
  <2>1. i + 1 \in 1 .. Len(s) /\ k + 1 + i = k + (i + 1)
    BY <1>1
  <2>2. Tail(s)[i] = Chunk(c, k + (i + 1))
    BY <1>1, <2>1 DEF Numbered
  <2> QED BY <2>1, <2>2
<1>3. 1 \in DOMAIN s
  BY <1>1
<1> QED BY <1>1, <1>2, <1>3 DEF Numbered

\* Sums of lengths, when an element is added, moved or counted.
LEMMA Sums ==
  ASSUME NEW a \in Nat, NEW b \in Nat, NEW d \in Nat
  PROVE  /\ a + b \in Nat /\ a + b + d \in Nat
         /\ a + b + (d + 1) = (a + b + d) + 1
         /\ (a + b + d) + 1 = (a + b) + d + 1
         /\ (a + 1) + (b - 1) + d = a + b + d
         /\ a + b + 1 = a + (b + 1)
         /\ (a + 1) + (b - 1) = a + b
         /\ 0 + a + 1 = a + 1
         /\ a - 1 = 0 => a = 1
  OBVIOUS

LEMMA SumMoved ==
  ASSUME NEW a \in Nat, NEW b \in Nat, NEW d \in Nat
  PROVE  a + (b + 1) + (d - 1) = a + b + d
  OBVIOUS

LEMMA SumTaken ==
  ASSUME NEW a \in Nat, NEW b \in Nat, NEW d \in Nat
  PROVE  /\ (a + 1) + (b - 1) + d = a + b + d
         /\ (a + 1) + (b - 1) = a + b
  OBVIOUS

\* The lengths of what a stream holds.
LEMMA SeenNat ==
  ASSUME TypeOK, NEW c \in Streamers
  PROVE  /\ received[c] \in Seq(Frame) /\ out[c] \in Seq(Frame) /\ ch[c] \in Seq(Frame)
         /\ Len(received[c]) \in Nat /\ Len(out[c]) \in Nat /\ Len(ch[c]) \in Nat
         /\ Seen(c) \in Nat /\ printed[c] \in Nat
<1>1. received[c] \in Seq(Frame) /\ out[c] \in Seq(Frame) /\ ch[c] \in Seq(Frame)
  BY DEF TypeOK
<1>2. Len(received[c]) \in Nat /\ Len(out[c]) \in Nat /\ Len(ch[c]) \in Nat
  BY <1>1
<1>3. printed[c] \in Nat
  BY BoundsAssumption DEF TypeOK
<1>4. Seen(c) \in Nat
  BY <1>2, Sums, Zenon DEF Seen
<1> QED BY <1>1, <1>2, <1>3, <1>4

\* A stream that a step does not concern.
Apart(c) ==
  /\ UNCHANGED <<received[c], out[c], ch[c], printed[c]>>
  /\ pc[c] = "read" <=> pc'[c] = "read"
  /\ pc[c] = "read" => frames' = frames

WholeOf(c) == (pc[c] = "read" /\ Mixed) \/ Exact(c)

LEMMA ApartWhole == ASSUME NEW c \in Streamers, WholeOf(c), Apart(c) PROVE WholeOf(c)'
<1>1. Seen(c)' = Seen(c)
  BY DEF Apart, Seen
<1>2. CASE pc[c] = "read"
  <2>1. Mixed' = Mixed /\ Ended' = Ended /\ frames' = frames /\ pc'[c] = "read"
    BY <1>2 DEF Apart, Mixed, Ended
  <2> QED BY <1>1, <1>2, <2>1 DEF WholeOf, Apart, Exact, Numbered
<1>3. CASE pc[c] # "read"
  <2>1. pc'[c] # "read" /\ Exact(c)
    BY <1>3 DEF Apart, WholeOf
  <2> QED BY <1>1, <1>3, <2>1 DEF WholeOf, Apart, Exact, Numbered
<1> QED BY <1>2, <1>3

\* The agent adds a frame to the answer that c reads.
LEMMA WholeGrows ==
  ASSUME TypeOK, Exchange, NEW c \in Streamers, WholeOf(c), pc[c] = "read", serving # NoCall,
         NEW f \in Frame, frames' = Append(frames, f),
         UNCHANGED <<received, out, ch, pc>>,
         \/ f.kind = "garbage"
         \/ f = Final(c) /\ printed' = printed
         \/ f = Chunk(c, printed[c] + 1) /\ printed'[c] = printed[c] + 1
  PROVE  WholeOf(c)'
<1>1. /\ DOMAIN frames = 1 .. Len(frames) /\ Len(frames) \in Nat
      /\ DOMAIN frames' = 1 .. Len(frames) + 1 /\ Len(frames') = Len(frames) + 1
      /\ \A i \in 1 .. Len(frames) : frames'[i] = frames[i]
      /\ frames'[Len(frames) + 1] = f
  BY AppendFacts DEF TypeOK
<1>2. CASE Mixed \/ f.kind = "garbage"
  <2>1. Mixed'
    BY <1>1, <1>2 DEF Mixed
  <2> QED BY <2>1 DEF WholeOf
<1>3. CASE ~Mixed /\ f.kind # "garbage"
  <2>1. Exact(c) /\ ~Ended
    BY <1>3 DEF WholeOf, Exchange, Ended
  <2>2. /\ printed[c] = Seen(c) + Len(frames)
        /\ \A i \in DOMAIN frames : frames[i].kind = "chunk" => frames[i] = Chunk(c, Seen(c) + i)
    BY <1>1, <2>1, SeenNat DEF Exact
  <2>3. Seen(c)' = Seen(c) /\ Seen(c) \in Nat /\ printed[c] \in Nat
    BY SeenNat DEF Seen
  <2>4. CASE f = Final(c) /\ printed' = printed
    <3>1. f.kind = "done"
      BY <2>4 DEF Final
    <3>2. Ended'
      BY <1>1, <3>1 DEF Ended
    <3>3. \A i \in DOMAIN frames' : frames'[i].kind = "chunk" => frames'[i] = Chunk(c, Seen(c) + i)
      <4> TAKE i \in DOMAIN frames'
      <4>1. i \in 1 .. Len(frames) \/ i = Len(frames) + 1
        BY <1>1
      <4> QED BY <1>1, <2>2, <3>1, <4>1
    <3>4. printed'[c] + 1 = Seen(c)' + Len(frames')
      BY <1>1, <2>2, <2>3, <2>4
    <3> QED BY <2>1, <2>3, <3>2, <3>3, <3>4 DEF WholeOf, Exact, Numbered
  <2>5. CASE f = Chunk(c, printed[c] + 1) /\ printed'[c] = printed[c] + 1
    <3>1. f.kind = "chunk"
      BY <2>5 DEF Chunk
    <3>2. ~Ended'
      <4> SUFFICES ASSUME NEW i \in DOMAIN frames' PROVE frames'[i].kind # "done"
        BY DEF Ended
      <4>1. i \in 1 .. Len(frames) \/ i = Len(frames) + 1
        BY <1>1
      <4> QED BY <1>1, <2>1, <3>1, <4>1 DEF Ended
    <3>3. \A i \in DOMAIN frames' : frames'[i].kind = "chunk" => frames'[i] = Chunk(c, Seen(c) + i)
      <4> TAKE i \in DOMAIN frames'
      <4>1. CASE i \in 1 .. Len(frames)
        BY <1>1, <2>2, <4>1
      <4>2. CASE i = Len(frames) + 1
        <5>1. printed[c] + 1 = Seen(c) + i
          BY <1>1, <2>2, <2>3, <4>2
        <5> QED BY <1>1, <2>5, <4>2, <5>1
      <4> QED BY <1>1, <4>1, <4>2
    <3>4. printed'[c] + 0 = Seen(c)' + Len(frames')
      BY <1>1, <2>2, <2>3, <2>5
    <3> QED BY <2>1, <2>3, <3>2, <3>3, <3>4 DEF WholeOf, Exact, Numbered
  <2> QED BY <1>3, <2>4, <2>5
<1> QED BY <1>2, <1>3

\* The reader takes a chunk.
LEMMA WholeReads ==
  ASSUME TypeOK, Held, Exchange, NEW c \in Streamers, WholeOf(c), ReadChunk(c)
  PROVE  WholeOf(c)'
<1> USE CallerSets
<1>1. /\ pc[c] = "read" /\ frames # <<>> /\ frames' = Tail(frames)
      /\ UNCHANGED <<pc, printed, out, received>>
  BY DEF ReadChunk
<1>2. Head(frames).kind = "chunk" /\ Head(frames) \in Frame
  BY <1>1, FirstFrame DEF ReadChunk
<1>3. ch' = [ch EXCEPT ![c] = Append(@, Head(frames))]
  BY <1>2 DEF ReadChunk
<1>4. /\ Len(frames) \in Nat \ {0} /\ DOMAIN frames = 1 .. Len(frames)
      /\ Head(frames) = frames[1]
      /\ DOMAIN frames' = 1 .. Len(frames) - 1 /\ Len(frames') = Len(frames) - 1
      /\ \A i \in 1 .. Len(frames) - 1 : frames'[i] = frames[i + 1]
  BY <1>1, TailFacts DEF TypeOK
<1>5. ASSUME NEW i \in DOMAIN frames, i # 1 PROVE i - 1 \in DOMAIN frames' /\ frames'[i - 1] = frames[i]
  BY <1>4, <1>5
<1>6. CASE Mixed
  <2>1. PICK i \in DOMAIN frames : frames[i].kind = "garbage"
    BY <1>6 DEF Mixed
  <2>2. i # 1
    BY <1>2, <1>4, <2>1
  <2>3. Mixed'
    BY <1>5, <2>1, <2>2 DEF Mixed
  <2> QED BY <1>1, <2>3 DEF WholeOf
<1>7. CASE Exact(c)
  <2>1. ch'[c] = Append(ch[c], Head(frames))
    BY <1>3 DEF TypeOK
  <2>2. Len(ch'[c]) = Len(ch[c]) + 1
    BY <1>2, <2>1, SeenNat, AppendFacts
  <2>3. Seen(c)' = Seen(c) + 1
    <3>1. Seen(c)' = Len(received[c]) + Len(out[c]) + (Len(ch[c]) + 1)
      BY <1>1, <2>2, Zenon DEF Seen
    <3>2. Len(received[c]) \in Nat /\ Len(out[c]) \in Nat /\ Len(ch[c]) \in Nat
      BY SeenNat
    <3>3. Len(received[c]) + Len(out[c]) + (Len(ch[c]) + 1)
            = (Len(received[c]) + Len(out[c]) + Len(ch[c])) + 1
      BY <3>2, Sums, Zenon
    <3> QED BY <3>1, <3>3, Zenon DEF Seen
  <2>4. Head(frames) = Chunk(c, Seen(c) + 1)
    BY <1>1, <1>2, <1>4, <1>7 DEF Exact
  <2>5. Numbered(c, ch'[c], Len(received[c]) + Len(out[c]))
    <3>1. Seen(c) + 1 = (Len(received[c]) + Len(out[c])) + Len(ch[c]) + 1
      BY SeenNat, Sums, Zenon DEF Seen
    <3>2. Len(received[c]) + Len(out[c]) \in Nat
      BY SeenNat, Sums, Zenon
    <3>3. Head(frames) = Chunk(c, (Len(received[c]) + Len(out[c])) + Len(ch[c]) + 1)
      BY <2>4, <3>1, Zenon
    <3>4. ch[c] \in Seq(Frame) /\ Numbered(c, ch[c], Len(received[c]) + Len(out[c]))
      BY <1>7, SeenNat DEF Exact
    <3>5. Numbered(c, Append(ch[c], Head(frames)), Len(received[c]) + Len(out[c]))
      BY <1>2, <3>2, <3>3, <3>4, NumberedAppend, Zenon
    <3> QED BY <2>1, <3>5, Zenon
  <2>6. Ended' <=> Ended
    <3>1. ASSUME Ended PROVE Ended'
      <4>1. PICK i \in DOMAIN frames : frames[i].kind = "done"
        BY <3>1 DEF Ended
      <4>2. i # 1
        BY <1>2, <1>4, <4>1
      <4> QED BY <1>5, <4>1, <4>2 DEF Ended
    <3>2. ASSUME Ended' PROVE Ended
      <4>1. PICK i \in DOMAIN frames' : frames'[i].kind = "done"
        BY <3>2 DEF Ended
      <4>2. i + 1 \in DOMAIN frames /\ frames'[i] = frames[i + 1]
        BY <1>4
      <4> QED BY <4>1, <4>2 DEF Ended
    <3> QED BY <3>1, <3>2
  <2>7. ASSUME NEW i \in DOMAIN frames', frames'[i].kind = "chunk"
        PROVE  frames'[i] = Chunk(c, Seen(c) + 1 + i)
    <3>1. i + 1 \in DOMAIN frames /\ frames'[i] = frames[i + 1]
      BY <1>4
    <3>2. frames[i + 1] = Chunk(c, Seen(c) + (i + 1))
      BY <1>1, <1>7, <2>7, <3>1 DEF Exact
    <3>3. Seen(c) + (i + 1) = Seen(c) + 1 + i
      BY <1>4, SeenNat
    <3> QED BY <3>1, <3>2, <3>3
  <2>8. printed'[c] + (IF Ended THEN 1 ELSE 0) = Seen(c)' + Len(frames')
    <3>1. printed[c] + (IF Ended THEN 1 ELSE 0) = Seen(c) + Len(frames)
      BY <1>1, <1>7 DEF Exact
    <3> QED BY <1>1, <1>4, <2>3, <3>1, SeenNat
  <2> QED BY <1>1, <1>7, <2>3, <2>5, <2>6, <2>7, <2>8 DEF WholeOf, Exact
<1> QED BY <1>6, <1>7 DEF WholeOf

\* The last frame: all of the output has been read.
LEMMA WholeEnds ==
  ASSUME TypeOK, Held, Exchange, NEW c \in Streamers, WholeOf(c), ReadDone(c)
  PROVE  WholeOf(c)'
<1> USE CallerSets
<1>1. /\ pc[c] = "read" /\ frames # <<>> /\ Head(frames).kind = "done"
      /\ UNCHANGED <<printed, out, received, ch>>
      /\ pc' = [pc EXCEPT ![c] = IF c = Destroyer THEN "kill" ELSE "over"]
  BY DEF ReadDone, Reads, Return, stream
<1>2. /\ Len(frames) \in Nat /\ DOMAIN frames = 1 .. Len(frames)
      /\ Head(frames) = frames[1] /\ Len(Tail(frames)) = Len(frames) - 1
  BY <1>1, TailFacts DEF TypeOK
<1>3. Tail(frames) = <<>>
  BY <1>1, FirstFrame
<1>4. Len(frames) = 1
  <2>1. Len(<<>>) = 0
    OBVIOUS
  <2>2. Len(frames) \in Nat /\ Len(frames) - 1 = 0
    BY <1>2, <1>3, <2>1, Zenon
  <2> QED BY <2>2, Sums, Zenon
<1>5. Ended /\ ~Mixed
  BY <1>1, <1>2, <1>4 DEF Ended, Mixed
<1>6. Exact(c)
  BY <1>5 DEF WholeOf
<1>7. printed[c] = Seen(c)
  <2>1. printed[c] + 1 = Seen(c) + 1
    BY <1>1, <1>4, <1>5, <1>6 DEF Exact
  <2> QED BY <2>1, SeenNat
<1>8. pc'[c] = "over" /\ Seen(c)' = Seen(c)
  BY <1>1 DEF TypeOK, Seen
<1> QED BY <1>1, <1>6, <1>7, <1>8 DEF WholeOf, Exact, Numbered

\* The forwarder and the handler take a chunk further.
LEMMA WholeMoves ==
  ASSUME TypeOK, NEW c \in Streamers, WholeOf(c), Forward(c) \/ Receive(c)
  PROVE  WholeOf(c)'
<1>1. UNCHANGED <<pc, printed, frames>>
  BY DEF Forward, Receive, wire
<1>2. Mixed' = Mixed /\ Ended' = Ended
  BY <1>1 DEF Mixed, Ended
<1>3. CASE pc[c] = "read" /\ Mixed
  BY <1>1, <1>2, <1>3 DEF WholeOf
<1>4. ASSUME Seen(c)' = Seen(c), Exact(c),
             /\ Numbered(c, received[c], 0) /\ Numbered(c, out[c], Len(received[c]))
             /\ Numbered(c, ch[c], Len(received[c]) + Len(out[c]))
             => (/\ Numbered(c, received[c], 0) /\ Numbered(c, out[c], Len(received[c]))
                 /\ Numbered(c, ch[c], Len(received[c]) + Len(out[c])))'
      PROVE  WholeOf(c)'
  BY <1>1, <1>2, <1>4 DEF WholeOf, Exact
<1>5. CASE Exact(c) /\ Forward(c)
  <2>1. /\ ch[c] # <<>> /\ received' = received
        /\ out'[c] = Append(out[c], Head(ch[c])) /\ ch'[c] = Tail(ch[c])
    BY <1>5 DEF Forward, TypeOK
  <2>2. Len(received[c]) + Len(out[c]) \in Nat
    BY SeenNat, Sums, Zenon
  <2>3. /\ Head(ch[c]) = Chunk(c, Len(received[c]) + Len(out[c]) + 1) /\ Head(ch[c]) \in Frame
        /\ Numbered(c, ch'[c], Len(received[c]) + Len(out[c]) + 1)
    BY <1>5, <2>1, <2>2, SeenNat, NumberedTail DEF Exact
  <2>4. Numbered(c, out'[c], Len(received[c]))
    BY <1>5, <2>1, <2>3, SeenNat, NumberedAppend DEF Exact
  <2>5. Len(out'[c]) = Len(out[c]) + 1 /\ Len(ch'[c]) = Len(ch[c]) - 1
    BY <2>1, <2>3, SeenNat, AppendFacts, TailFacts
  <2>6. Seen(c)' = Seen(c)
    <3>1. Seen(c)' = Len(received[c]) + (Len(out[c]) + 1) + (Len(ch[c]) - 1)
      BY <2>1, <2>5, Zenon DEF Seen
    <3>2. Len(received[c]) \in Nat /\ Len(out[c]) \in Nat /\ Len(ch[c]) \in Nat
      BY SeenNat
    <3>3. Len(received[c]) + (Len(out[c]) + 1) + (Len(ch[c]) - 1)
            = Len(received[c]) + Len(out[c]) + Len(ch[c])
      BY <3>2, SumMoved, Zenon
    <3> QED BY <3>1, <3>3, Zenon DEF Seen
  <2>7. Len(received[c]) + Len(out[c]) + 1 = Len(received'[c]) + Len(out'[c])
    <3>1. Len(received'[c]) + Len(out'[c]) = Len(received[c]) + (Len(out[c]) + 1)
      BY <2>1, <2>5, Zenon
    <3>2. Len(received[c]) \in Nat /\ Len(out[c]) \in Nat /\ 0 \in Nat
      BY SeenNat
    <3>3. Len(received[c]) + Len(out[c]) + 1 = Len(received[c]) + (Len(out[c]) + 1)
      BY <3>2, Sums, Zenon
    <3> QED BY <3>1, <3>3, Zenon
  <2>8. Numbered(c, ch'[c], Len(received'[c]) + Len(out'[c]))
    BY <2>3, <2>7, Zenon
  <2> QED BY <1>4, <1>5, <2>1, <2>4, <2>6, <2>8 DEF Exact
<1>6. CASE Exact(c) /\ Receive(c)
  <2>1. /\ out[c] # <<>> /\ ch' = ch
        /\ received'[c] = Append(received[c], Head(out[c])) /\ out'[c] = Tail(out[c])
    BY <1>6 DEF Receive, TypeOK
  <2>2. /\ Head(out[c]) = Chunk(c, Len(received[c]) + 1) /\ Head(out[c]) \in Frame
        /\ Numbered(c, out'[c], Len(received[c]) + 1)
    BY <1>6, <2>1, SeenNat, NumberedTail DEF Exact
  <2>3. Numbered(c, received'[c], 0)
    <3>1. 0 + Len(received[c]) + 1 = Len(received[c]) + 1
      BY SeenNat, Sums, Zenon
    <3>2. Head(out[c]) = Chunk(c, 0 + Len(received[c]) + 1)
      BY <2>2, <3>1
    <3> QED BY <1>6, <2>1, <2>2, <3>2, SeenNat, NumberedAppend DEF Exact
  <2>4. Len(received'[c]) = Len(received[c]) + 1 /\ Len(out'[c]) = Len(out[c]) - 1
    BY <2>1, <2>2, SeenNat, AppendFacts, TailFacts
  <2>5. /\ Seen(c)' = Seen(c)
        /\ Len(received'[c]) + Len(out'[c]) = Len(received[c]) + Len(out[c])
    <3>1. /\ Seen(c)' = (Len(received[c]) + 1) + (Len(out[c]) - 1) + Len(ch[c])
          /\ Len(received'[c]) + Len(out'[c]) = (Len(received[c]) + 1) + (Len(out[c]) - 1)
      BY <2>1, <2>4, Zenon DEF Seen
    <3>2. Len(received[c]) \in Nat /\ Len(out[c]) \in Nat /\ Len(ch[c]) \in Nat
      BY SeenNat
    <3>3. /\ (Len(received[c]) + 1) + (Len(out[c]) - 1) + Len(ch[c])
               = Len(received[c]) + Len(out[c]) + Len(ch[c])
          /\ (Len(received[c]) + 1) + (Len(out[c]) - 1) = Len(received[c]) + Len(out[c])
      BY <3>2, SumTaken, Zenon
    <3> QED BY <3>1, <3>3, Zenon DEF Seen
  <2>6. Numbered(c, out'[c], Len(received'[c]))
    BY <2>2, <2>4, Zenon
  <2>7. Numbered(c, ch'[c], Len(received'[c]) + Len(out'[c]))
    BY <1>6, <2>1, <2>5, Zenon DEF Exact
  <2> QED BY <1>4, <1>6, <2>3, <2>5, <2>6, <2>7 DEF Exact
<1> QED BY <1>3, <1>5, <1>6 DEF WholeOf

\* As long as nothing is broken, no step loses, repeats or reorders output.
LEMMA WholeKept ==
  ASSUME TypeOK, ClassOk, Held, Cut, Exchange, Fresh, Gone, Unprinted, Whole, Next, ~broken'
  PROVE  Whole'
<1> USE CallerSets
<1> SUFFICES ASSUME NEW d \in Streamers, d \notin expired' \cup left' PROVE WholeOf(d)'
  BY DEF Whole, WholeOf
<1>1. expired \subseteq expired' /\ left \subseteq left'
  <2>1. ASSUME NEW c \in Callers,
               \/ c \in Others /\ Request(c)
               \/ c \in Streamers /\ ExecStream(c)
               \/ Destroy
        PROVE  UNCHANGED <<expired, left>>
    BY <2>1, Starts
  <2>2. ASSUME NEW c \in Callers, Lock(c) \/ Send(c) \/ SendFails(c) \/ Kill
        PROVE  UNCHANGED <<expired, left>>
    BY <2>2 DEF Lock, Send, SendFails, Kill, context
  <2>3. ASSUME Agent \/ Hang \/ GuestDies PROVE UNCHANGED <<expired, left>>
    BY <2>3 DEF Agent, Hang, GuestDies, ReadRequest, PowerOff, Finish, SendChunk, SendBoth, context
  <2>4. ASSUME NEW c \in Callers, ReadStep(c) \/ ReadGarbage(c) PROVE UNCHANGED <<expired, left>>
    BY <2>4 DEF ReadStep, ReadReply, ReadChunk, ReadDone, Abandon, ReadTimesOut, ReadFails,
                ReadGarbage, context
  <2>5. ASSUME NEW c \in Streamers, Forwarder(c) \/ Client(c) \/ Deadline(c)
        PROVE  expired \subseteq expired' /\ left \subseteq left'
    BY <2>5 DEF Forwarder, Client, Forward, Drop, CloseStream, Receive, Leave, Deadline, context
  <2> QED BY <2>1, <2>2, <2>3, <2>4, <2>5, NextCases
<1>2. WholeOf(d) /\ d \notin expired \cup left
  BY <1>1 DEF Whole, WholeOf
<1>3. ASSUME Apart(d) PROVE WholeOf(d)'
  BY <1>2, <1>3, ApartWhole
<1>4. pc[d] = "read" => lock = d
  BY DEF Held
<1>5. ASSUME NEW c \in Callers,
             \/ c \in Others /\ Request(c)
             \/ c \in Streamers /\ ExecStream(c)
             \/ Destroy
      PROVE  WholeOf(d)'
  <2>1. PICK e \in Callers :
          /\ pc[e] = "idle" /\ pc' = [pc EXCEPT ![e] = "lock"]
          /\ UNCHANGED <<frames, printed, ch, out, received>>
    BY <1>5, Starts
  <2>2. pc[d] = "read" <=> pc'[d] = "read"
    BY <2>1 DEF TypeOK
  <2> QED BY <1>3, <2>1, <2>2 DEF Apart
<1>6. ASSUME NEW c \in Callers, Lock(c) PROVE WholeOf(d)'
  <2>1. /\ pc[c] = "lock" /\ pc' = [pc EXCEPT ![c] = "send"]
        /\ UNCHANGED <<frames, printed, ch, out, received>>
    BY <1>6 DEF Lock, wire, stream
  <2>2. pc[d] = "read" <=> pc'[d] = "read"
    BY <2>1 DEF TypeOK
  <2> QED BY <1>3, <2>1, <2>2 DEF Apart
<1>7. ASSUME NEW c \in Callers, Send(c) PROVE WholeOf(d)'
  <2>1. /\ pc[c] = "send" /\ pc' = [pc EXCEPT ![c] = "read"]
        /\ UNCHANGED <<frames, printed, ch, out, received>>
    BY <1>7 DEF Send, stream
  <2>2. CASE c # d
    <3>1. pc'[d] = pc[d]
      BY <2>1, <2>2 DEF TypeOK
    <3> QED BY <1>3, <2>1, <3>1 DEF Apart
  <2>3. CASE c = d
    <3>1. /\ pc'[d] = "read" /\ frames' = <<>> /\ printed'[d] = 0
          /\ ch'[d] = <<>> /\ out'[d] = <<>> /\ received'[d] = <<>>
      BY <2>1, <2>3 DEF Held, Exchange, Unprinted, Fresh, TypeOK
    <3>2. Seen(d)' = 0 /\ ~Ended' /\ Len(frames') = 0
      BY <3>1 DEF Seen, Ended
    <3>3. \A k : Numbered(d, <<>>, k)
      BY DEF Numbered
    <3>4. printed'[d] + 0 = Seen(d)' + Len(frames')
      BY <3>1, <3>2
    <3> QED BY <3>1, <3>2, <3>3, <3>4 DEF WholeOf, Exact
  <2> QED BY <2>2, <2>3
<1>8. ASSUME NEW c \in Callers, SendFails(c) PROVE WholeOf(d)'
  <2>1. /\ pc[c] = "send" /\ UNCHANGED <<frames, printed, ch, received>>
        /\ pc' = [pc EXCEPT ![c] = IF c = Destroyer THEN "kill" ELSE "over"]
    BY <1>8 DEF SendFails, Return, wire
  <2>2. pc'[d] = "read" <=> pc[d] = "read"
    BY <2>1 DEF TypeOK
  <2>3. out'[d] = out[d]
    <3>1. CASE class[c] = "stream" /\ c = d
      <4>1. out[d] = <<>> /\ out'[d] = <<>>
        BY <1>2, <1>8, <2>1, <3>1 DEF SendFails, Fresh, TypeOK
      <4> QED BY <4>1
    <3>2. CASE ~ (class[c] = "stream" /\ c = d)
      BY <1>8, <3>2 DEF SendFails, TypeOK
    <3> QED BY <3>1, <3>2
  <2> QED BY <1>3, <2>1, <2>2, <2>3 DEF Apart
<1>9. CASE Kill
  <2>1. /\ guest = "off" /\ pc' = [pc EXCEPT ![Destroyer] = "over"]
        /\ UNCHANGED <<printed, ch, out, received>>
    BY <1>9 DEF Kill, Gone, stream
  <2>2. pc[d] # "read" /\ pc'[d] # "read"
    BY <2>1 DEF Gone, TypeOK
  <2> QED BY <1>3, <2>1, <2>2 DEF Apart
<1>10. ASSUME NEW c \in Callers, serving = c, c # d, UNCHANGED <<pc, ch, out, received>>,
              printed'[d] = printed[d]
       PROVE  WholeOf(d)'
  <2>1. pc[d] # "read"
    BY <1>4, <1>10 DEF Exchange
  <2> QED BY <1>3, <1>10, <2>1 DEF Apart
<1>11. ASSUME NEW c \in Calls, Finish(c) PROVE WholeOf(d)'
  <2>1. /\ serving = c /\ c \in Callers /\ UNCHANGED <<pc, ch, out, received, printed>>
    BY <1>11 DEF Finish, stream, Callers
  <2>2. CASE c = d
    <3>1. pc[d] = "read" /\ class[d] = "stream"
      BY <2>1, <2>2 DEF Exchange, Fresh
    <3>2. frames' = Append(frames, Final(d)) /\ Final(d) \in Frame
      BY <1>11, <2>2, <3>1, FrameTypes DEF Finish
    <3> QED BY <1>2, <2>1, <2>2, <3>1, <3>2, WholeGrows
  <2> QED BY <1>10, <2>1, <2>2
<1>12. ASSUME NEW c \in Streamers, SendChunk(c) PROVE WholeOf(d)'
  <2>1. /\ serving = c /\ UNCHANGED <<pc, ch, out, received>>
        /\ printed' = [printed EXCEPT ![c] = @ + 1] /\ printed[c] < MaxChunks
        /\ frames' = Append(frames, Chunk(c, printed[c] + 1))
    BY <1>12 DEF SendChunk, stream
  <2>2. CASE c = d
    <3>1. pc[d] = "read" /\ printed'[d] = printed[d] + 1
      BY <2>1, <2>2 DEF Exchange, TypeOK
    <3>2. printed[d] + 1 \in 0 .. MaxChunks
      BY <2>1, <2>2, BoundsAssumption DEF TypeOK
    <3>3. Chunk(d, printed[d] + 1) \in Frame
      BY <3>2, FrameTypes
    <3> QED BY <1>2, <2>1, <2>2, <3>1, <3>3, WholeGrows
  <2>3. CASE c # d
    <3>1. printed'[d] = printed[d]
      BY <2>1, <2>3 DEF TypeOK
    <3> QED BY <1>10, <2>1, <2>3, <3>1
  <2> QED BY <2>2, <2>3
<1>13. ASSUME NEW c \in Streamers, SendBoth(c) PROVE WholeOf(d)'
  <2>1. /\ serving = c /\ UNCHANGED <<pc, ch, out, received>>
        /\ printed' = [printed EXCEPT ![c] = @ + 2]
        /\ frames' = Append(frames, Garbage)
    BY <1>13 DEF SendBoth, stream
  <2>2. CASE c = d
    <3>1. pc[d] = "read"
      BY <2>1, <2>2 DEF Exchange
    <3>2. Garbage \in Frame /\ Garbage.kind = "garbage"
      BY FrameTypes DEF Garbage
    <3> QED BY <1>2, <2>1, <2>2, <3>1, <3>2, WholeGrows
  <2>3. CASE c # d
    <3>1. printed'[d] = printed[d]
      BY <2>1, <2>3 DEF TypeOK
    <3> QED BY <1>10, <2>1, <2>3, <3>1
  <2> QED BY <2>2, <2>3
<1>14. CASE PowerOff
  <2>1. serving = Destroyer /\ UNCHANGED <<pc, ch, out, received, printed>>
    BY <1>14 DEF PowerOff, stream
  <2> QED BY <1>10, <2>1
<1>15. CASE ReadRequest
  <2>1. UNCHANGED <<pc, ch, out, received, printed, frames>>
    BY <1>15 DEF ReadRequest, stream
  <2> QED BY <1>3, <2>1 DEF Apart
<1>16. CASE Agent \/ Hang \/ GuestDies
  <2>1. CASE Hang
    <3>1. UNCHANGED <<pc, ch, out, received, printed, frames>>
      BY <2>1 DEF Hang, stream, wire
    <3> QED BY <1>3, <3>1 DEF Apart
  <2>2. CASE Agent \/ GuestDies
    BY <1>11, <1>12, <1>13, <1>14, <1>15, <2>2 DEF Agent, GuestDies
  <2> QED BY <1>16, <2>1, <2>2
<1>17. ASSUME NEW c \in Callers, ReadStep(c) \/ ReadGarbage(c) PROVE WholeOf(d)'
  <2>1. CASE c = d
    <3>1. ~ReadReply(d)
      BY DEF ReadReply, Reads, Fresh
    <3>2. ~ReadFails(d)
      BY DEF ReadFails, Gone
    <3>3. ReadChunk(d) \/ ReadDone(d)
      BY <1>17, <2>1, <3>1, <3>2 DEF ReadStep, Abandon, ReadTimesOut, ReadGarbage
    <3> QED BY <1>2, <3>3, WholeReads, WholeEnds
  <2>2. CASE c # d
    <3>1. /\ pc[c] = "read" /\ UNCHANGED <<printed, out, received>>
          /\ \/ pc' = pc
             \/ pc' = [pc EXCEPT ![c] = IF c = Destroyer THEN "kill" ELSE "over"]
      BY <1>17 DEF ReadStep, ReadReply, ReadChunk, ReadDone, Abandon, ReadTimesOut, ReadFails,
                   ReadGarbage, Reads, Return, stream, wire
    <3>2. ch'[d] = ch[d]
      BY <1>17, <2>2 DEF ReadStep, ReadReply, ReadChunk, ReadDone, Abandon, ReadTimesOut, ReadFails,
                         ReadGarbage, stream, TypeOK
    <3>3. pc'[d] = pc[d] /\ pc[d] # "read"
      BY <2>2, <3>1 DEF Held, TypeOK
    <3> QED BY <1>3, <3>1, <3>2, <3>3 DEF Apart
  <2> QED BY <2>1, <2>2
<1>18. ASSUME NEW c \in Streamers, Forwarder(c) \/ Client(c) \/ Deadline(c) PROVE WholeOf(d)'
  <2>1. CASE c = d /\ (Forward(c) \/ Receive(c))
    BY <1>2, <2>1, WholeMoves
  <2>2. CASE c = d /\ ~ (Forward(c) \/ Receive(c))
    <3>1. ~Drop(d)
      BY <1>2 DEF Drop
    <3>2. UNCHANGED <<pc, printed, frames, received>>
      BY <1>18, <2>2, <3>1 DEF Forwarder, Client, CloseStream, Leave, Deadline, wire, stream
    <3>3. ch' = ch /\ out' = out
      BY <1>2, <1>18, <2>2, <3>1 DEF Forwarder, Client, CloseStream, Leave, Deadline, stream
    <3> QED BY <1>3, <3>2, <3>3 DEF Apart
  <2>3. CASE c # d
    <3>1. UNCHANGED <<pc, printed, frames>>
      BY <1>18 DEF Forwarder, Client, Forward, Drop, CloseStream, Receive, Leave, Deadline, wire
    <3>2. UNCHANGED <<received[d], out[d], ch[d]>>
      BY <1>18, <2>3 DEF Forwarder, Client, Forward, Drop, CloseStream, Receive, Leave, Deadline,
                         stream, TypeOK
    <3> QED BY <1>3, <3>1, <3>2 DEF Apart
  <2> QED BY <2>1, <2>2, <2>3
<1> QED BY <1>5, <1>6, <1>7, <1>8, <1>9, <1>16, <1>17, <1>18, NextCases

-----------------------------------------------------------------------------
(* The theorems.                                                           *)

LEMMA InitHolds == ASSUME Init PROVE IInv
<1>1. ClassOk /\ Held /\ Cut
  BY CallerSets DEF Init, ClassOk, Held, Cut
<1>2. Exchange
  BY DEF Init, Exchange
<1>3. Contents
  <2>1. \A c \in Streamers : ch[c] = <<>> /\ out[c] = <<>> /\ received[c] = <<>>
    BY DEF Init
  <2>2. \A c : Own(c, <<>>)
    BY DEF Own
  <2>3. \A c \in Callers : got[c] = NoCall
    BY DEF Init
  <2> QED BY <2>1, <2>2, <2>3 DEF Contents
<1> QED BY <1>1, <1>2, <1>3, InitTyped DEF IInv

LEMMA StepHolds == ASSUME IInv, [Next]_vars PROVE IInv'
<1>1. CASE Next
  <2>1. TypeOK' /\ ClassOk' /\ Held' /\ Cut'
    BY <1>1, NextTyped, ClassKept, HeldKept, CutKept DEF IInv
  <2>2. ASSUME ~broken' PROVE Exchange' /\ Contents'
    <3>1. ~broken
      BY <1>1, <2>2, StillWhole DEF IInv
    <3> QED BY <1>1, <2>2, <3>1, ExchangeKept, ContentsKept DEF IInv
  <2> QED BY <2>1, <2>2 DEF IInv
<1>2. CASE UNCHANGED vars
  BY <1>2 DEF vars, wire, context, stream, history, IInv, TypeOK, ClassOk, Held, Cut, Exchange,
              Contents, Own
<1> QED BY <1>1, <1>2

THEOREM Invariance == Spec => []IInv
<1>1. Init => IInv
  BY InitHolds
<1>2. IInv /\ [Next]_vars => IInv'
  BY StepHolds
<1> QED BY <1>1, <1>2, PTL DEF Spec

\* Frames, channels and the mutex keep their types.
THEOREM TypeCorrect == Spec => []TypeOK
<1>1. IInv => TypeOK
  BY DEF IInv
<1> QED BY <1>1, Invariance, PTL

\* Although an answer carries no number of its request, every call is given its
\* own, and every client its own command's output, whatever the number of calls
\* and the room in channels, until an answer is left half read or the guest dies.
THEOREM OwnAnswerCorrect == Spec => []OwnAnswer
<1>1. IInv => OwnAnswer
  <2>1. Contents => \A c \in Streamers : \A i \in DOMAIN received[c] :
                      received[c][i].call \in {c, NoCall}
    BY DEF Contents, Own
  <2>2. Contents => \A c \in Callers : got[c] \in {c, NoCall}
    BY DEF Contents
  <2> QED BY <2>1, <2>2 DEF IInv, OwnAnswer
<1> QED BY <1>1, Invariance, PTL

\* Over all streams: the stages, the notes, and, until something is broken, the output.
OInv ==
  /\ IInv /\ Fresh /\ NoteLast
  /\ ~broken => Gone /\ Unprinted /\ Whole

\* Every step keeps it, of whatever call, goroutine, client or time-out it is.
THEOREM OutputInvariance == Spec => []OInv
<1>1. Init => OInv
  <2> SUFFICES ASSUME Init PROVE OInv
    OBVIOUS
  <2>1. IInv
    BY InitHolds
  <2>2. Fresh /\ NoteLast /\ Gone /\ Unprinted
    BY CallerSets DEF Init, Fresh, NoteLast, Gone, Unprinted
  <2>3. Whole
    <3>1. \A c \in Streamers :
            /\ pc[c] = "idle" /\ printed[c] = 0
            /\ ch[c] = <<>> /\ out[c] = <<>> /\ received[c] = <<>>
      BY CallerSets DEF Init
    <3>2. \A c \in Streamers : Seen(c) = 0
      <4>1. Len(<<>>) = 0 /\ 0 + 0 + 0 = 0
        OBVIOUS
      <4> QED BY <3>1, <4>1, Zenon DEF Seen
    <3>3. \A c, k : Numbered(c, <<>>, k)
      BY DEF Numbered
    <3> QED BY <3>1, <3>2, <3>3 DEF Whole, Exact
  <2> QED BY <2>1, <2>2, <2>3 DEF OInv
<1>2. OInv /\ [Next]_vars => OInv'
  <2> SUFFICES ASSUME OInv, [Next]_vars PROVE OInv'
    OBVIOUS
  <2>1. IInv'
    BY StepHolds DEF OInv
  <2>2. CASE Next
    <3>1. TypeOK /\ ClassOk /\ Held /\ Cut
      BY DEF OInv, IInv
    <3>2. Fresh' /\ NoteLast'
      BY <2>2, <3>1, FreshKept, NoteKept DEF OInv
    <3>3. ASSUME ~broken' PROVE Gone' /\ Unprinted' /\ Whole'
      <4>1. Exchange /\ Gone /\ Unprinted /\ Whole
        BY <2>2, <3>1, <3>3, StillWhole DEF OInv, IInv
      <4>2. Gone' /\ Unprinted'
        BY <2>2, <3>1, <3>3, <4>1, GoneKept, UnprintedKept
      <4>3. Whole'
        BY <2>2, <3>1, <3>3, <4>1, WholeKept DEF OInv
      <4> QED BY <4>2, <4>3
    <3> QED BY <2>1, <3>2, <3>3 DEF OInv
  <2>3. CASE UNCHANGED vars
    <3>1. /\ UNCHANGED <<pc, ch, out, received, class, closed, expired, left, guest, lock, frames>>
          /\ UNCHANGED <<printed, broken>>
      BY <2>3 DEF vars, wire, context, stream, history
    <3>2. Fresh' /\ NoteLast'
      BY <3>1 DEF OInv, Fresh, NoteLast
    <3>3. ASSUME ~broken' PROVE Gone' /\ Unprinted'
      BY <3>1, <3>3 DEF OInv, Gone, Unprinted
    <3>4. ASSUME ~broken', NEW c \in Streamers \ (expired' \cup left')
          PROVE  (pc'[c] = "read" /\ Mixed') \/ Exact(c)'
      <4>1. WholeOf(c) /\ Apart(c)
        BY <3>1, <3>4 DEF OInv, Whole, WholeOf, Apart
      <4>2. WholeOf(c)'
        BY <4>1, ApartWhole
      <4> QED BY <4>2 DEF WholeOf
    <3> QED BY <2>1, <3>2, <3>3, <3>4 DEF OInv, Whole
  <2> QED BY <2>2, <2>3
<1> QED BY <1>1, <1>2, PTL DEF Spec

\* A sequence is known by its elements.
LEMMA AllChunks ==
  ASSUME NEW c, NEW s \in Seq(Frame), NEW n \in Nat, Len(s) = n, Numbered(c, s, 0)
  PROVE  s = [i \in 1 .. n |-> Chunk(c, i)]
<1>1. DOMAIN s = 1 .. n /\ s = [i \in 1 .. n |-> s[i]]
  OBVIOUS
<1>2. ASSUME NEW i \in 1 .. n PROVE s[i] = Chunk(c, i)
  <2>1. 0 + i = i
    OBVIOUS
  <2> QED BY <1>1, <2>1 DEF Numbered
<1> QED BY <1>1, <1>2, Zenon

\* Whatever is cancelled, times out or waits for room, and for any number of
\* streams, chunks and places in the channels: a client that stays to the end of a
\* stream has all that the command printed, in order, or the note of the time-out.
THEOREM OutputDelivered == Spec => []OutputOrNote
<1>1. OInv => OutputOrNote
  <2> SUFFICES ASSUME OInv, NEW c \in Streams, Drained(c)
               PROVE  IF c \in expired
                        THEN received[c] # <<>> /\ Last(received[c]) = Note
                        ELSE broken \/ received[c] = [i \in 1 .. printed[c] |-> Chunk(c, i)]
    BY DEF OutputOrNote
  <2>1. /\ c \in Streamers /\ c \in closed /\ c \notin left /\ out[c] = <<>>
        /\ pc[c] = "over" /\ ch[c] = <<>> /\ TypeOK
    BY DEF Streams, Drained, OInv, IInv, Fresh
  <2>2. CASE c \in expired
    <3>1. EndsWithNote(received[c])
      BY <2>1, <2>2 DEF OInv, NoteLast, EndsWithNote
    <3> QED BY <2>2, <3>1, Zenon DEF EndsWithNote, Last
  <2>3. CASE c \notin expired /\ ~broken
    <3>1. Exact(c)
      BY <2>1, <2>3 DEF OInv, Whole
    <3>2. received[c] \in Seq(Frame) /\ Len(received[c]) \in Nat /\ printed[c] \in Nat
      BY <2>1, SeenNat
    <3>3. Len(<<>>) = 0
      OBVIOUS
    <3>4. \A n \in Nat : n + 0 + 0 = n
      OBVIOUS
    <3>5. Seen(c) = Len(received[c])
      BY <2>1, <3>2, <3>3, <3>4, Zenon DEF Seen
    <3>6. printed[c] = Len(received[c]) /\ Numbered(c, received[c], 0)
      BY <2>1, <3>1, <3>5 DEF Exact
    <3>7. received[c] = [i \in 1 .. printed[c] |-> Chunk(c, i)]
      BY <3>2, <3>6, AllChunks
    <3> QED BY <2>3, <3>7
  <2> QED BY <2>2, <2>3
<1> QED BY <1>1, OutputInvariance, PTL
=============================================================================
