----------------------- MODULE RealCacheAdapterProofs -----------------------
(***************************************************************************)
(* The handshake of RealCacheAdapter and the device, the data they carry   *)
(* and the log of it, for every length of a burst, memory, stream of       *)
(* transactions and stalling of the device.                                *)
(***************************************************************************)
EXTENDS RealCacheAdapter, SequenceTheorems, TLAPS

IsSeq(s) == \E S : s \in Seq(S)

DeviceFields ==
    {"line", "txn", "todo", "out", "awaited", "got", "bus_ready", "answer", "value",
     "hit", "victim", "stall"}

\* The requests still to send: the last of them is one that is answered.
SoundPlan(todo) ==
    /\ IsSeq(todo)
    /\ \A i \in 1 .. Len(todo) : todo[i].bus \in Buses
    /\ todo # <<>> => AnswerBeats(todo[Len(todo)]) > 0

\* The device owes its answer while it has something to ask, and asks only
\* when it has all the beats of what it asked before.
DeviceInv(d) ==
    /\ DOMAIN d = DeviceFields
    /\ d.awaited \in Nat
    /\ SoundPlan(d.todo)
    /\ d.todo # <<>> => d.answer = "owed"
    /\ d.out # None => /\ d.awaited = 0 /\ d.answer = "owed"
                       /\ d.out.bus \in Buses
                       /\ AnswerBeats(d.out) = 0 => d.todo # <<>>

\* The beats the device awaits are those the adapter holds, all on one bus.
HandshakeInv ==
    /\ DeviceInv(dev)
    /\ \A b \in Buses : IsSeq(responses[b])
    /\ Len(responses["mem"]) + Len(responses["mmio"]) = dev.awaited
    /\ responses["mem"] = <<>> \/ responses["mmio"] = <<>>
    /\ bus_events = fired

-----------------------------------------------------------------------------
(***************************************************************************)
(* Requests and their answers.                                             *)
(***************************************************************************)
LEMMA FunctionIsSeq ==
    ASSUME NEW n \in Nat, NEW f, DOMAIN f = 1 .. n, f = [i \in 1 .. n |-> f[i]]
    PROVE  IsSeq(f) /\ Len(f) = n
  <1> DEFINE S == {f[i] : i \in 1 .. n}
  <1>1. f \in [1 .. n -> S]
    OBVIOUS
  <1> HIDE DEF S
  <1>2. f \in Seq(S)
    BY <1>1, SeqDef
  <1>3. Len(f) = n
    BY <1>1, <1>2, LenProperties
  <1> QED
    BY <1>2, <1>3 DEF IsSeq

\* The length, head and tail of a sequence, whatever its elements.
LEMMA SeqLength ==
    ASSUME NEW s, IsSeq(s)
    PROVE  /\ Len(s) \in Nat
           /\ s = <<>> <=> Len(s) = 0
           /\ s # <<>> => /\ IsSeq(Tail(s)) /\ Len(Tail(s)) = Len(s) - 1
                          /\ Head(s) = s[1]
                          /\ \A i \in 1 .. Len(s) - 1 : Tail(s)[i] = s[i + 1]
  <1>1. PICK S : s \in Seq(S)
    BY DEF IsSeq
  <1>2. Len(s) \in Nat /\ (s = <<>> <=> Len(s) = 0)
    BY <1>1, LenProperties, EmptySeq
  <1>3. ASSUME s # <<>>
        PROVE  /\ IsSeq(Tail(s)) /\ Len(Tail(s)) = Len(s) - 1
               /\ Head(s) = s[1]
               /\ \A i \in 1 .. Len(s) - 1 : Tail(s)[i] = s[i + 1]
    <2>1. Tail(s) \in Seq(S) /\ Len(Tail(s)) = Len(s) - 1
      BY <1>1, <1>3, HeadTailProperties
    <2>2. \A i \in 1 .. Len(s) - 1 : Tail(s)[i] = s[i + 1]
      BY <1>1, <1>3, HeadTailProperties
    <2>3. Head(s) = s[1]
      BY <1>1, <1>3
    <2> QED
      BY <2>1, <2>2, <2>3 DEF IsSeq
  <1> QED
    BY <1>2, <1>3

\* A request is answered with a number of beats.
LEMMA AnswerBeatsType ==
    ASSUME NEW req
    PROVE  AnswerBeats(req) \in Nat
  BY BeatsAssumption DEF AnswerBeats

\* The adapter answers with as many beats as the device awaits.
LEMMA RepliesLength ==
    ASSUME NEW req
    PROVE  IsSeq(Replies(req)) /\ Len(Replies(req)) = AnswerBeats(req)
  <1>1. CASE req.cmd \in {"WRITE", "WRITE_LAST"}
    <2>1. Replies(req) = <<ZeroWord>> /\ AnswerBeats(req) = 1
      BY <1>1 DEF Replies, AnswerBeats
    <2>2. <<ZeroWord>> \in Seq({ZeroWord}) /\ Len(<<ZeroWord>>) = 1
      OBVIOUS
    <2> QED
      BY <2>1, <2>2 DEF IsSeq
  <1>2. CASE req.cmd = "WRITE_BURST"
    <2>1. Replies(req) = <<>> /\ AnswerBeats(req) = 0
      BY <1>2 DEF Replies, AnswerBeats, IsWrite
    <2>2. <<>> \in Seq({}) /\ Len(<<>>) = 0
      BY EmptySeq
    <2> QED
      BY <2>1, <2>2 DEF IsSeq
  <1>3. CASE ~IsWrite(req)
    <2> DEFINE n == AnswerBeats(req)
               f == [i \in 1 .. n |-> memory[req.addr + i - 1]]
    <2>1. Replies(req) = f
      BY <1>3 DEF Replies, IsWrite
    <2>2. n \in Nat
      BY AnswerBeatsType
    <2> HIDE DEF n
    <2>3. DOMAIN f = 1 .. n /\ f = [i \in 1 .. n |-> f[i]]
      OBVIOUS
    <2> HIDE DEF f
    <2>4. IsSeq(f) /\ Len(f) = n
      BY <2>2, <2>3, FunctionIsSeq
    <2> QED
      BY <2>1, <2>4 DEF n
  <1> QED
    BY <1>1, <1>2, <1>3 DEF IsWrite

\* What an access asks ends with a request that is answered.
LEMMA PlanIsSound ==
    ASSUME NEW line, NEW t
    PROVE  SoundPlan(Plan(line, t))
  <1> DEFINE r == Request("mmio", IF t.op = "write" THEN "WRITE" ELSE "READ",
                          t.addr, t.data, t.mask)
             f == Request("mem", "READ_BURST", LineOf(t.addr), t.data, {})
             wb == WriteBack(line, DOMAIN t.data)
  <1>1. ASSUME NEW q, q.bus \in Buses, AnswerBeats(q) > 0
        PROVE  SoundPlan(<<q>>)
    <2> DEFINE s == <<q>>
    <2>1. s \in Seq({q}) /\ Len(s) = 1 /\ s[1] = q
      OBVIOUS
    <2> HIDE DEF s
    <2>2. \A i \in 1 .. Len(s) : s[i] = q
      BY <2>1
    <2>3. AnswerBeats(s[Len(s)]) > 0
      BY <1>1, <2>1
    <2>4. SoundPlan(s)
      BY <1>1, <2>1, <2>2, <2>3 DEF SoundPlan, IsSeq
    <2> QED
      BY <2>4 DEF s
  <1>2. /\ r.bus \in Buses /\ AnswerBeats(r) > 0
        /\ f.bus \in Buses /\ AnswerBeats(f) > 0
    BY BeatsAssumption DEF Request, Buses, AnswerBeats
  <1>3. SoundPlan(<<>>)
    BY EmptySeq DEF SoundPlan, IsSeq
  <1>4. SoundPlan(wb \o <<f>>)
    <2>1. /\ DOMAIN wb = 1 .. Beats /\ wb = [i \in 1 .. Beats |-> wb[i]]
          /\ \A i \in 1 .. Beats : wb[i].bus \in Buses
      BY DEF WriteBack, Request, Buses
    <2> HIDE DEF wb, f
    <2>2. IsSeq(wb) /\ Len(wb) = Beats
      BY <2>1, BeatsAssumption, FunctionIsSeq
    <2>3. PICK S : wb \in Seq(S)
      BY <2>2 DEF IsSeq
    <2> DEFINE T == S \cup {f}
    <2>4. wb \in Seq(T) /\ <<f>> \in Seq(T)
      <3>1. S \subseteq T /\ f \in T
        OBVIOUS
      <3> HIDE DEF T
      <3> QED
        BY <2>3, <3>1, SeqMonotonic
    <2>5. Len(<<f>>) = 1 /\ <<f>>[1] = f
      OBVIOUS
    <2> HIDE DEF T
    <2>6. /\ wb \o <<f>> \in Seq(T) /\ Len(wb \o <<f>>) = Beats + 1
          /\ \A i \in 1 .. Beats + 1 :
                (wb \o <<f>>)[i] = IF i <= Beats THEN wb[i] ELSE <<f>>[i - Beats]
      BY <2>2, <2>4, <2>5, ConcatProperties
    <2>7. ASSUME NEW i \in 1 .. Beats + 1
          PROVE  (wb \o <<f>>)[i] = IF i = Beats + 1 THEN f ELSE wb[i]
      <3>1. CASE i <= Beats
        BY <2>6, <3>1, BeatsAssumption
      <3>2. CASE ~(i <= Beats)
        <4>1. i = Beats + 1 /\ i - Beats = 1
          BY <3>2, BeatsAssumption
        <4> QED
          BY <2>5, <2>6, <3>2, <4>1
      <3> QED
        BY <3>1, <3>2
    <2>8. \A i \in 1 .. Beats + 1 : (wb \o <<f>>)[i].bus \in Buses
      <3> TAKE i \in 1 .. Beats + 1
      <3>1. i # Beats + 1 => i \in 1 .. Beats
        BY BeatsAssumption
      <3> QED
        BY <1>2, <2>1, <2>7, <3>1
    <2>9. Beats + 1 \in 1 .. Beats + 1
      BY BeatsAssumption
    <2>10. AnswerBeats((wb \o <<f>>)[Beats + 1]) > 0
      BY <1>2, <2>7, <2>9
    <2> QED
      BY <2>6, <2>8, <2>10 DEF SoundPlan, IsSeq
  <1>5. <<>> \o <<f>> = <<f>>
    BY ConcatEmptySeq
  <1>6. Plan(line, t) = IF IsMmio(t) THEN <<r>> ELSE IF Holds(line, t) THEN <<>>
                        ELSE (IF line.dirty THEN wb ELSE <<>>) \o <<f>>
    BY DEF Plan
  <1> HIDE DEF r, f, wb
  <1> QED
    BY <1>1, <1>2, <1>3, <1>4, <1>5, <1>6

-----------------------------------------------------------------------------
(***************************************************************************)
(* The device at a clock edge.                                             *)
(***************************************************************************)
LEMMA SendIsSound ==
    ASSUME NEW d, DeviceInv(d), d.awaited = 0, d.todo # <<>>
    PROVE  DeviceInv(Send(d)) /\ Send(d).awaited = 0
  <1> DEFINE n == Len(d.todo)
             e == Send(d)
  <1>1. /\ IsSeq(d.todo) /\ \A i \in 1 .. n : d.todo[i].bus \in Buses
        /\ AnswerBeats(d.todo[n]) > 0
        /\ DOMAIN d = DeviceFields /\ d.answer = "owed"
    BY DEF DeviceInv, SoundPlan
  <1>2. /\ n \in Nat \ {0}
        /\ IsSeq(Tail(d.todo)) /\ Len(Tail(d.todo)) = n - 1
        /\ Head(d.todo) = d.todo[1]
        /\ \A i \in 1 .. n - 1 : Tail(d.todo)[i] = d.todo[i + 1]
        /\ Tail(d.todo) = <<>> <=> n - 1 = 0
    <2>1. n \in Nat /\ n # 0 /\ IsSeq(Tail(d.todo)) /\ Len(Tail(d.todo)) = n - 1
      BY <1>1, SeqLength
    <2> QED
      BY <1>1, <2>1, SeqLength
  <1>3. /\ e.out = Head(d.todo) /\ e.todo = Tail(d.todo)
        /\ e.awaited = 0 /\ e.answer = "owed" /\ DOMAIN e = DeviceFields
    BY <1>1 DEF Send, DeviceFields
  <1> HIDE DEF n, e
  <1>4. SoundPlan(e.todo)
    <2>1. \A i \in 1 .. n - 1 : Tail(d.todo)[i].bus \in Buses
      <3> TAKE i \in 1 .. n - 1
      <3>1. i + 1 \in 1 .. n
        BY <1>2
      <3> QED
        BY <1>1, <1>2, <3>1
    <2>2. n - 1 # 0 => AnswerBeats(Tail(d.todo)[n - 1]) > 0
      <3> SUFFICES ASSUME n - 1 # 0
                   PROVE  AnswerBeats(Tail(d.todo)[n - 1]) > 0
        OBVIOUS
      <3>1. n - 1 \in 1 .. n - 1 /\ (n - 1) + 1 = n
        BY <1>2
      <3> QED
        BY <1>1, <1>2, <3>1
    <2> QED
      BY <1>2, <1>3, <2>1, <2>2 DEF SoundPlan
  <1>5. e.out.bus \in Buses
    <2>1. 1 \in 1 .. n
      BY <1>2
    <2> QED
      BY <1>1, <1>2, <1>3, <2>1
  <1>6. AnswerBeats(e.out) = 0 => e.todo # <<>>
    <2> SUFFICES ASSUME e.todo = <<>>
                 PROVE  AnswerBeats(e.out) # 0
      OBVIOUS
    <2>1. n = 1
      <3>1. Tail(d.todo) = <<>>
        BY <1>3
      <3>2. n - 1 = 0
        BY <1>2, <3>1
      <3> QED
        BY <1>2, <3>2
    <2>2. AnswerBeats(e.out) > 0 /\ AnswerBeats(e.out) \in Nat
      BY <1>1, <1>2, <1>3, <2>1, AnswerBeatsType
    <2> QED
      BY <2>2
  <1> QED
    BY <1>3, <1>4, <1>5, <1>6 DEF DeviceInv, e

\* What the device does of its own accord keeps its protocol.
LEMMA MovesAreSound ==
    ASSUME NEW d, DeviceInv(d), NEW m \in Moves(d)
    PROVE  /\ DeviceInv(m)
           /\ m.awaited = IF d.out # None THEN AnswerBeats(d.out) ELSE d.awaited
           /\ d.out # None => m \in Fired(d)
  <1>1. CASE d.out # None
    <2> DEFINE gone == [d EXCEPT !.out = None, !.awaited = AnswerBeats(d.out)]
    <2>1. /\ DOMAIN gone = DeviceFields /\ gone.out = None
          /\ gone.awaited = AnswerBeats(d.out)
          /\ gone.todo = d.todo /\ gone.answer = d.answer
      BY DEF DeviceInv, DeviceFields
    <2>2. m \in {gone} \cup (IF gone.awaited = 0 THEN {Send(gone)} ELSE {})
      BY <1>1 DEF Moves, Fired
    <2> HIDE DEF gone
    <2>3. DeviceInv(gone)
      BY <2>1, AnswerBeatsType DEF DeviceInv
    <2>4. CASE m = gone
      BY <1>1, <2>1, <2>3, <2>4 DEF Moves
    <2>5. CASE m # gone
      <3>1. m = Send(gone) /\ gone.awaited = 0
        BY <2>2, <2>5
      <3>2. gone.todo # <<>>
        BY <1>1, <2>1, <3>1 DEF DeviceInv
      <3> QED
        BY <1>1, <2>1, <2>3, <3>1, <3>2, SendIsSound DEF Moves
    <2> QED
      BY <2>4, <2>5
  <1>2. CASE d.out = None /\ d.todo # <<>> /\ d.awaited = 0
    <2>1. m = Send(d)
      BY <1>2 DEF Moves
    <2> QED
      BY <1>2, <2>1, SendIsSound
  <1>3. CASE d.out = None /\ m = d
    BY <1>3
  <1>4. CASE d.out = None /\ MayAnswer(d) /\ m = Answered(d)
    <2>1. /\ DOMAIN m = DeviceFields /\ m.out = None /\ m.todo = d.todo
          /\ m.awaited = d.awaited /\ d.todo = <<>>
      BY <1>4 DEF MayAnswer, Answered, DeviceInv, DeviceFields
    <2> QED
      BY <1>4, <2>1 DEF DeviceInv
  <1> QED
    BY <1>1, <1>2, <1>3, <1>4 DEF Moves

\* A stalled device, and one that is no longer, are in the same protocol state.
LEMMA StallIsSound ==
    ASSUME NEW d, DeviceInv(d)
    PROVE  /\ DeviceInv(Unstalled(d)) /\ Unstalled(d).awaited = d.awaited
           /\ \A m \in Stalled(d) : DeviceInv(m) /\ m.awaited = d.awaited
           /\ d.out # None => Stalled(d) = {}
  <1> DEFINE u == Unstalled(d)
             s == [d EXCEPT !.stall = @ + 1, !.bus_ready = FALSE]
  <1>1. /\ DOMAIN u = DeviceFields /\ u.awaited = d.awaited /\ u.todo = d.todo
        /\ u.answer = d.answer /\ u.out = d.out
    BY DEF Unstalled, DeviceInv, DeviceFields
  <1>2. /\ DOMAIN s = DeviceFields /\ s.awaited = d.awaited /\ s.todo = d.todo
        /\ s.answer = d.answer /\ s.out = d.out
    BY DEF DeviceInv, DeviceFields
  <1>3. Stalled(d) \subseteq {s} /\ (d.out # None => Stalled(d) = {})
    BY DEF Stalled
  <1> HIDE DEF s, u
  <1>4. DeviceInv(u)
    BY <1>1 DEF DeviceInv
  <1>5. DeviceInv(s)
    BY <1>2 DEF DeviceInv
  <1> QED
    BY <1>1, <1>2, <1>3, <1>4, <1>5 DEF u

\* The device once a bus has delivered a beat, the CPU taken its answer or sent
\* a request: none of it happens while a request is on a port.
Given(d, t, beat, taken) ==
    LET fed == IF beat = <<>> THEN d ELSE BeatTaken(d, Head(beat))
        freed == IF taken THEN HandedOver(fed) ELSE fed
    IN  IF t # None /\ CpuReady(d) THEN Accepted(freed, t) ELSE freed

\* So do a beat, a request and an answer that is taken.
LEMMA GivenIsSound ==
    ASSUME NEW d, DeviceInv(d), d.out = None,
           NEW t, NEW beat, beat # <<>> => d.awaited > 0,
           NEW taken \in BOOLEAN, taken => d.answer = "shown" /\ t = None
    PROVE  /\ DeviceInv(Given(d, t, beat, taken)) /\ Given(d, t, beat, taken).out = None
           /\ Given(d, t, beat, taken).awaited = IF beat = <<>> THEN d.awaited
                                                 ELSE d.awaited - 1
  <1> DEFINE fed == IF beat = <<>> THEN d ELSE BeatTaken(d, Head(beat))
             freed == IF taken THEN HandedOver(fed) ELSE fed
             given == Given(d, t, beat, taken)
             left == IF beat = <<>> THEN d.awaited ELSE d.awaited - 1
  <1>1. left \in Nat
    BY DEF DeviceInv
  <1>2. /\ DOMAIN fed = DeviceFields /\ fed.out = None /\ fed.todo = d.todo
        /\ fed.answer = d.answer /\ fed.awaited = left
    BY DEF BeatTaken, DeviceInv, DeviceFields
  <1> HIDE DEF left, fed
  <1>3. /\ DOMAIN freed = DeviceFields /\ freed.out = None /\ freed.todo = d.todo
        /\ freed.awaited = left
        /\ freed.answer = IF taken THEN "taken" ELSE d.answer
    BY <1>2 DEF HandedOver, DeviceFields
  <1>4. given = IF t # None /\ CpuReady(d) THEN Accepted(freed, t) ELSE freed
    BY DEF Given, freed, fed
  <1> HIDE DEF freed, given
  <1>5. DeviceInv(freed)
    BY <1>1, <1>3 DEF DeviceInv
  <1>6. CASE t # None /\ CpuReady(d)
    <2>1. /\ DOMAIN given = DeviceFields /\ given.out = None
          /\ given.todo = Plan(freed.line, t) /\ given.answer = "owed"
          /\ given.awaited = left
      BY <1>3, <1>4, <1>6 DEF Accepted, DeviceFields
    <2>2. DeviceInv(given)
      BY <1>1, <2>1, PlanIsSound DEF DeviceInv
    <2> QED
      BY <2>1, <2>2 DEF given, left
  <1>7. CASE ~(t # None /\ CpuReady(d))
    <2>1. given = freed
      BY <1>4, <1>7
    <2> QED
      BY <1>3, <1>5, <2>1 DEF given, left
  <1> QED
    BY <1>6, <1>7

\* After what is given the device does one thing of its own accord at most.
LEMMA EdgeMoves ==
    ASSUME NEW d, NEW t, NEW beat, NEW taken,
           Given(d, t, beat, taken) = d \/ Given(d, t, beat, taken).out = None,
           NEW e \in AfterEdge(d, t, beat, taken)
    PROVE  \E x \in Moves(Given(d, t, beat, taken)) \cup {Given(d, t, beat, taken)} :
              e \in Stalled(x) \cup {Unstalled(x)}
  <1> DEFINE given == Given(d, t, beat, taken)
             moved == IF given = d THEN Moves(d)
                      ELSE {given} \cup {Answered(g) : g \in {g \in {given} : MayAnswer(g)}}
  <1>1. \/ \E x \in moved : e = Unstalled(x)
        \/ \E x \in moved : e \in Stalled(x)
        \/ e \in Stalled(given)
    BY DEF AfterEdge, Given
  <1>2. moved \subseteq Moves(given) \cup {given}
    <2>1. CASE given = d
      <3>1. moved = Moves(d)
        BY <2>1
      <3> HIDE DEF moved, given
      <3> QED
        BY <2>1, <3>1
    <2>2. CASE given # d
      <3>1. /\ \A x \in moved : x = given \/ (MayAnswer(given) /\ x = Answered(given))
            /\ given.out = None
        BY <2>2
      <3> HIDE DEF moved, given
      <3>2. ASSUME MayAnswer(given)
            PROVE  Answered(given) \in Moves(given)
        BY <3>1, <3>2 DEF Moves, MayAnswer
      <3> QED
        BY <3>1, <3>2
    <2> QED
      BY <2>1, <2>2
  <1> HIDE DEF moved, given
  <1>3. \E x \in Moves(given) \cup {given} : e \in Stalled(x) \cup {Unstalled(x)}
    BY <1>1, <1>2
  <1> QED
    BY <1>3 DEF given

\* So does an edge, and the beats awaited are those of the request that went.
LEMMA EdgeIsSound ==
    ASSUME NEW d, DeviceInv(d),
           NEW t, NEW beat, beat # <<>> => d.awaited > 0,
           NEW taken \in BOOLEAN, taken => d.answer = "shown" /\ t = None,
           NEW e \in AfterEdge(d, t, beat, taken)
    PROVE  /\ DeviceInv(e)
           /\ e.awaited = IF d.out # None THEN AnswerBeats(d.out)
                          ELSE IF beat = <<>> THEN d.awaited ELSE d.awaited - 1
  <1> DEFINE given == Given(d, t, beat, taken)
             moved == IF given = d THEN Moves(d)
                      ELSE {given} \cup {Answered(g) : g \in {g \in {given} : MayAnswer(g)}}
             left == IF d.out # None THEN AnswerBeats(d.out)
                     ELSE IF beat = <<>> THEN d.awaited ELSE d.awaited - 1
  <1>1. \/ \E m \in moved : e = Unstalled(m)
        \/ \E m \in moved : e \in Stalled(m)
        \/ e \in Stalled(given)
    BY DEF AfterEdge, Given
  <1>2. CASE d.out # None
    <2>1. beat = <<>> /\ ~taken /\ ~CpuReady(d)
      BY <1>2 DEF DeviceInv, CpuReady
    <2>2. given = d
      BY <2>1 DEF Given
    <2>3. moved = Moves(d)
      BY <2>2
    <2>4. Stalled(given) = {}
      BY <1>2, <2>2, StallIsSound
    <2> HIDE DEF moved, given
    <2>5. \A m \in moved : DeviceInv(m) /\ m.awaited = left
      BY <1>2, <2>3, MovesAreSound
    <2> HIDE DEF left
    <2>6. DeviceInv(e) /\ e.awaited = left
      BY <1>1, <2>4, <2>5, StallIsSound
    <2> QED
      BY <2>6 DEF left
  <1>3. CASE d.out = None
    <2>1. /\ DeviceInv(given) /\ given.out = None /\ given.awaited = left
      <3>1. /\ DeviceInv(given) /\ given.out = None
            /\ given.awaited = IF beat = <<>> THEN d.awaited ELSE d.awaited - 1
        BY <1>3, GivenIsSound
      <3>2. left = IF beat = <<>> THEN d.awaited ELSE d.awaited - 1
        BY <1>3
      <3> HIDE DEF given, left
      <3> QED
        BY <3>1, <3>2
    <2>2. ASSUME NEW m \in moved
          PROVE  DeviceInv(m) /\ m.awaited = left
      <3>1. CASE given = d
        <4>1. m \in Moves(d)
          BY <2>2, <3>1
        <4>2. d.awaited = left
          BY <2>1, <3>1
        <4> HIDE DEF moved, given, left
        <4> QED
          BY <1>3, <4>1, <4>2, MovesAreSound
      <3>2. CASE given # d
        <4>1. m = given \/ (MayAnswer(given) /\ m = Answered(given))
          BY <2>2, <3>2
        <4> HIDE DEF moved, given, left
        <4>2. CASE m = given
          BY <2>1, <4>2
        <4>3. CASE MayAnswer(given) /\ m = Answered(given)
          <5>1. m \in Moves(given)
            <6>1. ~(given.todo # <<>> /\ given.awaited = 0)
              BY <4>3 DEF MayAnswer
            <6> QED
              BY <2>1, <4>3, <6>1 DEF Moves
          <5> QED
            BY <2>1, <5>1, MovesAreSound
        <4> QED
          BY <4>1, <4>2, <4>3
      <3> QED
        BY <3>1, <3>2
    <2> HIDE DEF moved, given, left
    <2>3. DeviceInv(e) /\ e.awaited = left
      BY <1>1, <2>1, <2>2, StallIsSound
    <2> QED
      BY <2>3 DEF left
  <1> QED
    BY <1>2, <1>3

-----------------------------------------------------------------------------
(***************************************************************************)
(* The adapter and the device.                                             *)
(***************************************************************************)
LEMMA WaitKeepsHandshake ==
    ASSUME HandshakeInv, NEW t, NEW taken \in BOOLEAN,
           taken => dev.answer = "shown" /\ t = None,
           WaitCycle(t, taken)
    PROVE  HandshakeInv'
  <1> DEFINE r == responses["mem"]
             q == responses["mmio"]
  <1>1. /\ DeviceInv(dev) /\ dev.awaited \in Nat
        /\ IsSeq(r) /\ IsSeq(q)
        /\ Len(r) + Len(q) = dev.awaited
        /\ r = <<>> \/ q = <<>>
        /\ bus_events = fired
    BY DEF HandshakeInv, DeviceInv, Buses
  <1>2. /\ Len(r) \in Nat /\ (r = <<>> <=> Len(r) = 0)
        /\ Len(q) \in Nat /\ (q = <<>> <=> Len(q) = 0)
        /\ r # <<>> => IsSeq(Tail(r)) /\ Len(Tail(r)) = Len(r) - 1
        /\ q # <<>> => IsSeq(Tail(q)) /\ Len(Tail(q)) = Len(q) - 1
    BY <1>1, SeqLength
  <1>3. dev' \in AfterEdge(dev, t, Beat, taken)
    BY DEF WaitCycle
  <1>4. Beat # <<>> <=> BusReady(dev) /\ (r # <<>> \/ q # <<>>)
    BY DEF Beat, Buses
  <1>5. Beat # <<>> => dev.awaited > 0
    BY <1>4 DEF BusReady
  <1>6. /\ DeviceInv(dev')
        /\ dev'.awaited = IF dev.out # None THEN AnswerBeats(dev.out)
                          ELSE IF Beat = <<>> THEN dev.awaited ELSE dev.awaited - 1
    <2> DEFINE beat == Beat
    <2> HIDE DEF beat
    <2>1. /\ DeviceInv(dev')
          /\ dev'.awaited = IF dev.out # None THEN AnswerBeats(dev.out)
                            ELSE IF beat = <<>> THEN dev.awaited ELSE dev.awaited - 1
      <3>1. dev' \in AfterEdge(dev, t, beat, taken) /\ (beat # <<>> => dev.awaited > 0)
        BY <1>3, <1>5 DEF beat
      <3> QED
        BY <1>1, <3>1, EdgeIsSound
    <2> QED
      BY <2>1 DEF beat
  <1>7. /\ bus_events' = IF Noticed THEN Append(bus_events, dev.out) ELSE bus_events
        /\ fired' = IF dev.out # None THEN Append(fired, dev.out) ELSE fired
        /\ \A b \in Buses :
              responses'[b] = IF responses[b] # <<>>
                              THEN IF BusReady(dev) THEN Tail(responses[b]) ELSE responses[b]
                              ELSE IF Noticed /\ dev.out.bus = b THEN Replies(dev.out) ELSE <<>>
    BY DEF WaitCycle, Service
  <1> DEFINE r1 == responses'["mem"]
             q1 == responses'["mmio"]
  <1>8. IsSeq(<<>>) /\ Len(<<>>) = 0
    BY EmptySeq DEF IsSeq
  <1>9. CASE dev.out # None
    <2>1. dev.awaited = 0 /\ dev.out.bus \in Buses
      BY <1>1, <1>9 DEF DeviceInv
    <2>2. r = <<>> /\ q = <<>>
      <3> HIDE DEF r, q
      <3>1. Len(r) + Len(q) = 0
        BY <1>1, <2>1
      <3>2. Len(r) = 0 /\ Len(q) = 0
        BY <1>2, <3>1
      <3> QED
        BY <1>2, <3>2
    <2>3. responses[dev.out.bus] = <<>>
      BY <2>1, <2>2 DEF Buses
    <2>4. Noticed
      BY <1>9, <2>3 DEF Noticed
    <2>5. /\ r1 = IF dev.out.bus = "mem" THEN Replies(dev.out) ELSE <<>>
          /\ q1 = IF dev.out.bus = "mmio" THEN Replies(dev.out) ELSE <<>>
      BY <1>7, <2>2, <2>4 DEF Buses
    <2>6. IsSeq(Replies(dev.out)) /\ Len(Replies(dev.out)) = AnswerBeats(dev.out)
      BY RepliesLength
    <2>7. AnswerBeats(dev.out) \in Nat
      BY AnswerBeatsType
    <2>8. bus_events' = fired'
      BY <1>1, <1>7, <1>9, <2>4
    <2> HIDE DEF r1, q1
    <2>9. /\ IsSeq(r1) /\ IsSeq(q1) /\ (r1 = <<>> \/ q1 = <<>>)
          /\ Len(r1) + Len(q1) = AnswerBeats(dev.out)
      <3>1. CASE dev.out.bus = "mem"
        BY <1>8, <2>5, <2>6, <2>7, <3>1
      <3>2. CASE dev.out.bus = "mmio"
        BY <1>8, <2>5, <2>6, <2>7, <3>2
      <3> QED
        BY <2>1, <3>1, <3>2 DEF Buses
    <2> QED
      BY <1>6, <1>9, <2>8, <2>9 DEF HandshakeInv, Buses, r1, q1
  <1>10. CASE dev.out = None
    <2>1. ~Noticed
      BY <1>10 DEF Noticed
    <2>2. /\ r1 = IF r # <<>> THEN IF BusReady(dev) THEN Tail(r) ELSE r ELSE <<>>
          /\ q1 = IF q # <<>> THEN IF BusReady(dev) THEN Tail(q) ELSE q ELSE <<>>
      BY <1>7, <2>1 DEF Buses
    <2>3. bus_events' = fired'
      BY <1>1, <1>7, <1>10, <2>1
    <2>4. dev'.awaited = IF Beat = <<>> THEN dev.awaited ELSE dev.awaited - 1
      BY <1>6, <1>10
    <2> HIDE DEF r, q, r1, q1
    <2>5. CASE Beat # <<>>
      <3>1. BusReady(dev) /\ (r # <<>> \/ q # <<>>)
        BY <1>4, <2>5
      <3>2. CASE r # <<>>
        <4>1. q = <<>> /\ q1 = <<>> /\ r1 = Tail(r) /\ Len(q1) = 0 /\ Len(q) = 0
          BY <1>1, <1>8, <2>2, <3>1, <3>2
        <4>2. IsSeq(r1) /\ IsSeq(q1) /\ Len(r1) + Len(q1) = dev'.awaited
          BY <1>1, <1>2, <1>8, <2>4, <2>5, <3>2, <4>1
        <4> QED
          BY <1>6, <2>3, <4>1, <4>2 DEF HandshakeInv, Buses, r1, q1
      <3>3. CASE q # <<>>
        <4>1. r = <<>> /\ r1 = <<>> /\ q1 = Tail(q) /\ Len(r1) = 0 /\ Len(r) = 0
          BY <1>1, <1>8, <2>2, <3>1, <3>3
        <4>2. IsSeq(r1) /\ IsSeq(q1) /\ Len(r1) + Len(q1) = dev'.awaited
          BY <1>1, <1>2, <1>8, <2>4, <2>5, <3>3, <4>1
        <4> QED
          BY <1>6, <2>3, <4>1, <4>2 DEF HandshakeInv, Buses, r1, q1
      <3> QED
        BY <3>1, <3>2, <3>3
    <2>6. CASE Beat = <<>>
      <3>1. ~BusReady(dev) \/ (r = <<>> /\ q = <<>>)
        BY <1>4, <2>6
      <3>2. r1 = r /\ q1 = q
        BY <2>2, <3>1
      <3>3. dev'.awaited = dev.awaited
        BY <2>4, <2>6
      <3> QED
        BY <1>1, <1>6, <2>3, <3>2, <3>3 DEF HandshakeInv, Buses, r1, q1
    <2> QED
      BY <2>5, <2>6
  <1> QED
    BY <1>9, <1>10

\* The device after reset, and the queues with it.
LEMMA ResetIsSound == DeviceInv(ResetDevice)
  <1>1. IsSeq(<<>>) /\ Len(<<>>) = 0
    BY EmptySeq DEF IsSeq
  <1> QED
    BY <1>1 DEF DeviceInv, ResetDevice, DeviceFields, SoundPlan

\* Empty queues match a device that awaits nothing.
LEMMA EmptyHandshake ==
    /\ IsSeq(<<>>)
    /\ Len(<<>>) + Len(<<>>) = ResetDevice.awaited
  BY EmptySeq DEF IsSeq, ResetDevice

\* The handshake holds at the start.
LEMMA AdapterInitInv == AdapterInit => HandshakeInv
  BY ResetIsSound, EmptyHandshake DEF AdapterInit, HandshakeInv, Buses

\* Every step keeps the handshake.
LEMMA AdapterNextInv == HandshakeInv /\ [AdapterNext]_adapterVars => HandshakeInv'
  <1> SUFFICES ASSUME HandshakeInv, [AdapterNext]_adapterVars
               PROVE  HandshakeInv'
    OBVIOUS
  <1>1. ASSUME NEW t \in Txns, StartRequest(t)
        PROVE  HandshakeInv'
    BY <1>1 DEF StartRequest, HandshakeInv
  <1>2. CASE AwaitReady
    BY <1>2, WaitKeepsHandshake DEF AwaitReady
  <1>3. CASE SendRequest
    BY <1>3, WaitKeepsHandshake DEF SendRequest
  <1>4. CASE AwaitResponse
    BY <1>4, WaitKeepsHandshake DEF AwaitResponse
  <1>5. CASE TakeResponse
    BY <1>5, WaitKeepsHandshake DEF TakeResponse
  <1>6. ASSUME NEW clear \in BOOLEAN, Reset(clear)
        PROVE  HandshakeInv'
    BY <1>6, ResetIsSound, EmptyHandshake DEF Reset, HandshakeInv, Buses
  <1>7. CASE UNCHANGED adapterVars
    BY <1>7 DEF adapterVars, HandshakeInv
  <1> QED
    BY <1>1, <1>2, <1>3, <1>4, <1>5, <1>6, <1>7 DEF AdapterNext, Clock

(***************************************************************************)
(* The beats that the adapter holds for the device are those that the      *)
(* device awaits, and they are all on one bus.                             *)
(***************************************************************************)
THEOREM HandshakeInvariant == AdapterSpec => []HandshakeInv
  BY AdapterInitInv, AdapterNextInv, PTL DEF AdapterSpec

(***************************************************************************)
(* Though _service_one_bus looks at the request port only when it has no   *)
(* answer left to deliver, no request of the device passes it by, and none *)
(* is logged twice: for every length of a burst and every stall.           *)
(***************************************************************************)
THEOREM NoRequestPassesBy == AdapterSpec => []EveryRequestNoticed
  <1>1. HandshakeInv => EveryRequestNoticed
    BY DEF HandshakeInv, EveryRequestNoticed
  <1> QED
    BY <1>1, HandshakeInvariant, PTL
-----------------------------------------------------------------------------
(***************************************************************************)
(* What the words hold while a line goes out and another comes in.         *)
(***************************************************************************)
\* The device's access is a write whose data is in the line, or past the MMIO bus.
Done(d) ==
    /\ d.answer # "taken" /\ d.txn.op = "write"
    /\ IF IsMmio(d.txn) THEN d.todo = <<>> /\ d.out = None ELSE d.answer = "shown"

\* The words as the program wrote them, and is about to have written.
Want(d, p) ==
    IF Done(d) THEN [p EXCEPT ![d.txn.addr] = Merge(@, d.txn.data, d.txn.mask)] ELSE p

Missing(d) == d.answer = "owed" /\ ~IsMmio(d.txn) /\ ~Holds(d.line, d.txn)

\* The beats of a fill are on their way.
Filling(d) == d.awaited > 0 /\ d.todo = <<>> /\ ~IsMmio(d.txn)

\* The line holds the word at a; while it is filled, the words that have come.
Held(d, a) ==
    /\ d.line.base = LineOf(a)
    /\ Filling(d) /\ d.got > 0 => a % Beats < d.got

\* The requests that are still to go.
Unsent(d) == Len(d.todo) + (IF d.out = None THEN 0 ELSE 1)

\* The request of an access that j others follow.
PlanAt(line, t, j) ==
    IF IsMmio(t)
    THEN Request("mmio", IF t.op = "write" THEN "WRITE" ELSE "READ", t.addr, t.data, t.mask)
    ELSE IF j = 0 THEN Request("mem", "READ_BURST", LineOf(t.addr), t.data, {})
    ELSE Request("mem", IF j = 1 THEN "WRITE_LAST" ELSE "WRITE_BURST",
                 line.base + Beats - j, line.words[Beats - j], Lanes)

LineTyped(line) ==
    /\ DOMAIN line = {"base", "dirty", "words"}
    /\ line.dirty \in BOOLEAN
    /\ line.dirty => line.base # None
    /\ line.base # None => /\ \E x \in Words : line.base = LineOf(x)
                           /\ line.words \in [0 .. Beats - 1 -> Word]

Asking(d) ==
    /\ \A i \in 1 .. Len(d.todo) : d.todo[i] = PlanAt(d.line, d.txn, Len(d.todo) - i)
    /\ d.out # None => d.out = PlanAt(d.line, d.txn, Len(d.todo)) /\ d.got = 0
    /\ Unsent(d) > 0 =>
          /\ d.answer = "owed"
          /\ Unsent(d) <= IF d.line.dirty /\ ~IsMmio(d.txn) THEN Beats + 1 ELSE 1
          /\ IsMmio(d.txn) \/ ~Holds(d.line, d.txn)
    /\ Missing(d) => Unsent(d) > 0 \/ d.awaited > 0

\* What the adapter holds for the device is what its memory holds.
Arriving(d, m, r, q) ==
    /\ Filling(d) =>
          /\ d.got \in Nat /\ d.got + d.awaited = Beats
          /\ IF d.got = 0 THEN Missing(d) ELSE Holds(d.line, d.txn) /\ ~d.line.dirty
          /\ d.answer # "owed" => d.txn.op = "read"
          /\ r # <<>> /\ \A j \in 1 .. d.awaited : r[j] = m[LineOf(d.txn.addr) + d.got + j - 1]
    /\ d.awaited > 0 /\ d.todo = <<>> /\ IsMmio(d.txn) =>
          /\ d.answer = "owed" /\ d.awaited = 1 /\ r = <<>>
          /\ d.txn.op = "read" => q[1] = m[d.txn.addr]
    /\ d.awaited = 0 /\ Unsent(d) = 0 /\ d.answer = "owed" /\ IsMmio(d.txn) /\ d.txn.op = "read"
          => d.value = m[d.txn.addr]

Contents(d, p, m) ==
    /\ \A a \in MmioWords : m[a] = Want(d, p)[a]
    /\ \A a \in Words :
          IF Held(d, a)
          THEN /\ d.line.words[a % Beats] = Want(d, p)[a]
               /\ ~d.line.dirty \/ (Missing(d) /\ (a % Beats) + Unsent(d) <= Beats)
                  => m[a] = Want(d, p)[a]
          ELSE m[a] = Want(d, p)[a]
    /\ d.answer = "shown" /\ d.txn.op = "read" => d.value = Want(d, p)[d.txn.addr]

DataInv(d, p, m, r, q) ==
    /\ p \in [Addresses -> Word] /\ m \in [Addresses -> Word]
    /\ d.answer \in {"owed", "shown", "taken"}
    /\ d.answer # "taken" \/ d.awaited > 0 => d.txn \in Transactions
    /\ LineTyped(d.line) /\ Asking(d) /\ Arriving(d, m, r, q) /\ Contents(d, p, m)

\* Where execute stands, and the access that the device is at.
AccessInv ==
    /\ HandshakeInv
    /\ pc \in {"IDLE", "DRIVE", "SAMPLE"}
    /\ pc = "SAMPLE" <=> dev.answer # "taken"
    /\ pc # "IDLE" => txn \in Txns
    /\ pc = "SAMPLE" => dev.txn = Shown

AdapterInv ==
    /\ AccessInv
    /\ DataInv(dev, program, memory, responses["mem"], responses["mmio"])
    /\ ReadsSeeWrites

-----------------------------------------------------------------------------
(***************************************************************************)
(* Words, lines and the requests that carry them.                          *)
(***************************************************************************)
LEMMA LineSplit ==
    ASSUME NEW a \in Nat
    PROVE  /\ LineOf(a) \in Nat
           /\ a % Beats \in 0 .. Beats - 1
           /\ a = LineOf(a) + (a % Beats)
  <1>1. ASSUME NEW d \in Nat \ {0}
        PROVE  /\ a \div d \in Nat
               /\ a % d \in 0 .. d - 1
               /\ a = (a \div d) * d + (a % d)
               /\ (a \div d) * d \in Nat
    BY SMTT(30)
  <1> QED
    BY <1>1, BeatsAssumption DEF LineOf

\* A line and a place in it make a word address of that line.
LEMMA LineJoin ==
    ASSUME NEW a \in Nat, NEW i \in 0 .. Beats - 1
    PROVE  LineOf(LineOf(a) + i) = LineOf(a) /\ (LineOf(a) + i) % Beats = i
  <1>1. ASSUME NEW d \in Nat \ {0}, NEW n \in Nat, NEW j \in 0 .. d - 1
        PROVE  (n * d + j) \div d = n /\ (n * d + j) % d = j
    BY SMTT(30)
  <1>2. a \div Beats \in Nat
    <2>1. \A d \in Nat \ {0} : a \div d \in Nat
      BY SMTT(30)
    <2> QED
      BY <2>1, BeatsAssumption
  <1>3. ((a \div Beats) * Beats + i) \div Beats = a \div Beats
    BY <1>1, <1>2, BeatsAssumption
  <1>4. ((a \div Beats) * Beats + i) % Beats = i
    BY <1>1, <1>2, BeatsAssumption
  <1> QED
    BY <1>3, <1>4 DEF LineOf

\* The words of a line are addresses of memory.
LEMMA LineWords ==
    ASSUME NEW x \in Words, NEW i \in 0 .. Beats - 1
    PROVE  /\ x \in Nat /\ LineOf(x) \in Nat
           /\ LineOf(x) + i \in Words
           /\ LineOf(LineOf(x) + i) = LineOf(x) /\ (LineOf(x) + i) % Beats = i
  <1>1. x \in Nat /\ LineOf(x) .. LineOf(x) + Beats - 1 \subseteq Words
    BY WordsAssumption
  <1>2. LineOf(x) \in Nat
    BY <1>1, LineSplit
  <1>3. LineOf(x) + i \in LineOf(x) .. LineOf(x) + Beats - 1
    BY <1>2, BeatsAssumption
  <1> QED
    BY <1>1, <1>2, <1>3, LineJoin

\* A word is where its line and its place in it say.
LEMMA WordPlace ==
    ASSUME NEW a \in Words
    PROVE  /\ a \in Nat /\ LineOf(a) \in Nat /\ LineOf(a) # None
           /\ a % Beats \in 0 .. Beats - 1 /\ a = LineOf(a) + (a % Beats)
  BY LineSplit, WordsAssumption, NoneAssumption

\* What the device was asked to do is what its bus requests are made of.
LEMMA PlanShape ==
    ASSUME NEW line, LineTyped(line), NEW t \in Transactions
    PROVE  /\ \A i \in 1 .. Len(Plan(line, t)) :
                 Plan(line, t)[i] = PlanAt(line, t, Len(Plan(line, t)) - i)
           /\ Len(Plan(line, t)) = IF IsMmio(t) THEN 1 ELSE IF Holds(line, t) THEN 0
                                   ELSE IF line.dirty THEN Beats + 1 ELSE 1
           /\ Plan(line, t) = <<>> <=> Len(Plan(line, t)) = 0
  <1> DEFINE r == Request("mmio", IF t.op = "write" THEN "WRITE" ELSE "READ",
                          t.addr, t.data, t.mask)
             f == Request("mem", "READ_BURST", LineOf(t.addr), t.data, {})
             wb == WriteBack(line, DOMAIN t.data)
             plan == Plan(line, t)
  <1>1. plan = IF IsMmio(t) THEN <<r>> ELSE IF Holds(line, t) THEN <<>>
               ELSE (IF line.dirty THEN wb ELSE <<>>) \o <<f>>
    BY DEF Plan
  <1>2. <<>> \o <<f>> = <<f>>
    BY ConcatEmptySeq
  <1>3. \A j : PlanAt(line, t, j) =
          IF IsMmio(t) THEN r ELSE IF j = 0 THEN f
          ELSE Request("mem", IF j = 1 THEN "WRITE_LAST" ELSE "WRITE_BURST",
                       line.base + Beats - j, line.words[Beats - j], Lanes)
    BY DEF PlanAt
  <1>4. CASE IsMmio(t)
    <2>1. plan = <<r>> /\ \A j : PlanAt(line, t, j) = r
      BY <1>1, <1>3, <1>4
    <2> HIDE DEF r, plan
    <2>2. Len(plan) = 1 /\ plan[1] = r /\ plan # <<>>
      BY <2>1
    <2> QED
      BY <1>4, <2>1, <2>2 DEF plan
  <1>5. CASE ~IsMmio(t) /\ Holds(line, t)
    <2>1. plan = <<>>
      BY <1>1, <1>5
    <2>2. Len(plan) = 0
      BY <2>1
    <2> HIDE DEF plan
    <2> QED
      BY <1>5, <2>1, <2>2 DEF plan
  <1>6. CASE ~IsMmio(t) /\ ~Holds(line, t) /\ ~line.dirty
    <2>1. plan = <<f>> /\ PlanAt(line, t, 0) = f
      BY <1>1, <1>2, <1>3, <1>6
    <2> HIDE DEF f, plan
    <2>2. Len(plan) = 1 /\ plan[1] = f /\ plan # <<>>
      BY <2>1
    <2>3. \A i \in 1 .. 1 : i = 1 /\ 1 - i = 0
      OBVIOUS
    <2> QED
      BY <1>6, <2>1, <2>2, <2>3 DEF plan
  <1>7. CASE ~IsMmio(t) /\ ~Holds(line, t) /\ line.dirty
    <2>1. plan = wb \o <<f>>
      BY <1>1, <1>7
    <2>2. DOMAIN t.data = Lanes
      BY DEF Transactions, Word
    <2>3. /\ DOMAIN wb = 1 .. Beats /\ wb = [i \in 1 .. Beats |-> wb[i]]
          /\ \A i \in 1 .. Beats :
                wb[i] = Request("mem", IF i = Beats THEN "WRITE_LAST" ELSE "WRITE_BURST",
                                line.base + i - 1, line.words[i - 1], Lanes)
      BY <2>2 DEF WriteBack
    <2> HIDE DEF wb
    <2>4. IsSeq(wb) /\ Len(wb) = Beats
      BY <2>3, BeatsAssumption, FunctionIsSeq
    <2>5. PICK S : wb \in Seq(S)
      BY <2>4 DEF IsSeq
    <2> DEFINE T == S \cup {f}
    <2>6. wb \in Seq(T) /\ <<f>> \in Seq(T) /\ Len(<<f>>) = 1 /\ <<f>>[1] = f
      <3>1. S \subseteq T /\ f \in T
        OBVIOUS
      <3> HIDE DEF T, f
      <3> QED
        BY <2>5, <3>1, SeqMonotonic
    <2> HIDE DEF T, f
    <2>7. /\ wb \o <<f>> \in Seq(T) /\ Len(wb \o <<f>>) = Beats + 1
          /\ \A i \in 1 .. Beats + 1 :
                (wb \o <<f>>)[i] = IF i <= Beats THEN wb[i] ELSE <<f>>[i - Beats]
      BY <2>4, <2>6, ConcatProperties
    <2> HIDE DEF plan
    <2>8. Len(plan) = Beats + 1 /\ plan # <<>>
      <3>1. Len(<<>>) = 0
        OBVIOUS
      <3> QED
        BY <2>1, <2>7, <3>1, BeatsAssumption
    <2>9. ASSUME NEW i \in 1 .. Beats + 1
          PROVE  plan[i] = PlanAt(line, t, Beats + 1 - i)
      <3>1. CASE i = Beats + 1
        <4>1. i - Beats = 1 /\ ~(i <= Beats) /\ Beats + 1 - i = 0
          BY <3>1, BeatsAssumption
        <4>2. plan[i] = f
          BY <2>1, <2>6, <2>7, <4>1
        <4>3. PlanAt(line, t, 0) = f
          BY <1>3, <1>7
        <4> QED
          BY <4>1, <4>2, <4>3
      <3>2. CASE i # Beats + 1
        <4>1. line.base \in Nat
          <5>1. PICK x \in Words : line.base = LineOf(x)
            BY <1>7 DEF LineTyped
          <5> QED
            BY <5>1, WordPlace
        <4> DEFINE j == Beats + 1 - i
        <4>2. /\ i <= Beats /\ i \in 1 .. Beats /\ j # 0 /\ (j = 1 <=> i = Beats)
              /\ Beats - j = i - 1 /\ line.base + Beats - j = line.base + i - 1
          BY <3>2, <4>1, BeatsAssumption
        <4>3. plan[i] = wb[i]
          BY <2>1, <2>7, <4>2
        <4> HIDE DEF j
        <4>4. PlanAt(line, t, j) = Request("mem", IF j = 1 THEN "WRITE_LAST" ELSE "WRITE_BURST",
                                           line.base + Beats - j, line.words[Beats - j], Lanes)
          BY <1>3, <1>7, <4>2
        <4>5. PlanAt(line, t, j) = wb[i]
          BY <2>3, <4>2, <4>4
        <4> QED
          BY <4>3, <4>5 DEF j
      <3> QED
        BY <3>1, <3>2
    <2>10. Len(plan) # 0
      BY <2>8, BeatsAssumption
    <2> DEFINE k == Len(plan)
               Is(i, j) == plan[i] = PlanAt(line, t, j)
    <2>11. \A i \in 1 .. k : Is(i, k - i)
      <3>1. k = Beats + 1
        BY <2>8
      <3>2. \A i \in 1 .. Beats + 1 : Is(i, Beats + 1 - i)
        BY <2>9
      <3> HIDE DEF k, Is
      <3>3. ASSUME NEW i \in 1 .. k
            PROVE  Is(i, k - i)
        <4>1. i \in 1 .. Beats + 1 /\ k - i = Beats + 1 - i
          BY <3>1, BeatsAssumption
        <4>2. Is(i, Beats + 1 - i)
          BY <3>2, <4>1
        <4> QED
          BY <4>1, <4>2
      <3> QED
        BY <3>3
    <2>12. Len(plan) = IF IsMmio(t) THEN 1 ELSE IF Holds(line, t) THEN 0
                       ELSE IF line.dirty THEN Beats + 1 ELSE 1
      BY <1>7, <2>8
    <2>13. plan = <<>> <=> Len(plan) = 0
      BY <2>8, <2>10
    <2> QED
      BY <2>11, <2>12, <2>13 DEF plan
  <1> QED
    BY <1>4, <1>5, <1>6, <1>7

\* A request that is sent is one, not None.
LEMMA PlanIsRequests ==
    ASSUME NEW line, LineTyped(line), NEW t \in Transactions, NEW j \in Nat,
           IsMmio(t) \/ j = 0 \/ (line.dirty /\ j <= Beats)
    PROVE  /\ PlanAt(line, t, j) # None
           /\ ~IsMmio(t) /\ j > 0 =>
                 /\ line.base \in Nat /\ Beats - j \in 0 .. Beats - 1
                 /\ line.base + Beats - j \in Words
                 /\ line.words[Beats - j] \in Word
  <1>1. /\ t.addr \in Addresses /\ t.data \in Word /\ t.mask \in SUBSET Lanes
        /\ t.op \in {"read", "write"}
    BY DEF Transactions
  <1>2. CASE IsMmio(t)
    <2>1. PlanAt(line, t, j) \in BusRequests(Addresses, Word, Lanes)
      BY <1>1, <1>2 DEF PlanAt, Request, BusRequests
    <2> QED
      BY <1>2, <2>1, NoneAssumption
  <1>3. CASE ~IsMmio(t) /\ j = 0
    <2>1. t.addr \in Words
      BY <1>1, <1>3 DEF Addresses, IsMmio
    <2>2. LineOf(t.addr) \in Words
      <3>1. 0 \in 0 .. Beats - 1
        BY BeatsAssumption
      <3>2. LineOf(t.addr) + 0 \in Words /\ LineOf(t.addr) \in Nat
        BY <2>1, <3>1, LineWords
      <3> QED
        BY <3>2
    <2>3. PlanAt(line, t, j) \in BusRequests(Addresses, Word, Lanes)
      BY <1>1, <1>3, <2>2 DEF PlanAt, Request, BusRequests, Addresses
    <2> QED
      BY <1>3, <2>3, NoneAssumption
  <1>4. CASE ~IsMmio(t) /\ j # 0
    <2>1. line.dirty /\ j <= Beats /\ j > 0
      BY <1>4
    <2>2. PICK x \in Words : line.base = LineOf(x)
      BY <2>1 DEF LineTyped
    <2>3. Beats - j \in 0 .. Beats - 1
      BY <2>1, BeatsAssumption
    <2>4. /\ line.base \in Nat /\ line.base + (Beats - j) \in Words
          /\ line.base + (Beats - j) = line.base + Beats - j
      <3>1. LineOf(x) \in Nat /\ LineOf(x) + (Beats - j) \in Words
        BY <2>3, LineWords
      <3> QED
        BY <2>2, <3>1, BeatsAssumption
    <2>5. line.words[Beats - j] \in Word
      BY <2>1, <2>3 DEF LineTyped
    <2>6. PlanAt(line, t, j) \in BusRequests(Addresses, Word, Lanes)
      BY <1>4, <2>4, <2>5 DEF PlanAt, Request, BusRequests, Addresses
    <2> QED
      BY <2>3, <2>4, <2>5, <2>6, NoneAssumption
  <1> QED
    BY <1>2, <1>3, <1>4

\* The words the program is about to have written are words.
LEMMA WantTyped ==
    ASSUME NEW d, NEW p \in [Addresses -> Word], d.answer # "taken" => d.txn \in Transactions
    PROVE  Want(d, p) \in [Addresses -> Word]
  <1>1. CASE Done(d)
    <2>1. d.txn.addr \in Addresses /\ d.txn.data \in Word
      BY <1>1 DEF Done, Transactions
    <2>2. p[d.txn.addr] \in Word
      BY <2>1
    <2>3. Merge(p[d.txn.addr], d.txn.data, d.txn.mask) \in Word
      BY <2>1, <2>2 DEF Merge, Word
    <2> QED
      BY <1>1, <2>1, <2>3 DEF Want
  <1>2. CASE ~Done(d)
    BY <1>2 DEF Want
  <1> QED
    BY <1>1, <1>2

-----------------------------------------------------------------------------
(***************************************************************************)
(* Each thing a device may do at an edge.                                  *)
(***************************************************************************)
LEMMA StallKeepsData ==
    ASSUME NEW d, NEW e, NEW p, NEW m, NEW r, NEW q, DataInv(d, p, m, r, q),
           e.line = d.line, e.txn = d.txn, e.todo = d.todo, e.out = d.out,
           e.awaited = d.awaited, e.got = d.got, e.answer = d.answer, e.value = d.value
    PROVE  DataInv(e, p, m, r, q)
  <1>1. /\ Done(e) <=> Done(d)
        /\ Missing(e) <=> Missing(d)
        /\ Filling(e) <=> Filling(d)
        /\ Unsent(e) = Unsent(d)
    BY DEF Done, Missing, Filling, Unsent
  <1>2. Want(e, p) = Want(d, p) /\ \A a : Held(e, a) <=> Held(d, a)
    BY <1>1 DEF Want, Held
  <1>3. Asking(e)
    BY <1>1 DEF DataInv, Asking
  <1>4. Arriving(e, m, r, q)
    BY <1>1 DEF DataInv, Arriving
  <1>5. Contents(e, p, m)
    BY <1>1, <1>2 DEF DataInv, Contents
  <1> QED
    BY <1>3, <1>4, <1>5 DEF DataInv

\* A request that is accepted has its whole plan still to send.
LEMMA AcceptKeepsData ==
    ASSUME NEW d, DeviceInv(d), NEW p, NEW m, NEW r, NEW q, DataInv(d, p, m, r, q),
           CpuReady(d), NEW t \in Transactions
    PROVE  DataInv(Accepted(d, t), p, m, r, q)
  <1> DEFINE e == Accepted(d, t)
             n == Len(Plan(d.line, t))
  <1>1. /\ e.line = d.line /\ e.txn = t /\ e.todo = Plan(d.line, t) /\ e.out = None
        /\ e.awaited = 0 /\ e.answer = "owed"
        /\ d.answer = "taken" /\ d.awaited = 0 /\ d.out = None
    BY DEF Accepted, CpuReady, DeviceInv, DeviceFields
  <1> HIDE DEF e
  <1>2. LineTyped(d.line)
    BY DEF DataInv
  <1>3. /\ \A i \in 1 .. n : e.todo[i] = PlanAt(e.line, t, n - i)
        /\ n = IF IsMmio(t) THEN 1 ELSE IF Holds(d.line, t) THEN 0
               ELSE IF d.line.dirty THEN Beats + 1 ELSE 1
        /\ e.todo = <<>> <=> n = 0
        /\ n = Len(e.todo)
    <2> DEFINE plan == Plan(d.line, t)
    <2>1. /\ \A i \in 1 .. Len(plan) : plan[i] = PlanAt(d.line, t, Len(plan) - i)
          /\ Len(plan) = IF IsMmio(t) THEN 1 ELSE IF Holds(d.line, t) THEN 0
                         ELSE IF d.line.dirty THEN Beats + 1 ELSE 1
          /\ plan = <<>> <=> Len(plan) = 0
      BY <1>2, PlanShape
    <2>2. e.todo = plan /\ n = Len(plan) /\ e.line = d.line
      BY <1>1
    <2> HIDE DEF plan, n
    <2> QED
      BY <2>1, <2>2
  <1> HIDE DEF n
  <1>4. ~Done(e) /\ ~Done(d) /\ Want(e, p) = p /\ Want(d, p) = p
    <2>1. IsMmio(t) => e.todo # <<>>
      BY <1>3
    <2> QED
      BY <1>1, <2>1 DEF Done, Want
  <1>5. Unsent(e) = n /\ n \in Nat
    BY <1>1, <1>3, BeatsAssumption DEF Unsent
  <1>6. ~Filling(e) /\ ~Filling(d) /\ ~Missing(d)
    BY <1>1 DEF Filling, Missing
  <1>7. \A a : Held(e, a) <=> Held(d, a)
    BY <1>1, <1>6 DEF Held
  <1>8. Asking(e)
    <2>1. Unsent(e) > 0 =>
            /\ Unsent(e) <= IF e.line.dirty /\ ~IsMmio(e.txn) THEN Beats + 1 ELSE 1
            /\ IsMmio(e.txn) \/ ~Holds(e.line, e.txn)
      BY <1>1, <1>3, <1>5
    <2>2. Missing(e) => Unsent(e) > 0
      BY <1>1, <1>3, <1>5, BeatsAssumption DEF Missing
    <2> QED
      BY <1>1, <1>3, <1>5, <2>1, <2>2 DEF Asking
  <1>9. Arriving(e, m, r, q)
    <2>1. IsMmio(e.txn) => Unsent(e) # 0
      BY <1>1, <1>3, <1>5
    <2> QED
      BY <1>1, <1>6, <2>1 DEF Arriving
  <1>10. Contents(e, p, m)
    <2>1. ASSUME NEW a \in Words, Held(e, a)
          PROVE  /\ e.line.words[a % Beats] = p[a]
                 /\ ~e.line.dirty \/ (Missing(e) /\ (a % Beats) + Unsent(e) <= Beats)
                    => m[a] = p[a]
      <3>1. d.line.words[a % Beats] = p[a] /\ (~d.line.dirty => m[a] = p[a])
        BY <1>4, <1>7, <2>1 DEF DataInv, Contents
      <3>2. Missing(e) /\ d.line.dirty => Unsent(e) = Beats + 1
        BY <1>1, <1>3, <1>5 DEF Missing
      <3>3. a % Beats \in 0 .. Beats - 1
        BY WordPlace
      <3>4. Missing(e) /\ d.line.dirty => ~((a % Beats) + Unsent(e) <= Beats)
        BY <3>2, <3>3, BeatsAssumption
      <3> QED
        BY <1>1, <3>1, <3>4
    <2>2. \A a \in MmioWords : m[a] = p[a]
      BY <1>4 DEF DataInv, Contents
    <2>3. \A a \in Words : ~Held(e, a) => m[a] = p[a]
      BY <1>4, <1>7 DEF DataInv, Contents
    <2> QED
      BY <1>1, <1>4, <2>1, <2>2, <2>3 DEF Contents
  <1>11. DataInv(e, p, m, r, q)
    BY <1>1, <1>8, <1>9, <1>10 DEF DataInv
  <1> QED
    BY <1>11 DEF e

\* A request at its port has not stored anything yet.
LEMMA SendKeepsData ==
    ASSUME NEW d, DeviceInv(d), NEW p, NEW m, NEW r, NEW q, DataInv(d, p, m, r, q),
           d.out = None, d.awaited = 0, d.todo # <<>>
    PROVE  DataInv(Send(d), p, m, r, q)
  <1> DEFINE e == Send(d)
             n == Len(d.todo)
  <1>1. /\ e.line = d.line /\ e.txn = d.txn /\ e.todo = Tail(d.todo) /\ e.out = Head(d.todo)
        /\ e.awaited = 0 /\ e.got = 0 /\ e.answer = d.answer /\ e.value = d.value
    BY DEF Send, DeviceInv, DeviceFields
  <1> HIDE DEF e
  <1>2. /\ n \in Nat /\ n > 0
        /\ e.out = d.todo[1] /\ Len(e.todo) = n - 1
        /\ \A i \in 1 .. n - 1 : e.todo[i] = d.todo[i + 1]
    <2>1. IsSeq(d.todo)
      BY DEF DeviceInv, SoundPlan
    <2> QED
      BY <1>1, <2>1, SeqLength
  <1>3. /\ d.answer = "owed" /\ d.txn \in Transactions /\ LineTyped(d.line)
        /\ Unsent(d) = n
        /\ n <= IF d.line.dirty /\ ~IsMmio(d.txn) THEN Beats + 1 ELSE 1
        /\ IsMmio(d.txn) \/ ~Holds(d.line, d.txn)
        /\ \A i \in 1 .. n : d.todo[i] = PlanAt(d.line, d.txn, n - i)
    <2>1. Unsent(d) = n
      BY <1>2 DEF Unsent
    <2> QED
      BY <1>2, <2>1 DEF DeviceInv, DataInv, Asking
  <1> HIDE DEF n
  <1>4. e.out = PlanAt(d.line, d.txn, n - 1)
    <2>1. 1 \in 1 .. n
      BY <1>2
    <2> QED
      BY <1>2, <1>3, <2>1
  <1>5. e.out # None
    <2>1. n - 1 \in Nat /\ (IsMmio(d.txn) \/ n - 1 = 0 \/ (d.line.dirty /\ n - 1 <= Beats))
      BY <1>2, <1>3, BeatsAssumption DEF LineTyped
    <2> QED
      BY <1>3, <1>4, <2>1, PlanIsRequests
  <1>6. Unsent(e) = n
    BY <1>2, <1>5 DEF Unsent
  <1>7. ~Done(d) /\ ~Done(e) /\ Want(e, p) = p /\ Want(d, p) = p
    BY <1>1, <1>3, <1>5 DEF Done, Want
  <1>8. ~Filling(d) /\ ~Filling(e) /\ (Missing(e) <=> Missing(d))
        /\ \A a : Held(e, a) <=> Held(d, a)
    BY <1>1 DEF Filling, Missing, Held
  <1>9. Asking(e)
    <2>1. ASSUME NEW i \in 1 .. n - 1
          PROVE  e.todo[i] = PlanAt(d.line, d.txn, n - 1 - i)
      <3>1. i + 1 \in 1 .. n /\ n - (i + 1) = n - 1 - i
        BY <1>2
      <3> QED
        BY <1>2, <1>3, <3>1
    <2> QED
      BY <1>1, <1>2, <1>3, <1>4, <1>6, <2>1 DEF Asking
  <1>10. Arriving(e, m, r, q)
    BY <1>1, <1>2, <1>6, <1>8 DEF Arriving
  <1>11. Contents(e, p, m)
    BY <1>1, <1>3, <1>6, <1>7, <1>8 DEF Contents, DataInv
  <1>12. DataInv(e, p, m, r, q)
    BY <1>1, <1>3, <1>9, <1>10, <1>11 DEF DataInv
  <1> QED
    BY <1>12 DEF e

\* The answer is taken: what was about to have been written is.
LEMMA HandKeepsData ==
    ASSUME NEW d, DeviceInv(d), NEW p, NEW m, NEW r, NEW q, DataInv(d, p, m, r, q),
           d.answer = "shown"
    PROVE  DataInv(HandedOver(d), Want(d, p), m, r, q)
  <1> DEFINE e == HandedOver(d)
             w == Want(d, p)
  <1>1. /\ e.line = d.line /\ e.txn = d.txn /\ e.todo = d.todo /\ e.out = d.out
        /\ e.awaited = d.awaited /\ e.got = d.got /\ e.answer = "taken" /\ e.value = d.value
    BY DEF HandedOver, DeviceInv, DeviceFields
  <1>2. d.todo = <<>> /\ d.out = None
    BY DEF DeviceInv
  <1> HIDE DEF e
  <1>3. w \in [Addresses -> Word]
    BY WantTyped DEF DataInv
  <1>4. Want(e, w) = w
    BY <1>1 DEF Want, Done
  <1> HIDE DEF w
  <1>5. (Filling(e) <=> Filling(d)) /\ ~Missing(d) /\ ~Missing(e) /\ Unsent(e) = 0 /\ Unsent(d) = 0
    <2>1. Len(<<>>) = 0
      OBVIOUS
    <2> QED
      BY <1>1, <1>2, <2>1 DEF Filling, Missing, Unsent
  <1>6. \A a : Held(e, a) <=> Held(d, a)
    BY <1>1, <1>5 DEF Held
  <1>7. Asking(e)
    BY <1>1, <1>2, <1>5 DEF Asking, DataInv
  <1>8. Arriving(e, m, r, q)
    BY <1>1, <1>2, <1>5 DEF Arriving, DataInv
  <1>9. Contents(e, w, m)
    BY <1>1, <1>4, <1>5, <1>6 DEF Contents, DataInv, w
  <1>10. DataInv(e, w, m, r, q)
    BY <1>1, <1>3, <1>7, <1>8, <1>9 DEF DataInv
  <1> QED
    BY <1>10 DEF e, w

\* A request that goes at the edge: what it stores and what answers it.
LEMMA RequestEffects ==
    ASSUME NEW line, NEW t, NEW j, NEW req, req = PlanAt(line, t, j)
    PROVE  /\ IsMmio(t) =>
                /\ req.bus = "mmio" /\ req.addr = t.addr /\ AnswerBeats(req) = 1
                /\ t.op = "write" => Stored(req) = [memory EXCEPT ![t.addr] =
                                                      Merge(@, t.data, t.mask)]
                /\ t.op # "write" => /\ Stored(req) = memory
                                     /\ Replies(req)[1] = memory[t.addr + 1 - 1]
           /\ ~IsMmio(t) /\ j = 0 =>
                /\ req.bus = "mem" /\ AnswerBeats(req) = Beats /\ Stored(req) = memory
                /\ DOMAIN Replies(req) = 1 .. Beats
                /\ \A i \in 1 .. Beats : Replies(req)[i] = memory[LineOf(t.addr) + i - 1]
           /\ ~IsMmio(t) /\ j # 0 =>
                /\ req.bus = "mem"
                /\ Stored(req) = [memory EXCEPT ![line.base + Beats - j] =
                                    Merge(@, line.words[Beats - j], Lanes)]
  <1>1. ASSUME IsMmio(t), t.op = "write"
        PROVE  /\ req.bus = "mmio" /\ req.cmd = "WRITE" /\ req.addr = t.addr
               /\ req.data = t.data /\ req.mask = t.mask
    BY <1>1 DEF PlanAt, Request
  <1>2. ASSUME IsMmio(t), t.op # "write"
        PROVE  req.bus = "mmio" /\ req.cmd = "READ" /\ req.addr = t.addr
    BY <1>2 DEF PlanAt, Request
  <1>3. ASSUME ~IsMmio(t), j = 0
        PROVE  req.bus = "mem" /\ req.cmd = "READ_BURST" /\ req.addr = LineOf(t.addr)
    BY <1>3 DEF PlanAt, Request
  <1>4. ASSUME ~IsMmio(t), j # 0
        PROVE  /\ req.bus = "mem" /\ req.cmd \in {"WRITE_BURST", "WRITE_LAST"}
               /\ req.addr = line.base + Beats - j
               /\ req.data = line.words[Beats - j] /\ req.mask = Lanes
    BY <1>4 DEF PlanAt, Request
  <1>5. IsMmio(t) /\ t.op = "write" =>
          /\ req.bus = "mmio" /\ req.addr = t.addr /\ AnswerBeats(req) = 1
          /\ Stored(req) = [memory EXCEPT ![t.addr] = Merge(@, t.data, t.mask)]
    BY <1>1 DEF AnswerBeats, Stored, IsWrite
  <1>6. IsMmio(t) /\ t.op # "write" =>
          /\ req.bus = "mmio" /\ req.addr = t.addr /\ AnswerBeats(req) = 1
          /\ Stored(req) = memory
          /\ Replies(req)[1] = memory[t.addr + 1 - 1]
    BY <1>2 DEF AnswerBeats, Stored, IsWrite, Replies
  <1>7. ~IsMmio(t) /\ j = 0 =>
          /\ req.bus = "mem" /\ AnswerBeats(req) = Beats /\ Stored(req) = memory
          /\ DOMAIN Replies(req) = 1 .. Beats
          /\ \A i \in 1 .. Beats : Replies(req)[i] = memory[LineOf(t.addr) + i - 1]
    <2> SUFFICES ASSUME ~IsMmio(t), j = 0
                 PROVE  /\ req.bus = "mem" /\ AnswerBeats(req) = Beats /\ Stored(req) = memory
                        /\ DOMAIN Replies(req) = 1 .. Beats
                        /\ \A i \in 1 .. Beats :
                              Replies(req)[i] = memory[LineOf(t.addr) + i - 1]
      OBVIOUS
    <2>1. AnswerBeats(req) = Beats
      BY <1>3 DEF AnswerBeats
    <2>2. Stored(req) = memory
      BY <1>3 DEF Stored, IsWrite
    <2>3. Replies(req) = [i \in 1 .. Beats |-> memory[LineOf(t.addr) + i - 1]]
      BY <1>3, <2>1 DEF Replies, IsWrite
    <2> QED
      BY <1>3, <2>1, <2>2, <2>3
  <1>8. ~IsMmio(t) /\ j # 0 =>
          /\ req.bus = "mem"
          /\ Stored(req) = [memory EXCEPT ![line.base + Beats - j] =
                              Merge(@, line.words[Beats - j], Lanes)]
    BY <1>4 DEF Stored, IsWrite
  <1> QED
    BY <1>5, <1>6, <1>7, <1>8

\* A request that goes stores one word of the line, or fetches the other line.
LEMMA FireKeepsData ==
    ASSUME NEW d, DeviceInv(d), NEW p, NEW r, NEW q, DataInv(d, p, memory, r, q),
           d.out # None,
           NEW e, e.line = d.line, e.txn = d.txn, e.todo = d.todo, e.out = None,
           e.awaited = AnswerBeats(d.out), e.got = d.got, e.answer = d.answer,
           e.value = d.value,
           NEW r2, r2 = IF d.out.bus = "mem" THEN Replies(d.out) ELSE <<>>,
           NEW q2, q2 = IF d.out.bus = "mmio" THEN Replies(d.out) ELSE <<>>
    PROVE  DataInv(e, p, Stored(d.out), r2, q2)
  <1> DEFINE n == Len(d.todo)
             t == d.txn
             m == Stored(d.out)
  <1>1. /\ d.answer = "owed" /\ d.awaited = 0 /\ d.got = 0
        /\ n \in Nat /\ (d.todo = <<>> <=> n = 0)
    BY SeqLength DEF DeviceInv, SoundPlan, DataInv, Asking
  <1>2. /\ t \in Transactions /\ LineTyped(d.line)
        /\ d.out = PlanAt(d.line, t, n)
        /\ Unsent(d) = n + 1 /\ Unsent(e) = n
        /\ n + 1 <= IF d.line.dirty /\ ~IsMmio(t) THEN Beats + 1 ELSE 1
        /\ IsMmio(t) \/ ~Holds(d.line, t)
    <2>1. Unsent(d) = n + 1 /\ Unsent(e) = n
      BY <1>1 DEF Unsent
    <2> QED
      BY <1>1, <2>1 DEF DataInv, Asking
  <1>3. /\ p \in [Addresses -> Word] /\ memory \in [Addresses -> Word]
        /\ ~Done(d) /\ Want(d, p) = p
    BY <1>1 DEF DataInv, Done, Want
  <1>4. t.addr \in Addresses /\ t.data \in Word /\ t.op \in {"read", "write"}
    BY <1>2 DEF Transactions
  <1> HIDE DEF n, m
  <1>5. Asking(e)
    <2>1. \A i \in 1 .. n : e.todo[i] = PlanAt(e.line, e.txn, n - i)
      BY DEF DataInv, Asking, n
    <2>2. Unsent(e) > 0 =>
            /\ Unsent(e) <= IF e.line.dirty /\ ~IsMmio(e.txn) THEN Beats + 1 ELSE 1
            /\ IsMmio(e.txn) \/ ~Holds(e.line, e.txn)
      BY <1>1, <1>2, BeatsAssumption
    <2>3. Missing(e) => Unsent(e) > 0 \/ e.awaited > 0
      <3>1. n = 0 /\ ~IsMmio(t) => AnswerBeats(d.out) = Beats
        BY <1>2, RequestEffects
      <3> QED
        BY <1>1, <1>2, <3>1, BeatsAssumption DEF Missing
    <2> QED
      BY <1>1, <2>1, <2>2, <2>3 DEF Asking, n
  <1>6. ~Filling(d) /\ (Missing(e) <=> Missing(d)) /\ \A a : Held(e, a) <=> Held(d, a)
    BY <1>1 DEF Filling, Missing, Held
  <1>7. CASE IsMmio(t)
    <2>1. n = 0 /\ ~Filling(e) /\ ~Missing(e) /\ t.addr \in MmioWords /\ d.todo = <<>>
      BY <1>1, <1>2, <1>7 DEF Filling, Missing, IsMmio
    <2>2. /\ d.out.bus = "mmio" /\ AnswerBeats(d.out) = 1
          /\ t.op = "write" => m = [memory EXCEPT ![t.addr] = Merge(@, t.data, t.mask)]
          /\ t.op # "write" => m = memory /\ Replies(d.out)[1] = memory[t.addr]
      <3>1. t.addr \in Nat /\ t.addr + 1 - 1 = t.addr
        BY <2>1, WordsAssumption
      <3> QED
        BY <1>2, <1>7, <3>1, RequestEffects DEF m
    <2>3. Want(e, p) = IF t.op = "write" THEN [p EXCEPT ![t.addr] = Merge(@, t.data, t.mask)]
                       ELSE p
      BY <1>1, <1>7, <2>1 DEF Want, Done
    <2>4. \A a \in Addresses : memory[a] = p[a] => m[a] = IF a = t.addr THEN Want(e, p)[a] ELSE p[a]
      BY <1>3, <1>4, <2>2, <2>3
    <2>5. \A a \in Addresses : a # t.addr => Want(e, p)[a] = p[a] /\ m[a] = memory[a]
      BY <1>3, <1>4, <2>2, <2>3
    <2>6. m \in [Addresses -> Word]
      <3>1. memory[t.addr] \in Word
        BY <1>3, <1>4
      <3>2. Merge(memory[t.addr], t.data, t.mask) \in Word
        BY <1>4, <3>1 DEF Merge, Word
      <3> QED
        BY <1>3, <1>4, <2>2, <3>2
    <2>7. Arriving(e, m, r2, q2)
      <3>1. r2 = <<>> /\ q2 = Replies(d.out)
        BY <2>2
      <3>2. t.op = "read" => q2[1] = m[t.addr]
        BY <2>2, <3>1
      <3> QED
        BY <1>1, <1>7, <2>1, <2>2, <3>1, <3>2 DEF Arriving
    <2>8. Contents(e, p, m)
      <3>1. ASSUME NEW a \in MmioWords
            PROVE  m[a] = Want(e, p)[a]
        <4>1. memory[a] = p[a] /\ a \in Addresses
          BY <1>3 DEF DataInv, Contents, Addresses
        <4> QED
          BY <2>4, <2>5, <4>1
      <3>2. ASSUME NEW a \in Words
            PROVE  Want(e, p)[a] = p[a] /\ m[a] = memory[a]
        <4>1. a # t.addr /\ a \in Addresses
          BY <2>1, WordsAssumption DEF Addresses
        <4> QED
          BY <2>5, <4>1
      <3> QED
        BY <1>1, <1>3, <1>6, <2>1, <3>1, <3>2 DEF Contents, DataInv
    <2>9. DataInv(e, p, m, r2, q2)
      BY <1>1, <1>2, <1>3, <1>5, <2>6, <2>7, <2>8 DEF DataInv
    <2> QED
      BY <2>9 DEF m
  <1>8. CASE ~IsMmio(t) /\ n = 0
    <2>1. /\ d.out.bus = "mem" /\ AnswerBeats(d.out) = Beats /\ m = memory
          /\ DOMAIN r2 = 1 .. Beats
          /\ \A i \in 1 .. Beats : r2[i] = memory[LineOf(t.addr) + i - 1]
      <3>1. /\ d.out.bus = "mem" /\ AnswerBeats(d.out) = Beats /\ m = memory
            /\ DOMAIN Replies(d.out) = 1 .. Beats
            /\ \A i \in 1 .. Beats : Replies(d.out)[i] = memory[LineOf(t.addr) + i - 1]
        BY <1>2, <1>8, RequestEffects DEF m
      <3>2. r2 = Replies(d.out)
        BY <3>1
      <3> QED
        BY <3>1, <3>2
    <2>2. Missing(e) /\ Missing(d) /\ ~Done(e) /\ Want(e, p) = p
      BY <1>1, <1>2, <1>8 DEF Missing, Done, Want
    <2>3. t.addr \in Words /\ LineOf(t.addr) \in Nat
      BY <1>4, <1>8, WordPlace DEF Addresses, IsMmio
    <2>4. Arriving(e, m, r2, q2)
      <3>1. r2 # <<>>
        <4>1. DOMAIN r2 = 1 .. Beats /\ 1 \in DOMAIN r2
          BY <2>1, BeatsAssumption
        <4> QED
          BY <4>1
      <3>2. \A j \in 1 .. Beats : r2[j] = m[LineOf(t.addr) + 0 + j - 1]
        <4> TAKE j \in 1 .. Beats
        <4>1. LineOf(t.addr) + 0 + j - 1 = LineOf(t.addr) + j - 1
          BY <2>3
        <4>2. r2[j] = memory[LineOf(t.addr) + j - 1]
          BY <2>1
        <4> QED
          BY <2>1, <4>1, <4>2
      <3> QED
        BY <1>1, <1>8, <2>1, <2>2, <3>1, <3>2, BeatsAssumption DEF Arriving
    <2>5. Contents(e, p, m)
      <3>1. ASSUME NEW a \in Words
            PROVE  (a % Beats) + Unsent(d) <= Beats
        <4>1. a % Beats \in 0 .. Beats - 1
          BY WordPlace
        <4> QED
          BY <1>2, <1>8, <4>1, BeatsAssumption
      <3> QED
        BY <1>1, <1>3, <1>6, <2>1, <2>2, <3>1 DEF Contents, DataInv
    <2>6. DataInv(e, p, m, r2, q2)
      BY <1>1, <1>2, <1>3, <1>5, <2>1, <2>4, <2>5 DEF DataInv
    <2> QED
      BY <2>6 DEF m
  <1>9. CASE ~IsMmio(t) /\ n # 0
    <2> DEFINE b == d.line.base + Beats - n
    <2>1. d.line.dirty /\ n <= Beats /\ n > 0
      BY <1>1, <1>2, <1>9, BeatsAssumption
    <2>2. /\ d.line.base \in Nat /\ Beats - n \in 0 .. Beats - 1
          /\ b \in Words /\ d.line.words[Beats - n] \in Word
      BY <1>1, <1>2, <1>9, <2>1, PlanIsRequests
    <2>3. m = [memory EXCEPT ![b] = Merge(@, d.line.words[Beats - n], Lanes)]
      BY <1>2, <1>9, RequestEffects DEF m
    <2>4. LineOf(b) = d.line.base /\ b % Beats = Beats - n
      <3>1. PICK x \in Words : d.line.base = LineOf(x)
        BY <1>2, <2>1 DEF LineTyped
      <3>2. b = LineOf(x) + (Beats - n)
        BY <2>2, <3>1, BeatsAssumption
      <3> HIDE DEF b
      <3> QED
        BY <2>2, <3>1, <3>2, LineWords
    <2> HIDE DEF b
    <2>5. Missing(e) /\ Missing(d) /\ ~Done(e) /\ Want(e, p) = p /\ ~Filling(e)
      BY <1>1, <1>2, <1>9 DEF Missing, Done, Want, Filling
    <2>6. Held(d, b) /\ d.line.words[Beats - n] = p[b]
      <3>1. Held(d, b)
        BY <1>6, <2>4 DEF Held
      <3> QED
        BY <1>3, <2>2, <2>4, <3>1 DEF DataInv, Contents
    <2>7. b \in Addresses /\ memory[b] \in Word /\ p[b] \in Word
      BY <1>3, <2>2 DEF Addresses
    <2>8. Merge(memory[b], p[b], Lanes) = p[b]
      BY <2>7 DEF Merge, Word
    <2>9. m = [memory EXCEPT ![b] = p[b]]
      BY <2>3, <2>6, <2>8
    <2>10. m \in [Addresses -> Word] /\ m[b] = p[b] /\ \A a \in Addresses : a # b => m[a] = memory[a]
      BY <1>3, <2>7, <2>9
    <2>11. Arriving(e, m, r2, q2)
      BY <1>1, <1>9, <2>5 DEF Arriving
    <2>12. Contents(e, p, m)
      <3>1. ASSUME NEW a \in MmioWords
            PROVE  m[a] = p[a]
        <4>1. memory[a] = p[a] /\ a \in Addresses /\ a # b
          BY <1>3, <2>2, WordsAssumption DEF DataInv, Contents, Addresses
        <4> QED
          BY <2>10, <4>1
      <3>2. ASSUME NEW a \in Words
            PROVE  IF Held(e, a)
                   THEN /\ e.line.words[a % Beats] = p[a]
                        /\ (a % Beats) + Unsent(e) <= Beats => m[a] = p[a]
                   ELSE m[a] = p[a]
        <4>1. IF Held(e, a)
              THEN /\ e.line.words[a % Beats] = p[a]
                   /\ (a % Beats) + Unsent(d) <= Beats => memory[a] = p[a]
              ELSE memory[a] = p[a]
          BY <1>3, <1>6, <2>5 DEF DataInv, Contents
        <4>2. CASE a = b
          BY <2>10, <4>1, <4>2
        <4>3. CASE a # b
          <5>1. m[a] = memory[a]
            BY <2>10, <4>3 DEF Addresses
          <5>2. Held(e, a) => a % Beats # Beats - n
            <6>1. Held(e, a) => LineOf(a) = d.line.base
              BY DEF Held
            <6>2. a = LineOf(a) + (a % Beats) /\ b = LineOf(b) + (b % Beats)
              BY <2>2, WordPlace
            <6> QED
              BY <2>4, <4>3, <6>1, <6>2
          <5>3. a % Beats \in 0 .. Beats - 1
            BY WordPlace
          <5>4. Held(e, a) /\ (a % Beats) + n <= Beats => (a % Beats) + (n + 1) <= Beats
            BY <1>1, <5>2, <5>3, BeatsAssumption
          <5> QED
            BY <1>2, <4>1, <5>1, <5>4
        <4> QED
          BY <4>2, <4>3
      <3> QED
        BY <1>1, <2>1, <2>5, <3>1, <3>2 DEF Contents
    <2>13. DataInv(e, p, m, r2, q2)
      BY <1>1, <1>2, <1>3, <1>5, <2>10, <2>11, <2>12 DEF DataInv
    <2> QED
      BY <2>13 DEF m
  <1> QED
    BY <1>7, <1>8, <1>9

\* A beat that arrives is the next word of the line, or the MMIO word asked for.
LEMMA BeatKeepsData ==
    ASSUME NEW d, DeviceInv(d), NEW p, NEW m, NEW r, NEW q, DataInv(d, p, m, r, q),
           d.awaited > 0, d.out = None,
           IsSeq(r), IsSeq(q), Len(r) + Len(q) = d.awaited, r = <<>> \/ q = <<>>,
           NEW beat, beat = IF r # <<>> THEN Head(r) ELSE Head(q),
           NEW r2, r2 = IF r # <<>> THEN Tail(r) ELSE <<>>,
           NEW q2
    PROVE  DataInv(BeatTaken(d, beat), p, m, r2, q2)
  <1> DEFINE e == BeatTaken(d, beat)
             t == d.txn
             fresh == [base |-> LineOf(t.addr), dirty |-> FALSE,
                       words |-> [b \in 0 .. Beats - 1 |->
                                    IF b >= d.got THEN beat ELSE d.line.words[b]]]
  <1>1. /\ e.txn = t /\ e.todo = d.todo /\ e.out = None
        /\ e.awaited = d.awaited - 1 /\ e.got = d.got + 1 /\ e.answer = d.answer
        /\ e.value = IF IsMmio(t) THEN beat ELSE d.value
        /\ e.line = IF IsMmio(t) \/ d.todo # <<>> THEN d.line ELSE fresh
    BY DEF BeatTaken, DeviceInv, DeviceFields
  <1>2. /\ t \in Transactions /\ LineTyped(d.line) /\ d.awaited \in Nat
        /\ m \in [Addresses -> Word] /\ p \in [Addresses -> Word]
    BY DEF DataInv, DeviceInv
  <1>3. Unsent(e) = Unsent(d) /\ (Done(e) <=> Done(d)) /\ Want(e, p) = Want(d, p)
    <2>1. Unsent(e) = Unsent(d) /\ (Done(e) <=> Done(d))
      BY <1>1 DEF Unsent, Done
    <2> QED
      BY <1>1, <2>1 DEF Want
  <1> HIDE DEF e, fresh
  <1>4. CASE d.todo # <<>>
    <2>1. e.line = d.line /\ ~Filling(d) /\ ~Filling(e) /\ (Missing(e) <=> Missing(d))
      BY <1>1, <1>4 DEF Filling, Missing
    <2>2. \A a : Held(e, a) <=> Held(d, a)
      BY <2>1 DEF Held
    <2>3. Unsent(e) > 0 /\ d.answer = "owed"
      <3>1. Len(d.todo) \in Nat /\ Len(d.todo) # 0
        BY <1>4, SeqLength DEF DeviceInv, SoundPlan
      <3> QED
        BY <1>1, <1>4, <3>1 DEF Unsent, DeviceInv
    <2>4. Asking(e)
      BY <1>1, <1>3, <2>1, <2>3 DEF Asking, DataInv
    <2>5. Arriving(e, m, r2, q2)
      BY <1>1, <1>4, <2>1, <2>3 DEF Arriving
    <2>6. Contents(e, p, m)
      BY <1>1, <1>3, <2>1, <2>2, <2>3 DEF Contents, DataInv
    <2>7. DataInv(e, p, m, r2, q2)
      BY <1>1, <1>2, <2>1, <2>3, <2>4, <2>5, <2>6 DEF DataInv
    <2> QED
      BY <2>7 DEF e
  <1>5. CASE d.todo = <<>> /\ IsMmio(t)
    <2>1. e.line = d.line /\ ~Filling(d) /\ ~Filling(e) /\ ~Missing(d) /\ ~Missing(e)
      BY <1>1, <1>5 DEF Filling, Missing
    <2>2. \A a : Held(e, a) <=> Held(d, a)
      BY <2>1 DEF Held
    <2>3. /\ d.answer = "owed" /\ d.awaited = 1 /\ r = <<>>
          /\ t.op = "read" => q[1] = m[t.addr]
      BY <1>5 DEF DataInv, Arriving
    <2>4. q # <<>> /\ Head(q) = q[1]
      <3>1. Len(r) = 0 /\ Len(q) \in Nat
        <4>1. Len(<<>>) = 0
          OBVIOUS
        <4> QED
          BY <2>3, <4>1, SeqLength
      <3>2. Len(q) = 1
        <4>1. Len(r) + Len(q) = 1
          BY <2>3
        <4> QED
          BY <3>1, <4>1
      <3>3. q # <<>>
        <4>1. Len(<<>>) = 0
          OBVIOUS
        <4> QED
          BY <3>2, <4>1
      <3> QED
        BY <3>3, SeqLength
    <2>5. Unsent(e) = 0 /\ e.awaited = 0 /\ e.value = beat
      <3>1. Len(<<>>) = 0
        OBVIOUS
      <3> QED
        BY <1>1, <1>5, <2>3, <3>1 DEF Unsent
    <2>6. Asking(e)
      BY <1>1, <1>3, <1>5, <2>1, <2>5 DEF Asking, DataInv
    <2>7. Arriving(e, m, r2, q2)
      BY <1>1, <1>5, <2>1, <2>3, <2>4, <2>5 DEF Arriving
    <2>8. Contents(e, p, m)
      BY <1>1, <1>3, <2>1, <2>2, <2>3 DEF Contents, DataInv
    <2>9. DataInv(e, p, m, r2, q2)
      BY <1>1, <1>2, <2>1, <2>3, <2>6, <2>7, <2>8 DEF DataInv
    <2> QED
      BY <2>9 DEF e
  <1>6. CASE d.todo = <<>> /\ ~IsMmio(t)
    <2>1. /\ Filling(d) /\ d.got \in Nat /\ d.got + d.awaited = Beats
          /\ IF d.got = 0 THEN Missing(d) ELSE Holds(d.line, t) /\ ~d.line.dirty
          /\ d.answer # "owed" => t.op = "read"
          /\ r # <<>>
          /\ \A j \in 1 .. d.awaited : r[j] = m[LineOf(t.addr) + d.got + j - 1]
      BY <1>6 DEF DataInv, Arriving, Filling
    <2>2. t.addr \in Words /\ t.addr \in Nat /\ LineOf(t.addr) \in Nat
      BY <1>2, <1>6, WordPlace DEF Transactions, Addresses, IsMmio
    <2>3. Unsent(d) = 0 /\ Unsent(e) = 0
      <3>1. Len(<<>>) = 0
        OBVIOUS
      <3> QED
        BY <1>1, <1>6, <3>1 DEF Unsent
    <2>4. ~Done(d) /\ Want(d, p) = p /\ Want(e, p) = p
      <3>1. ~Done(d)
        BY <1>6, <2>1 DEF Done
      <3> QED
        BY <1>3, <3>1 DEF Want
    <2>5. /\ e.line.base = LineOf(t.addr) /\ ~e.line.dirty
          /\ DOMAIN e.line = {"base", "dirty", "words"} /\ e.line.dirty \in BOOLEAN
          /\ e.line.words = [b \in 0 .. Beats - 1 |->
                               IF b >= d.got THEN beat ELSE d.line.words[b]]
      BY <1>1, <1>6 DEF fresh
    <2>6. Holds(e.line, t) /\ ~Missing(e)
      BY <1>1, <2>5 DEF Holds, Missing
    <2>7. \A a \in Words : m[a] = p[a]
      <3> TAKE a \in Words
      <3>1. a % Beats \in 0 .. Beats - 1
        BY WordPlace
      <3>2. (a % Beats) + Unsent(d) <= Beats
        BY <2>3, <3>1, BeatsAssumption
      <3> QED
        BY <2>1, <2>4, <3>2 DEF DataInv, Contents
    <2>8. LineOf(t.addr) + d.got \in Words /\ d.got \in 0 .. Beats - 1 /\ d.got < Beats
      <3>1. d.got \in 0 .. Beats - 1 /\ d.got < Beats
        BY <1>2, <2>1, BeatsAssumption
      <3>2. LineOf(t.addr) + d.got \in Words
        BY <2>2, <3>1, LineWords
      <3> QED
        BY <3>1, <3>2
    <2>9. beat = m[LineOf(t.addr) + d.got]
      <3>1. Head(r) = r[1]
        BY <2>1, SeqLength
      <3>2. 1 \in 1 .. d.awaited /\ LineOf(t.addr) + d.got + 1 - 1 = LineOf(t.addr) + d.got
        BY <1>2, <2>1, <2>2
      <3> QED
        BY <2>1, <3>1, <3>2
    <2>10. beat \in Word
      BY <1>2, <2>8, <2>9 DEF Addresses
    <2>11. LineTyped(e.line)
      <3>1. d.got # 0 => d.line.words \in [0 .. Beats - 1 -> Word]
        <4>1. d.got # 0 => d.line.base # None
          BY <2>1, <2>2, NoneAssumption DEF Holds
        <4> QED
          BY <1>2, <4>1 DEF LineTyped
      <3>2. e.line.words \in [0 .. Beats - 1 -> Word]
        <4>1. ASSUME NEW b \in 0 .. Beats - 1
              PROVE  (IF b >= d.got THEN beat ELSE d.line.words[b]) \in Word
          <5>1. CASE b >= d.got
            BY <2>10, <5>1
          <5>2. CASE ~(b >= d.got)
            <6>1. d.got # 0
              BY <2>1, <5>2, BeatsAssumption
            <6> QED
              BY <3>1, <5>2, <6>1
          <5> QED
            BY <5>1, <5>2
        <4> QED
          BY <2>5, <4>1
      <3> QED
        BY <2>2, <2>5, <3>2 DEF LineTyped
    <2>12. ASSUME NEW a \in Words, Held(e, a)
           PROVE  e.line.words[a % Beats] = p[a]
      <3>1. /\ a % Beats \in 0 .. Beats - 1 /\ a = LineOf(a) + (a % Beats)
            /\ LineOf(a) = LineOf(t.addr) /\ a \in Nat
        BY <2>5, <2>12, WordPlace DEF Held
      <3>2. a % Beats < d.got + 1
        <4>1. CASE Filling(e)
          BY <1>1, <2>1, <2>12, <4>1 DEF Held
        <4>2. CASE ~Filling(e)
          <5>1. d.awaited = 1
            BY <1>1, <1>2, <1>6, <4>2 DEF Filling
          <5> QED
            BY <2>1, <3>1, <5>1, BeatsAssumption
        <4> QED
          BY <4>1, <4>2
      <3>3. CASE a % Beats >= d.got
        <4>1. a % Beats = d.got
          BY <2>1, <3>1, <3>2, <3>3, BeatsAssumption
        <4>2. e.line.words[a % Beats] = beat /\ a = LineOf(t.addr) + d.got
          BY <2>5, <3>1, <3>3, <4>1
        <4> QED
          BY <2>7, <2>9, <4>2
      <3>4. CASE ~(a % Beats >= d.got)
        <4>1. a % Beats < d.got /\ d.got # 0
          BY <2>1, <3>1, <3>4, BeatsAssumption
        <4>2. Held(d, a)
          BY <2>1, <3>1, <4>1 DEF Held, Holds
        <4>3. d.line.words[a % Beats] = p[a]
          BY <2>4, <4>2 DEF DataInv, Contents
        <4> QED
          BY <2>5, <3>1, <3>4, <4>3
      <3> QED
        BY <3>3, <3>4
    <2>13. Asking(e)
      BY <1>1, <1>6, <2>3, <2>6 DEF Asking, DataInv
    <2>14. Arriving(e, m, r2, q2)
      <3>1. SUFFICES ASSUME Filling(e)
                     PROVE  /\ e.got \in Nat /\ e.got + e.awaited = Beats /\ e.got # 0
                            /\ r2 # <<>>
                            /\ \A j \in 1 .. e.awaited :
                                  r2[j] = m[LineOf(t.addr) + e.got + j - 1]
        BY <1>1, <1>6, <2>1, <2>5, <2>6 DEF Arriving
      <3>2. e.got \in Nat /\ e.got + e.awaited = Beats /\ e.got # 0
        <4>1. d.got \in Nat /\ d.awaited \in Nat /\ d.got + d.awaited = Beats
          BY <1>2, <2>1
        <4>2. e.got = d.got + 1 /\ e.awaited = d.awaited - 1
          BY <1>1
        <4> HIDE DEF t
        <4> QED
          BY <4>1, <4>2, BeatsAssumption
      <3>3. /\ Len(r) = d.awaited /\ r2 = Tail(r)
            /\ IsSeq(r2) /\ Len(r2) = d.awaited - 1
            /\ \A i \in 1 .. d.awaited - 1 : r2[i] = r[i + 1]
        <4>1. q = <<>> /\ Len(q) = 0 /\ Len(r) \in Nat
          <5>1. q = <<>>
            BY <2>1
          <5> QED
            BY <5>1, SeqLength
        <4>2. Len(r) = d.awaited
          BY <1>2, <4>1
        <4> QED
          BY <2>1, <4>2, SeqLength
      <3>4. r2 # <<>>
        <4>1. d.awaited - 1 > 0
          BY <1>1, <3>1 DEF Filling
        <4> QED
          BY <3>3, <4>1, SeqLength
      <3>5. ASSUME NEW j \in 1 .. e.awaited
            PROVE  r2[j] = m[LineOf(t.addr) + e.got + j - 1]
        <4>1. /\ j \in 1 .. d.awaited - 1 /\ j + 1 \in 1 .. d.awaited
              /\ LineOf(t.addr) + e.got + j - 1 = LineOf(t.addr) + d.got + (j + 1) - 1
          BY <1>1, <1>2, <2>1, <2>2
        <4> QED
          BY <2>1, <3>3, <4>1
      <3> QED
        BY <3>2, <3>4, <3>5
    <2>15. Contents(e, p, m)
      BY <1>1, <2>4, <2>7, <2>12, <1>6 DEF Contents, DataInv
    <2>16. DataInv(e, p, m, r2, q2)
      BY <1>1, <1>2, <2>11, <2>13, <2>14, <2>15 DEF DataInv
    <2> QED
      BY <2>16 DEF e
  <1> QED
    BY <1>4, <1>5, <1>6

\* An answer is the word the program has written last; a write is in the line then.
LEMMA AnswerKeepsData ==
    ASSUME NEW d, DeviceInv(d), NEW p, NEW m, NEW r, NEW q, DataInv(d, p, m, r, q),
           MayAnswer(d)
    PROVE  DataInv(Answered(d), p, m, r, q)
  <1> DEFINE e == Answered(d)
             t == d.txn
             k == t.addr % Beats
  <1>1. /\ d.answer = "owed" /\ d.out = None /\ d.todo = <<>>
        /\ d.awaited = 0 \/ (t.op = "read" /\ ~IsMmio(t) /\ d.got > k)
    BY DEF MayAnswer
  <1>2. /\ t \in Transactions /\ LineTyped(d.line) /\ d.awaited \in Nat
        /\ m \in [Addresses -> Word] /\ p \in [Addresses -> Word]
    BY <1>1 DEF DataInv, DeviceInv
  <1>3. t.addr \in Addresses /\ t.data \in Word /\ t.op \in {"read", "write"}
    BY <1>2 DEF Transactions
  <1>4. /\ e.txn = t /\ e.todo = <<>> /\ e.out = None /\ e.awaited = d.awaited
        /\ e.got = d.got /\ e.answer = "shown"
        /\ IsMmio(t) => e.value = d.value
        /\ ~IsMmio(t) => e.value = d.line.words[k]
        /\ IsMmio(t) \/ t.op = "read" => e.line = d.line
        /\ ~IsMmio(t) /\ t.op # "read" => e.line = Written(d.line, t)
    <2>1. DOMAIN d = DeviceFields
      BY DEF DeviceInv
    <2>2. CASE IsMmio(t)
      BY <1>1, <2>1, <2>2 DEF Answered, DeviceFields
    <2>3. CASE ~IsMmio(t)
      <3>1. e = [d EXCEPT !.answer = "shown", !.value = d.line.words[k],
                          !.line = IF t.op = "read" THEN d.line ELSE Written(d.line, t)]
        BY <2>3 DEF Answered
      <3> HIDE DEF k, e
      <3> QED
        BY <1>1, <2>1, <2>3, <3>1 DEF DeviceFields
    <2> QED
      BY <2>2, <2>3
  <1>5. Unsent(e) = 0 /\ Unsent(d) = 0
    <2>1. Len(<<>>) = 0
      OBVIOUS
    <2> QED
      BY <1>1, <1>4, <2>1 DEF Unsent
  <1>6. (Filling(e) <=> Filling(d)) /\ ~Missing(e)
    BY <1>1, <1>4 DEF Filling, Missing
  <1> HIDE DEF e, k
  <1>7. CASE IsMmio(t)
    <2>1. /\ d.awaited = 0 /\ e.line = d.line /\ e.value = d.value
          /\ ~Filling(d) /\ ~Filling(e) /\ ~Missing(d)
      BY <1>1, <1>4, <1>7 DEF Filling, Missing
    <2>2. Want(e, p) = Want(d, p) /\ \A a : Held(e, a) <=> Held(d, a)
      BY <1>1, <1>4, <1>7, <2>1 DEF Want, Done, Held
    <2>3. Asking(e)
      BY <1>2, <1>4, <1>5, <1>6, <1>7, <2>1 DEF Asking, DataInv
    <2>4. Arriving(e, m, r, q)
      BY <1>4, <2>1 DEF Arriving
    <2>5. Contents(e, p, m)
      <3>1. t.op = "read" => e.value = m[t.addr] /\ m[t.addr] = Want(d, p)[t.addr]
        BY <1>1, <1>5, <1>7, <2>1 DEF DataInv, Arriving, Contents, IsMmio
      <3> QED
        BY <1>4, <1>6, <2>1, <2>2, <3>1 DEF Contents, DataInv
    <2>6. DataInv(e, p, m, r, q)
      BY <1>2, <1>4, <2>1, <2>3, <2>4, <2>5 DEF DataInv
    <2> QED
      BY <2>6 DEF e
  <1>8. CASE ~IsMmio(t)
    <2>1. t.addr \in Words /\ k \in 0 .. Beats - 1 /\ LineOf(t.addr) # None
      BY <1>3, <1>8, WordPlace DEF Addresses, IsMmio, k
    <2>2. d.awaited > 0 => d.got > k /\ Filling(d) /\ d.got \in Nat
      BY <1>1, <1>2, <1>8 DEF Filling, DataInv, Arriving
    <2>3. Holds(d.line, t)
      <3>1. CASE d.awaited = 0
        BY <1>1, <1>5, <1>8, <3>1 DEF DataInv, Asking, Missing
      <3>2. CASE d.awaited # 0
        <4>1. d.got > k /\ Filling(d) /\ d.got # 0
          BY <1>2, <2>1, <2>2, <3>2
        <4> QED
          BY <4>1 DEF DataInv, Arriving
      <3> QED
        BY <3>1, <3>2
    <2>4. Held(d, t.addr)
      <3>1. Filling(d) => k < d.got
        BY <2>1, <2>2 DEF Filling
      <3> QED
        BY <2>3, <3>1 DEF Held, Holds, k
    <2>5. ~Done(d) /\ Want(d, p) = p /\ ~Missing(d)
      BY <1>1, <1>8, <2>3 DEF Done, Want, Missing
    <2>6. d.line.words[k] = p[t.addr] /\ d.line.words \in [0 .. Beats - 1 -> Word]
      <3>1. d.line.words[k] = p[t.addr]
        BY <2>1, <2>4, <2>5 DEF DataInv, Contents, k
      <3>2. d.line.base # None
        BY <2>1, <2>3 DEF Holds
      <3> QED
        BY <1>2, <3>1, <3>2 DEF LineTyped
    <2>7. \A a \in MmioWords : m[a] = p[a]
      BY <2>5 DEF DataInv, Contents
    <2>8. CASE t.op = "read"
      <3>1. e.line = d.line /\ e.value = p[t.addr]
        BY <1>4, <1>8, <2>6, <2>8
      <3>2. Want(e, p) = p /\ \A a : Held(e, a) <=> Held(d, a)
        BY <1>4, <1>6, <2>8, <3>1 DEF Want, Done, Held
      <3>3. Asking(e)
        BY <1>2, <1>4, <1>5, <1>6, <3>1 DEF Asking, DataInv
      <3>4. Arriving(e, m, r, q)
        <4>1. Filling(d) => d.got # 0
          BY <2>1, <2>2 DEF Filling
        <4> QED
          BY <1>4, <1>6, <1>8, <2>8, <3>1, <4>1 DEF Arriving, DataInv
      <3>5. Contents(e, p, m)
        BY <1>4, <1>6, <2>5, <3>1, <3>2 DEF Contents, DataInv
      <3>6. DataInv(e, p, m, r, q)
        BY <1>2, <1>4, <3>1, <3>3, <3>4, <3>5 DEF DataInv
      <3> QED
        BY <3>6 DEF e
    <2>9. CASE t.op # "read"
      <3> DEFINE w == Merge(p[t.addr], t.data, t.mask)
      <3>1. d.awaited = 0 /\ ~Filling(d) /\ ~Filling(e)
        BY <1>1, <1>6, <2>9 DEF Filling
      <3>2. /\ e.line.base = d.line.base /\ e.line.dirty
            /\ DOMAIN e.line = {"base", "dirty", "words"} /\ e.line.dirty \in BOOLEAN
            /\ e.line.words = [d.line.words EXCEPT ![k] = w]
        <4>1. DOMAIN d.line = {"base", "dirty", "words"}
          BY <1>2 DEF LineTyped
        <4> QED
          BY <1>4, <1>8, <2>6, <2>9, <4>1 DEF Written, k
      <3>3. w \in Word
        BY <1>2, <1>3 DEF Merge, Word
      <3> HIDE DEF w
      <3>4. e.line.words \in [0 .. Beats - 1 -> Word]
        BY <2>6, <3>2, <3>3
      <3>5. LineTyped(e.line)
        <4>1. d.line.base # None
          BY <2>1, <2>3 DEF Holds
        <4> QED
          BY <1>2, <3>2, <3>4, <4>1 DEF LineTyped
      <3>6. Want(e, p) = [p EXCEPT ![t.addr] = w] /\ \A a : Held(e, a) <=> Held(d, a)
        <4>1. Done(e)
          BY <1>3, <1>4, <1>8, <2>9 DEF Done
        <4> QED
          BY <1>4, <3>1, <3>2, <4>1 DEF Want, Held, w
      <3>7. Asking(e)
        BY <1>4, <1>5, <1>6 DEF Asking, DataInv
      <3>8. Arriving(e, m, r, q)
        BY <1>4, <3>1 DEF Arriving, DataInv
      <3>9. Contents(e, p, m)
        <4>1. ASSUME NEW a \in MmioWords
              PROVE  m[a] = Want(e, p)[a]
          <5>1. a # t.addr /\ a \in Addresses
            BY <1>8 DEF IsMmio, Addresses
          <5> QED
            BY <1>2, <2>7, <3>6, <5>1
        <4>2. ASSUME NEW a \in Words, ~Held(e, a)
              PROVE  m[a] = Want(e, p)[a]
          <5>1. a # t.addr /\ a \in Addresses /\ m[a] = p[a]
            BY <2>4, <2>5, <3>6, <4>2 DEF DataInv, Contents, Addresses
          <5> QED
            BY <1>2, <3>6, <5>1
        <4>3. ASSUME NEW a \in Words, Held(e, a)
              PROVE  e.line.words[a % Beats] = Want(e, p)[a]
          <5>1. CASE a = t.addr
            BY <1>2, <1>3, <2>1, <2>6, <3>2, <3>6, <5>1 DEF k
          <5>2. CASE a # t.addr
            <6>1. LineOf(a) = LineOf(t.addr)
              BY <2>3, <3>6, <4>3 DEF Held, Holds
            <6>2. a = LineOf(a) + (a % Beats) /\ a % Beats \in 0 .. Beats - 1
              BY WordPlace
            <6>3. t.addr = LineOf(t.addr) + k
              BY <2>1, WordPlace DEF k
            <6>4. a % Beats # k
              BY <5>2, <6>1, <6>2, <6>3
            <6>5. d.line.words[a % Beats] = p[a]
              BY <2>5, <3>6, <4>3 DEF DataInv, Contents
            <6> QED
              BY <1>2, <2>6, <3>2, <3>6, <5>2, <6>2, <6>4, <6>5 DEF Addresses
          <5> QED
            BY <5>1, <5>2
        <4> QED
          BY <1>4, <1>6, <2>9, <3>2, <4>1, <4>2, <4>3 DEF Contents
      <3>10. DataInv(e, p, m, r, q)
        BY <1>2, <1>4, <3>5, <3>7, <3>8, <3>9 DEF DataInv
      <3> QED
        BY <3>10 DEF e
    <2> QED
      BY <2>8, <2>9
  <1> QED
    BY <1>7, <1>8

\* What the device does of its own accord, while no request is on a port.
LEMMA MovesKeepData ==
    ASSUME NEW d, DeviceInv(d), d.out = None,
           NEW p, NEW m, NEW r, NEW q, DataInv(d, p, m, r, q), NEW x \in Moves(d)
    PROVE  DataInv(x, p, m, r, q)
  <1>1. CASE d.todo # <<>> /\ d.awaited = 0
    <2>1. x = Send(d)
      BY <1>1 DEF Moves
    <2> QED
      BY <1>1, <2>1, SendKeepsData
  <1>2. CASE MayAnswer(d) /\ x = Answered(d)
    BY <1>2, AnswerKeepsData
  <1>3. CASE x = d
    BY <1>3
  <1> QED
    BY <1>1, <1>2, <1>3 DEF Moves

\* A request that goes, and the one that may follow at once.
LEMMA FiredKeepData ==
    ASSUME NEW d, DeviceInv(d), d.out # None,
           NEW p, NEW r, NEW q, DataInv(d, p, memory, r, q),
           NEW r2, r2 = IF d.out.bus = "mem" THEN Replies(d.out) ELSE <<>>,
           NEW q2, q2 = IF d.out.bus = "mmio" THEN Replies(d.out) ELSE <<>>,
           NEW x \in Moves(d)
    PROVE  DataInv(x, p, Stored(d.out), r2, q2)
  <1> DEFINE gone == [d EXCEPT !.out = None, !.awaited = AnswerBeats(d.out)]
             m == Stored(d.out)
  <1>1. /\ DOMAIN gone = DeviceFields /\ gone.line = d.line /\ gone.txn = d.txn
        /\ gone.todo = d.todo /\ gone.out = None /\ gone.awaited = AnswerBeats(d.out)
        /\ gone.got = d.got /\ gone.answer = d.answer /\ gone.value = d.value
    BY DEF DeviceInv, DeviceFields
  <1>2. x \in {gone} \cup (IF gone.awaited = 0 THEN {Send(gone)} ELSE {})
    BY DEF Moves, Fired
  <1> HIDE DEF gone
  <1>3. DeviceInv(gone)
    BY <1>1, AnswerBeatsType DEF DeviceInv
  <1>4. DataInv(gone, p, m, r2, q2)
    BY <1>1, FireKeepsData
  <1> HIDE DEF m
  <1>5. CASE x = gone
    BY <1>4, <1>5 DEF m
  <1>6. CASE x # gone
    <2>1. x = Send(gone) /\ gone.awaited = 0
      BY <1>2, <1>6
    <2>2. gone.todo # <<>>
      BY <1>1, <2>1 DEF DeviceInv
    <2>3. DataInv(x, p, m, r2, q2)
      BY <1>1, <1>3, <1>4, <2>1, <2>2, SendKeepsData
    <2> QED
      BY <2>3 DEF m
  <1> QED
    BY <1>5, <1>6

\* A device that sits still, and one that no longer does, hold the same.
LEMMA StandingKeepsData ==
    ASSUME NEW d, DeviceInv(d), NEW p, NEW m, NEW r, NEW q, DataInv(d, p, m, r, q)
    PROVE  /\ DataInv(Unstalled(d), p, m, r, q)
           /\ \A x \in Stalled(d) : DataInv(x, p, m, r, q)
  <1> DEFINE u == Unstalled(d)
             s == [d EXCEPT !.stall = @ + 1, !.bus_ready = FALSE]
  <1>1. /\ u.line = d.line /\ u.txn = d.txn /\ u.todo = d.todo /\ u.out = d.out
        /\ u.awaited = d.awaited /\ u.got = d.got /\ u.answer = d.answer /\ u.value = d.value
    BY DEF Unstalled, DeviceInv, DeviceFields
  <1>2. /\ s.line = d.line /\ s.txn = d.txn /\ s.todo = d.todo /\ s.out = d.out
        /\ s.awaited = d.awaited /\ s.got = d.got /\ s.answer = d.answer /\ s.value = d.value
    BY DEF DeviceInv, DeviceFields
  <1>3. Stalled(d) \subseteq {s}
    BY DEF Stalled
  <1> HIDE DEF s, u
  <1>4. DataInv(u, p, m, r, q)
    BY <1>1, StallKeepsData
  <1>5. DataInv(s, p, m, r, q)
    BY <1>2, StallKeepsData
  <1> QED
    BY <1>3, <1>4, <1>5 DEF u

\* A beat delivered, the answer taken, a request accepted.
LEMMA GivenKeepsData ==
    ASSUME NEW d, DeviceInv(d), d.out = None,
           NEW p, NEW m, NEW r, NEW q, DataInv(d, p, m, r, q),
           IsSeq(r), IsSeq(q), Len(r) + Len(q) = d.awaited, r = <<>> \/ q = <<>>,
           NEW t, t # None => t \in Transactions,
           NEW taken \in BOOLEAN, taken => d.answer = "shown" /\ t = None,
           NEW beat, NEW r2, NEW q2,
           beat = <<>> => r2 = r /\ q2 = q,
           beat # <<>> => /\ d.awaited > 0
                          /\ Head(beat) = IF r # <<>> THEN Head(r) ELSE Head(q)
                          /\ r2 = IF r # <<>> THEN Tail(r) ELSE <<>>
    PROVE  DataInv(Given(d, t, beat, taken), IF taken THEN Want(d, p) ELSE p, m, r2, q2)
  <1> DEFINE fed == IF beat = <<>> THEN d ELSE BeatTaken(d, Head(beat))
             freed == IF taken THEN HandedOver(fed) ELSE fed
             given == Given(d, t, beat, taken)
             w == IF taken THEN Want(d, p) ELSE p
  <1>1. given = IF t # None /\ CpuReady(d) THEN Accepted(freed, t) ELSE freed
    BY DEF Given
  <1>2. fed = Given(d, None, beat, FALSE)
    BY DEF Given
  <1>3. /\ fed.txn = d.txn /\ fed.todo = d.todo /\ fed.out = d.out /\ fed.answer = d.answer
    BY DEF BeatTaken, DeviceInv, DeviceFields
  <1>4. DataInv(fed, p, m, r2, q2)
    <2>1. CASE beat = <<>>
      BY <2>1
    <2>2. CASE beat # <<>>
      <3> DEFINE b == Head(beat)
      <3>1. fed = BeatTaken(d, b)
        BY <2>2
      <3>2. /\ d.awaited > 0 /\ b = IF r # <<>> THEN Head(r) ELSE Head(q)
            /\ r2 = IF r # <<>> THEN Tail(r) ELSE <<>>
        BY <2>2
      <3> HIDE DEF b, fed
      <3> QED
        BY <3>1, <3>2, BeatKeepsData
    <2> QED
      BY <2>1, <2>2
  <1>5. fed = d \/ d.awaited > 0
    OBVIOUS
  <1> HIDE DEF fed
  <1>6. DeviceInv(fed)
    BY <1>2, GivenIsSound
  <1>7. Want(fed, p) = Want(d, p)
    <2>1. Done(fed) <=> Done(d)
      BY <1>3 DEF Done
    <2> QED
      BY <1>3, <2>1 DEF Want
  <1>8. DataInv(freed, w, m, r2, q2)
    <2>1. CASE taken
      <3>1. fed.answer = "shown"
        BY <1>3, <2>1
      <3>2. DataInv(HandedOver(fed), Want(fed, p), m, r2, q2)
        BY <1>4, <1>6, <3>1, HandKeepsData
      <3> QED
        BY <1>7, <2>1, <3>2
    <2>2. CASE ~taken
      BY <1>4, <2>2
    <2> QED
      BY <2>1, <2>2
  <1>9. CASE t # None /\ CpuReady(d)
    <2>1. ~taken /\ d.awaited = 0
      BY <1>9 DEF CpuReady
    <2>2. freed = d /\ fed = d
      BY <1>5, <2>1
    <2>3. DataInv(d, w, m, r2, q2)
      BY <1>8, <2>2
    <2>4. given = Accepted(d, t)
      BY <1>1, <1>9, <2>2
    <2> HIDE DEF w, given, freed
    <2>5. DataInv(given, w, m, r2, q2)
      BY <1>9, <2>3, <2>4, AcceptKeepsData
    <2> QED
      BY <2>5 DEF w, given
  <1>10. CASE ~(t # None /\ CpuReady(d))
    <2>1. given = freed
      BY <1>1, <1>10
    <2> HIDE DEF w, given, freed
    <2>2. DataInv(given, w, m, r2, q2)
      BY <1>8, <2>1
    <2> QED
      BY <2>2 DEF w, given
  <1> QED
    BY <1>9, <1>10

\* An edge at which no request goes.
LEMMA EdgeKeepsData ==
    ASSUME NEW d, DeviceInv(d), d.out = None,
           NEW p, NEW m, NEW r2, NEW q2,
           NEW t, NEW taken \in BOOLEAN, NEW beat,
           DeviceInv(Given(d, t, beat, taken)), Given(d, t, beat, taken).out = None,
           DataInv(Given(d, t, beat, taken), p, m, r2, q2),
           NEW e \in AfterEdge(d, t, beat, taken)
    PROVE  DataInv(e, p, m, r2, q2)
  <1> DEFINE given == Given(d, t, beat, taken)
  <1>1. PICK x \in Moves(given) \cup {given} : e \in Stalled(x) \cup {Unstalled(x)}
    BY EdgeMoves
  <1>2. DeviceInv(given) /\ given.out = None /\ DataInv(given, p, m, r2, q2)
    OBVIOUS
  <1> HIDE DEF given
  <1>3. DeviceInv(x) /\ DataInv(x, p, m, r2, q2)
    BY <1>1, <1>2, MovesAreSound, MovesKeepData
  <1> QED
    BY <1>1, <1>3, StandingKeepsData

-----------------------------------------------------------------------------
(***************************************************************************)
(* A cycle of the adapter and the device.                                  *)
(***************************************************************************)
\* Of its own accord the device neither takes a request nor has its answer taken.
LEMMA MovesKeepAccess ==
    ASSUME NEW d, DeviceInv(d), NEW x \in Moves(d)
    PROVE  x.txn = d.txn /\ (x.answer = "taken" <=> d.answer = "taken")
  <1> DEFINE gone == [d EXCEPT !.out = None, !.awaited = AnswerBeats(d.out)]
  <1>1. x \in {gone, Send(gone), Send(d), d} \/ (MayAnswer(d) /\ x = Answered(d))
    BY DEF Moves, Fired
  <1>2. DOMAIN d = DeviceFields
    BY DEF DeviceInv
  <1>3. gone.txn = d.txn /\ gone.answer = d.answer /\ DOMAIN gone = DeviceFields
    BY <1>2 DEF DeviceFields
  <1> HIDE DEF gone
  <1>4. Send(gone).txn = d.txn /\ Send(gone).answer = d.answer
    BY <1>3 DEF Send, DeviceFields
  <1>5. Send(d).txn = d.txn /\ Send(d).answer = d.answer
    BY <1>2 DEF Send, DeviceFields
  <1>6. Answered(d).txn = d.txn /\ Answered(d).answer = "shown"
    BY <1>2 DEF Answered, DeviceFields
  <1>7. CASE x \in {gone, Send(gone), Send(d), d}
    BY <1>3, <1>4, <1>5, <1>7
  <1>8. CASE MayAnswer(d) /\ x = Answered(d)
    BY <1>6, <1>8 DEF MayAnswer
  <1> QED
    BY <1>1, <1>7, <1>8

\* Standing still leaves the access alone.
LEMMA StandingKeepsAccess ==
    ASSUME NEW d, DeviceInv(d), NEW x \in Stalled(d) \cup {Unstalled(d)}
    PROVE  x.txn = d.txn /\ x.answer = d.answer
  BY DEF Stalled, Unstalled, DeviceInv, DeviceFields

\* The access the device is at, as the CPU port sees it.
LEMMA EdgeAccess ==
    ASSUME NEW d, DeviceInv(d), NEW t, NEW beat, beat # <<>> => d.awaited > 0,
           NEW taken \in BOOLEAN, taken => d.answer = "shown" /\ t = None,
           NEW e \in AfterEdge(d, t, beat, taken)
    PROVE  /\ taken => e.answer = "taken"
           /\ t # None /\ CpuReady(d) => e.answer # "taken" /\ e.txn = t
           /\ ~(t # None /\ CpuReady(d)) =>
                 /\ e.txn = d.txn
                 /\ ~taken => (e.answer = "taken" <=> d.answer = "taken")
  <1> DEFINE fed == IF beat = <<>> THEN d ELSE BeatTaken(d, Head(beat))
             freed == IF taken THEN HandedOver(fed) ELSE fed
             given == Given(d, t, beat, taken)
  <1>1. DOMAIN d = DeviceFields
    BY DEF DeviceInv
  <1>2. given = IF t # None /\ CpuReady(d) THEN Accepted(freed, t) ELSE freed
    BY DEF Given
  <1>3. fed.txn = d.txn /\ fed.answer = d.answer /\ DOMAIN fed = DeviceFields
    BY <1>1 DEF BeatTaken, DeviceFields
  <1> HIDE DEF fed
  <1>4. /\ freed.txn = d.txn /\ DOMAIN freed = DeviceFields
        /\ freed.answer = IF taken THEN "taken" ELSE d.answer
    BY <1>3 DEF HandedOver, DeviceFields
  <1> HIDE DEF freed
  <1>5. IF t # None /\ CpuReady(d) THEN given.txn = t /\ given.answer = "owed"
        ELSE given.txn = d.txn /\ given.answer = IF taken THEN "taken" ELSE d.answer
    BY <1>2, <1>4 DEF Accepted, DeviceFields
  <1>6. DeviceInv(given) /\ (given = d \/ given.out = None)
    <2>1. CASE d.out = None
      BY <2>1, GivenIsSound
    <2>2. CASE d.out # None
      <3>1. beat = <<>> /\ ~taken /\ ~CpuReady(d)
        BY <2>2 DEF DeviceInv, CpuReady
      <3>2. given = d
        BY <3>1 DEF Given
      <3> HIDE DEF given
      <3> QED
        BY <3>2
    <2> QED
      BY <2>1, <2>2
  <1>7. PICK x \in Moves(given) \cup {given} : e \in Stalled(x) \cup {Unstalled(x)}
    BY <1>6, EdgeMoves
  <1> HIDE DEF given
  <1>8. /\ DeviceInv(x) /\ x.txn = given.txn
        /\ (x.answer = "taken" <=> given.answer = "taken")
    BY <1>6, <1>7, MovesAreSound, MovesKeepAccess
  <1>9. e.txn = given.txn /\ (e.answer = "taken" <=> given.answer = "taken")
    BY <1>7, <1>8, StandingKeepsAccess
  <1>10. t # None /\ CpuReady(d) => ~taken
    OBVIOUS
  <1> QED
    BY <1>5, <1>9, <1>10

\* The beat a cycle delivers is at the head of the queue that holds any.
LEMMA BeatIsHead ==
    ASSUME responses["mem"] = <<>> \/ responses["mmio"] = <<>>
    PROVE  /\ Beat # <<>> <=> /\ BusReady(dev)
                              /\ responses["mem"] # <<>> \/ responses["mmio"] # <<>>
           /\ Beat # <<>> => Head(Beat) = IF responses["mem"] # <<>> THEN Head(responses["mem"])
                                          ELSE Head(responses["mmio"])
  <1> DEFINE r == responses["mem"]
             q == responses["mmio"]
             beat == Beat
  <1>1. beat # <<>> <=> BusReady(dev) /\ (r # <<>> \/ q # <<>>)
    BY DEF Beat, Buses
  <1>2. ASSUME beat # <<>>
        PROVE  Head(beat) = IF r # <<>> THEN Head(r) ELSE Head(q)
    <2> DEFINE bus == CHOOSE b \in Buses : responses[b] # <<>>
    <2>1. beat = <<Head(responses[bus])>> /\ \E b \in Buses : responses[b] # <<>>
      BY <1>2 DEF Beat
    <2>2. bus \in Buses /\ responses[bus] # <<>>
      BY <2>1
    <2> HIDE DEF bus, beat
    <2>3. Head(beat) = Head(responses[bus])
      BY <2>1
    <2>4. responses[bus] = IF r # <<>> THEN r ELSE q
      BY <2>2 DEF Buses
    <2> QED
      BY <2>3, <2>4
  <1> QED
    BY <1>1, <1>2

\* What a cycle gives a device that has no request on a port.
LEMMA WaitGivesData ==
    ASSUME HandshakeInv, dev.out = None,
           NEW p, DataInv(dev, p, memory, responses["mem"], responses["mmio"]),
           NEW t, t # None => t \in Transactions, NEW taken \in BOOLEAN,
           taken => dev.answer = "shown" /\ t = None,
           WaitCycle(t, taken)
    PROVE  /\ DeviceInv(Given(dev, t, Beat, taken)) /\ Given(dev, t, Beat, taken).out = None
           /\ DataInv(Given(dev, t, Beat, taken), IF taken THEN Want(dev, p) ELSE p, memory',
                      responses'["mem"], responses'["mmio"])
  <1> DEFINE r == responses["mem"]
             q == responses["mmio"]
             r1 == responses'["mem"]
             q1 == responses'["mmio"]
             beat == Beat
             w == IF taken THEN Want(dev, p) ELSE p
  <1>1. /\ DeviceInv(dev) /\ dev.awaited \in Nat
        /\ IsSeq(r) /\ IsSeq(q)
        /\ Len(r) + Len(q) = dev.awaited
        /\ r = <<>> \/ q = <<>>
    BY DEF HandshakeInv, DeviceInv, Buses
  <1>2. /\ beat # <<>> <=> BusReady(dev) /\ (r # <<>> \/ q # <<>>)
        /\ beat # <<>> => Head(beat) = IF r # <<>> THEN Head(r) ELSE Head(q)
    BY <1>1, BeatIsHead
  <1> HIDE DEF beat
  <1>3. /\ memory' = IF Noticed THEN Stored(dev.out) ELSE memory
        /\ \A b \in Buses :
              responses'[b] = IF responses[b] # <<>>
                              THEN IF BusReady(dev) THEN Tail(responses[b]) ELSE responses[b]
                              ELSE IF Noticed /\ dev.out.bus = b THEN Replies(dev.out) ELSE <<>>
    BY DEF WaitCycle, Service
  <1>4. ~Noticed /\ memory' = memory
    BY <1>3 DEF Noticed
  <1>5. /\ r1 = IF r # <<>> THEN IF BusReady(dev) THEN Tail(r) ELSE r ELSE <<>>
        /\ q1 = IF q # <<>> THEN IF BusReady(dev) THEN Tail(q) ELSE q ELSE <<>>
    BY <1>3, <1>4 DEF Buses
  <1>6. beat # <<>> => dev.awaited > 0
    BY <1>2 DEF BusReady
  <1>7. DeviceInv(Given(dev, t, beat, taken)) /\ Given(dev, t, beat, taken).out = None
    BY <1>1, <1>6, GivenIsSound
  <1>8. beat = <<>> => r1 = r /\ q1 = q
    BY <1>2, <1>5
  <1>9. beat # <<>> => /\ dev.awaited > 0
                       /\ Head(beat) = IF r # <<>> THEN Head(r) ELSE Head(q)
                       /\ r1 = IF r # <<>> THEN Tail(r) ELSE <<>>
    BY <1>2, <1>5, <1>6
  <1>10. DataInv(dev, p, memory, r, q)
    OBVIOUS
  <1> HIDE DEF r, q, r1, q1
  <1>11. DataInv(Given(dev, t, beat, taken), w, memory, r1, q1)
    BY <1>1, <1>8, <1>9, <1>10, GivenKeepsData
  <1> QED
    BY <1>4, <1>7, <1>11 DEF w, beat, r1, q1

\* A cycle of the adapter: both buses served, then one edge of the device.
LEMMA WaitKeepsData ==
    ASSUME HandshakeInv,
           NEW p, DataInv(dev, p, memory, responses["mem"], responses["mmio"]),
           NEW t, t # None => t \in Transactions, NEW taken \in BOOLEAN,
           taken => dev.answer = "shown" /\ t = None,
           WaitCycle(t, taken)
    PROVE  DataInv(dev', IF taken THEN Want(dev, p) ELSE p, memory',
                   responses'["mem"], responses'["mmio"])
  <1> DEFINE r == responses["mem"]
             q == responses["mmio"]
             r1 == responses'["mem"]
             q1 == responses'["mmio"]
             beat == Beat
             w == IF taken THEN Want(dev, p) ELSE p
  <1>1. /\ DeviceInv(dev) /\ dev.awaited \in Nat
        /\ IsSeq(r) /\ IsSeq(q)
        /\ Len(r) + Len(q) = dev.awaited
        /\ r = <<>> \/ q = <<>>
    BY DEF HandshakeInv, DeviceInv, Buses
  <1>2. /\ Len(r) \in Nat /\ (r = <<>> <=> Len(r) = 0)
        /\ Len(q) \in Nat /\ (q = <<>> <=> Len(q) = 0)
    BY <1>1, SeqLength
  <1>3. dev' \in AfterEdge(dev, t, beat, taken)
    BY DEF WaitCycle
  <1>4. beat # <<>> => r # <<>> \/ q # <<>>
    BY <1>1, BeatIsHead
  <1>5. /\ memory' = IF Noticed THEN Stored(dev.out) ELSE memory
        /\ \A b \in Buses :
              responses'[b] = IF responses[b] # <<>>
                              THEN IF BusReady(dev) THEN Tail(responses[b]) ELSE responses[b]
                              ELSE IF Noticed /\ dev.out.bus = b THEN Replies(dev.out) ELSE <<>>
    BY DEF WaitCycle, Service
  <1> HIDE DEF beat
  <1>6. CASE dev.out # None
    <2>1. dev.awaited = 0 /\ dev.out.bus \in Buses /\ dev.answer = "owed"
      BY <1>1, <1>6 DEF DeviceInv
    <2>2. r = <<>> /\ q = <<>>
      <3> HIDE DEF r, q
      <3>1. Len(r) + Len(q) = 0
        BY <1>1, <2>1
      <3>2. Len(r) = 0 /\ Len(q) = 0
        BY <1>2, <3>1
      <3> QED
        BY <1>2, <3>2
    <2>3. responses[dev.out.bus] = <<>>
      BY <2>1, <2>2 DEF Buses
    <2>4. Noticed
      BY <1>6, <2>3 DEF Noticed
    <2>5. /\ r1 = IF dev.out.bus = "mem" THEN Replies(dev.out) ELSE <<>>
          /\ q1 = IF dev.out.bus = "mmio" THEN Replies(dev.out) ELSE <<>>
      BY <1>5, <2>2, <2>4 DEF Buses
    <2>6. beat = <<>> /\ ~taken /\ ~CpuReady(dev)
      BY <1>4, <2>1, <2>2 DEF CpuReady
    <2>7. Given(dev, t, beat, taken) = dev
      BY <2>6 DEF Given
    <2>8. Stalled(dev) = {}
      BY <1>1, <1>6, StallIsSound
    <2>9. \E x \in Moves(dev) : dev' = Unstalled(x) \/ dev' \in Stalled(x)
      BY <1>3, <2>6, <2>7, <2>8 DEF AfterEdge, Given
    <2>10. PICK x \in Moves(dev) : dev' = Unstalled(x) \/ dev' \in Stalled(x)
      BY <2>9
    <2>11. DeviceInv(x)
      BY <1>1, MovesAreSound
    <2>12. DataInv(x, p, Stored(dev.out), r1, q1)
      <3> HIDE DEF r1, q1
      <3> QED
        BY <1>1, <1>6, <2>5, FiredKeepData
    <2>13. DataInv(dev', p, Stored(dev.out), r1, q1)
      <3> HIDE DEF r1, q1
      <3> QED
        BY <2>10, <2>11, <2>12, StandingKeepsData
    <2> QED
      BY <1>5, <2>4, <2>6, <2>13
  <1>7. CASE dev.out = None
    <2>1. /\ DeviceInv(Given(dev, t, beat, taken)) /\ Given(dev, t, beat, taken).out = None
          /\ DataInv(Given(dev, t, beat, taken), w, memory', r1, q1)
      BY <1>7, WaitGivesData DEF beat
    <2> HIDE DEF beat, w, r1, q1
    <2>2. DataInv(dev', w, memory', r1, q1)
      BY <1>1, <1>3, <1>7, <2>1, EdgeKeepsData
    <2> QED
      BY <2>2 DEF w, r1, q1
  <1> QED
    BY <1>6, <1>7

\* A cycle of the adapter takes the answer, or sends the request, it is asked to.
LEMMA WaitAccess ==
    ASSUME HandshakeInv, NEW t, NEW taken \in BOOLEAN,
           taken => dev.answer = "shown" /\ t = None,
           WaitCycle(t, taken)
    PROVE  /\ taken => dev'.answer = "taken"
           /\ t # None /\ CpuReady(dev) => dev'.answer # "taken" /\ dev'.txn = t
           /\ ~(t # None /\ CpuReady(dev)) =>
                 /\ dev'.txn = dev.txn
                 /\ ~taken => (dev'.answer = "taken" <=> dev.answer = "taken")
  <1> DEFINE beat == Beat
  <1>1. DeviceInv(dev) /\ dev' \in AfterEdge(dev, t, beat, taken)
    BY DEF HandshakeInv, WaitCycle
  <1>2. beat # <<>> => dev.awaited > 0
    BY DEF Beat, BusReady
  <1> HIDE DEF beat
  <1> QED
    BY <1>1, <1>2, EdgeAccess

\* A write stores a byte at least: the adapter shows an empty mask as a full one.
WritesHaveMasks == \A t \in Txns : t.op = "write" => t.mask # {}

\* What the request port shows is a transaction, and a write of the stream as it is.
LEMMA ShownIsTransaction ==
    ASSUME txn \in Txns
    PROVE  /\ Shown \in Transactions /\ Shown # None
           /\ Shown.op = txn.op /\ Shown.addr = txn.addr
           /\ WritesHaveMasks /\ txn.op = "write" => Shown = txn
  <1>1. txn \in Transactions
    BY TxnsAssumption
  <1>2. Shown \in Transactions /\ Shown.op = txn.op /\ Shown.addr = txn.addr
    BY <1>1 DEF Shown, Transactions
  <1>3. ASSUME txn.mask # {}
        PROVE  Shown = txn
    BY <1>1, <1>3 DEF Shown, Transactions
  <1> QED
    BY <1>2, <1>3, NoneAssumption DEF WritesHaveMasks

\* Out of reset the device holds nothing: memory has every word.
LEMMA ResetKeepsData ==
    ASSUME NEW m \in [Addresses -> Word]
    PROVE  DataInv(ResetDevice, m, m, <<>>, <<>>)
  <1> DEFINE d == ResetDevice
  <1>1. /\ d.line = [base |-> None, dirty |-> FALSE, words |-> <<>>]
        /\ d.todo = <<>> /\ d.out = None /\ d.awaited = 0 /\ d.answer = "taken"
    BY DEF ResetDevice
  <1> HIDE DEF d
  <1>2. Unsent(d) = 0 /\ Len(d.todo) = 0
    <2>1. Len(<<>>) = 0
      OBVIOUS
    <2> QED
      BY <1>1, <2>1 DEF Unsent
  <1>3. ~Done(d) /\ Want(d, m) = m /\ ~Missing(d) /\ ~Filling(d)
    BY <1>1 DEF Done, Want, Missing, Filling
  <1>4. \A a \in Words : ~Held(d, a)
    BY <1>1, WordPlace DEF Held
  <1>5. LineTyped(d.line)
    BY <1>1 DEF LineTyped
  <1>6. Asking(d)
    BY <1>1, <1>2, <1>3 DEF Asking
  <1>7. Arriving(d, m, <<>>, <<>>)
    BY <1>1, <1>3 DEF Arriving
  <1>8. Contents(d, m, m)
    BY <1>1, <1>3, <1>4 DEF Contents
  <1> QED
    BY <1>1, <1>5, <1>6, <1>7, <1>8 DEF DataInv, d

\* A cleared memory holds words.
LEMMA ZeroMemory == [a \in Addresses |-> ZeroWord] \in [Addresses -> Word]
  BY TxnsAssumption DEF ZeroWord, Word

\* At the start execute is idle, and so is the device.
LEMMA AccessInitInv == AdapterInit => AccessInv
  BY AdapterInitInv DEF AdapterInit, AccessInv, ResetDevice

\* The device is at the access that execute has sent, until its answer is taken.
LEMMA AccessNextInv == AccessInv /\ [AdapterNext]_adapterVars => AccessInv'
  <1> SUFFICES ASSUME AccessInv, [AdapterNext]_adapterVars
               PROVE  AccessInv'
    OBVIOUS
  <1>1. HandshakeInv /\ HandshakeInv'
    BY AdapterNextInv DEF AccessInv
  <1>2. ASSUME NEW t \in Txns, StartRequest(t)
        PROVE  AccessInv'
    BY <1>1, <1>2 DEF AccessInv, StartRequest
  <1>3. CASE AwaitReady
    <2>1. /\ pc = "DRIVE" /\ ~CpuReady(dev) /\ dev.answer = "taken"
          /\ WaitCycle(Shown, FALSE) /\ pc' = pc /\ txn' = txn
      BY <1>3 DEF AwaitReady, AccessInv, bench
    <2>2. dev'.answer = "taken"
      BY <1>1, <2>1, WaitAccess
    <2> QED
      BY <1>1, <2>1, <2>2 DEF AccessInv
  <1>4. CASE SendRequest
    <2>1. /\ pc = "DRIVE" /\ CpuReady(dev) /\ txn \in Txns
          /\ WaitCycle(Shown, FALSE) /\ pc' = "SAMPLE" /\ txn' = txn
      BY <1>4 DEF SendRequest, AccessInv
    <2>2. Shown # None /\ Shown' = Shown
      BY <2>1, ShownIsTransaction DEF Shown
    <2>3. dev'.answer # "taken" /\ dev'.txn = Shown
      BY <1>1, <2>1, <2>2, WaitAccess
    <2> QED
      BY <1>1, <2>1, <2>2, <2>3 DEF AccessInv
  <1>5. CASE AwaitResponse
    <2>1. /\ pc = "SAMPLE" /\ txn \in Txns /\ dev.answer # "taken" /\ dev.txn = Shown
          /\ WaitCycle(None, FALSE) /\ pc' = pc /\ txn' = txn
      BY <1>5 DEF AwaitResponse, AccessInv, bench
    <2>2. dev'.answer # "taken" /\ dev'.txn = Shown
      BY <1>1, <2>1, WaitAccess
    <2>3. Shown' = Shown
      BY <2>1 DEF Shown
    <2> QED
      BY <1>1, <2>1, <2>2, <2>3 DEF AccessInv
  <1>6. CASE TakeResponse
    <2>1. dev.answer = "shown" /\ WaitCycle(None, TRUE) /\ pc' = "IDLE"
      BY <1>6 DEF TakeResponse
    <2>2. dev'.answer = "taken"
      BY <1>1, <2>1, WaitAccess
    <2> QED
      BY <1>1, <2>1, <2>2 DEF AccessInv
  <1>7. ASSUME NEW clear \in BOOLEAN, Reset(clear)
        PROVE  AccessInv'
    BY <1>1, <1>7 DEF AccessInv, Reset, ResetDevice
  <1>8. CASE UNCHANGED adapterVars
    BY <1>1, <1>8 DEF AccessInv, adapterVars, bench, Shown
  <1> QED
    BY <1>2, <1>3, <1>4, <1>5, <1>6, <1>7, <1>8 DEF AdapterNext, Clock

\* The start.
LEMMA AdapterInitDataInv == AdapterInit => AdapterInv
  <1> SUFFICES ASSUME AdapterInit PROVE AdapterInv
    OBVIOUS
  <1>1. DataInv(dev, program, memory, responses["mem"], responses["mmio"])
    <2>1. /\ memory \in [Addresses -> Word] /\ program = memory /\ dev = ResetDevice
          /\ responses["mem"] = <<>> /\ responses["mmio"] = <<>>
      BY ZeroMemory DEF AdapterInit, Buses
    <2> QED
      BY <2>1, ResetKeepsData
  <1>2. ReadsSeeWrites
    BY DEF AdapterInit, ReadsSeeWrites
  <1> QED
    BY <1>1, <1>2, AccessInitInv DEF AdapterInv

\* After reset the device holds nothing, and memory is all there is.
LEMMA ResetData ==
    ASSUME NEW clear \in BOOLEAN, Reset(clear), memory \in [Addresses -> Word]
    PROVE  DataInv(dev', memory', memory', responses'["mem"], responses'["mmio"])
  <1>1. memory' \in [Addresses -> Word]
    BY ZeroMemory DEF Reset
  <1>2. /\ responses'["mem"] = <<>> /\ responses'["mmio"] = <<>> /\ dev' = ResetDevice
    BY DEF Reset, Buses
  <1> QED
    BY <1>1, <1>2, ResetKeepsData

\* The answer of a read is the word that the program wrote last.
LEMMA TakeKeepsData ==
    ASSUME AdapterInv, WritesHaveMasks, TakeResponse
    PROVE  /\ DataInv(dev, program, memory, responses["mem"], responses["mmio"])'
           /\ ReadsSeeWrites'
  <1>1. /\ HandshakeInv
        /\ DataInv(dev, program, memory, responses["mem"], responses["mmio"])
        /\ txn \in Txns /\ dev.txn = Shown /\ dev.answer = "shown"
        /\ WaitCycle(None, TRUE) /\ pc' = "IDLE" /\ txn' = txn
    BY DEF AdapterInv, AccessInv, TakeResponse
  <1>2. /\ Shown.op = txn.op /\ Shown.addr = txn.addr
        /\ txn.op = "write" => Shown = txn
    BY <1>1, ShownIsTransaction
  <1>3. dev.todo = <<>> /\ dev.out = None
    BY <1>1 DEF HandshakeInv, DeviceInv
  <1>4. Done(dev) <=> txn.op = "write"
    BY <1>1, <1>2, <1>3 DEF Done
  <1>5. program' = Want(dev, program)
    <2>1. CASE txn.op = "write"
      BY <1>1, <1>2, <1>4, <2>1 DEF TakeResponse, Want
    <2>2. CASE txn.op # "write"
      BY <1>4, <2>2 DEF TakeResponse, Want
    <2> QED
      BY <2>1, <2>2
  <1>6. DataInv(dev, program, memory, responses["mem"], responses["mmio"])'
    <2>1. DataInv(dev', Want(dev, program), memory', responses'["mem"], responses'["mmio"])
      BY <1>1, WaitKeepsData
    <2> QED
      BY <1>5, <2>1
  <1>7. reported'.data = dev.value
    BY DEF TakeResponse, Told
  <1>8. txn.op = "read" => dev.value = program'[txn.addr]
    BY <1>1, <1>2, <1>5 DEF DataInv, Contents
  <1>9. ReadsSeeWrites'
    BY <1>1, <1>7, <1>8 DEF ReadsSeeWrites
  <1> QED
    BY <1>6, <1>9

\* A cycle that takes no answer.
LEMMA CycleKeepsData ==
    ASSUME AccessInv, NEW t, t # None => t \in Transactions, WaitCycle(t, FALSE),
           NEW p, DataInv(dev, p, memory, responses["mem"], responses["mmio"])
    PROVE  DataInv(dev', p, memory', responses'["mem"], responses'["mmio"])
  BY WaitKeepsData DEF AccessInv

\* Every step keeps the correspondence of data.
LEMMA AdapterNextDataInv ==
    ASSUME WritesHaveMasks
    PROVE  AdapterInv /\ [AdapterNext]_adapterVars => AdapterInv'
  <1> SUFFICES ASSUME AdapterInv, [AdapterNext]_adapterVars
               PROVE  AdapterInv'
    OBVIOUS
  <1> DEFINE Data == DataInv(dev, program, memory, responses["mem"], responses["mmio"])
  <1>1. AccessInv /\ AccessInv' /\ Data
    BY AccessNextInv DEF AdapterInv
  <1>2. ASSUME NEW t \in Txns, StartRequest(t)
        PROVE  Data' /\ ReadsSeeWrites'
    BY <1>1, <1>2 DEF StartRequest, ReadsSeeWrites
  <1>3. ASSUME AwaitReady \/ SendRequest PROVE Data' /\ ReadsSeeWrites'
    <2>1. /\ WaitCycle(Shown, FALSE) /\ txn \in Txns /\ pc' # "IDLE" /\ program' = program
      BY <1>1, <1>3 DEF AwaitReady, SendRequest, AccessInv, bench
    <2>2. Shown \in Transactions
      BY <2>1, ShownIsTransaction
    <2>3. DataInv(dev', program, memory', responses'["mem"], responses'["mmio"])
      BY <1>1, <2>1, <2>2, CycleKeepsData
    <2> QED
      BY <2>1, <2>3 DEF ReadsSeeWrites
  <1>4. ASSUME AwaitResponse PROVE Data' /\ ReadsSeeWrites'
    <2>1. WaitCycle(None, FALSE) /\ pc' # "IDLE" /\ program' = program
      BY <1>4 DEF AwaitResponse, bench
    <2>2. DataInv(dev', program, memory', responses'["mem"], responses'["mmio"])
      BY <1>1, <2>1, CycleKeepsData
    <2> QED
      BY <2>1, <2>2 DEF ReadsSeeWrites
  <1>5. ASSUME TakeResponse PROVE Data' /\ ReadsSeeWrites'
    BY <1>5, TakeKeepsData
  <1>6. ASSUME NEW clear \in BOOLEAN, Reset(clear)
        PROVE  Data' /\ ReadsSeeWrites'
    <2>1. DataInv(dev', memory', memory', responses'["mem"], responses'["mmio"])
      BY <1>1, <1>6, ResetData DEF DataInv
    <2>2. program' = memory' /\ reported' = None
      BY <1>6 DEF Reset
    <2> QED
      BY <2>1, <2>2 DEF ReadsSeeWrites
  <1>7. ASSUME UNCHANGED adapterVars PROVE Data' /\ ReadsSeeWrites'
    BY <1>1, <1>7 DEF adapterVars, bench, AdapterInv, ReadsSeeWrites
  <1>8. Data' /\ ReadsSeeWrites'
    BY <1>2, <1>3, <1>4, <1>5, <1>6, <1>7 DEF AdapterNext, Clock
  <1> QED
    BY <1>1, <1>8 DEF AdapterInv

(***************************************************************************)
(* Of the words of memory, those that the device holds may be behind what  *)
(* the program wrote, until their beat of the burst has gone; all others   *)
(* are not, nor are the beats on their way, for every length of a burst.    *)
(***************************************************************************)
THEOREM AdapterDataInvariant ==
    ASSUME WritesHaveMasks
    PROVE  AdapterSpec => []AdapterInv
  <1>1. AdapterInv /\ [AdapterNext]_adapterVars => AdapterInv'
    BY AdapterNextDataInv
  <1> QED
    BY <1>1, AdapterInitDataInv, PTL DEF AdapterSpec

(***************************************************************************)
(* A read through the adapter returns what the program wrote last: through *)
(* the line, the burst that stores it, the burst that fetches it, the MMIO *)
(* bus and reset; for every length of a burst and every stall, on streams  *)
(* whose writes store something.                                           *)
(***************************************************************************)
THEOREM ReadsReturnWhatWasWritten ==
    ASSUME WritesHaveMasks
    PROVE  AdapterSpec => []ReadsSeeWrites
  <1>1. AdapterInv => ReadsSeeWrites
    BY DEF AdapterInv
  <1> QED
    BY <1>1, AdapterDataInvariant, PTL

-----------------------------------------------------------------------------
(***************************************************************************)
(* What the log tells of the access the device is at.                      *)
(***************************************************************************)
\* The requests of a miss: a burst of writes if it evicts, and the fill.
Total(d) == IF d.victim = None THEN 1 ELSE Beats + 1

\* The requests logged after the first s, and those still to go, are the access's.
Logged(d, log, s) ==
    /\ d.hit \in BOOLEAN
    /\ ~IsMmio(d.txn) =>
          IF d.hit THEN Len(log) = s /\ Unsent(d) = 0 /\ d.victim = None
          ELSE /\ Len(log) - s + Unsent(d) = Total(d)
               /\ \A i \in s + 1 .. Len(log) : IsWrite(log[i]) <=> i - s < Total(d)
               /\ d.victim # None => IF Len(log) = s THEN d.line.base = d.victim
                                     ELSE log[s + 1].addr = d.victim

\* Where an access that has not been reported stands in the log.
LogInv ==
    /\ IsSeq(bus_events)
    /\ DOMAIN event_start = 1 .. MaxTxns
    /\ executed \in 0 .. MaxTxns
    /\ pc # "IDLE" => executed # 0
    /\ pc # "SAMPLE" => pending_txns = <<>>
    /\ pc = "DRIVE" => event_start[executed] = Len(bus_events)
    /\ pc = "SAMPLE" =>
          /\ pending_txns = <<[id |-> executed, uncached |-> txn.uncached]>>
          /\ event_start[executed] \in 0 .. Len(bus_events)
          /\ Logged(dev, bus_events, event_start[executed])
    /\ ReportedAsHappened

\* The device is at the same access, with as much of it still to send.
SameAccess(d, e) ==
    /\ e.txn = d.txn /\ e.hit = d.hit /\ e.victim = d.victim /\ Unsent(e) = Unsent(d)
    /\ Unsent(d) > 0 => e.line.base = d.line.base

\* The requests still to send are those planned, and the one on a port.
LEMMA UnsentType ==
    ASSUME NEW d, DeviceInv(d)
    PROVE  /\ Len(d.todo) \in Nat /\ Unsent(d) \in Nat
           /\ Unsent(d) = IF d.out = None THEN Len(d.todo) ELSE Len(d.todo) + 1
  <1>1. Len(d.todo) \in Nat
    BY SeqLength DEF DeviceInv, SoundPlan
  <1>2. CASE d.out = None
    <2>1. Unsent(d) = Len(d.todo) + 0
      BY <1>2 DEF Unsent
    <2> QED
      BY <1>1, <1>2, <2>1
  <1>3. CASE d.out # None
    <2>1. Unsent(d) = Len(d.todo) + 1
      BY <1>3 DEF Unsent
    <2> QED
      BY <1>1, <1>3, <2>1
  <1> QED
    BY <1>2, <1>3

\* The log tells the same of a device that is at the same access.
LEMMA SameIsLogged ==
    ASSUME NEW d, NEW e, SameAccess(d, e), NEW log, NEW s, Logged(d, log, s),
           DeviceInv(d), Len(log) \in Nat, s \in 0 .. Len(log)
    PROVE  Logged(e, log, s)
  <1>1. Total(e) = Total(d) /\ Total(d) \in Nat /\ Total(d) > 0
    BY BeatsAssumption DEF SameAccess, Total
  <1>2. ASSUME ~IsMmio(d.txn), ~d.hit, Len(log) = s
        PROVE  e.line.base = d.line.base
    <2>1. Len(log) - s + Unsent(d) = Total(d)
      BY <1>2 DEF Logged
    <2>2. Unsent(d) > 0
      <3> DEFINE u == Unsent(d)
                 n == Total(d)
                 l == Len(log)
      <3>1. l - s + u = n /\ n > 0 /\ n \in Nat /\ l = s /\ l \in Nat
        BY <1>1, <1>2, <2>1
      <3>2. u \in Nat
        BY UnsentType
      <3> HIDE DEF u, n, l
      <3>3. u > 0
        BY <3>1, <3>2
      <3> QED
        BY <3>3 DEF u
    <2> QED
      BY <2>2 DEF SameAccess
  <1> QED
    BY <1>1, <1>2 DEF Logged, SameAccess

\* A request at the head of the plan is one, not None.
LEMMA HeadIsRequest ==
    ASSUME NEW d, DeviceInv(d), NEW p, NEW m, NEW r, NEW q, DataInv(d, p, m, r, q),
           d.todo # <<>>
    PROVE  Head(d.todo) # None
  <1> DEFINE n == Len(d.todo)
  <1>1. n \in Nat /\ n > 0 /\ Head(d.todo) = d.todo[1]
    <2>1. IsSeq(d.todo)
      BY DEF DeviceInv, SoundPlan
    <2> QED
      BY <2>1, SeqLength
  <1>2. /\ d.txn \in Transactions /\ LineTyped(d.line)
        /\ \A i \in 1 .. n : d.todo[i] = PlanAt(d.line, d.txn, n - i)
    BY DEF DeviceInv, DataInv, Asking
  <1>3. n <= IF d.line.dirty /\ ~IsMmio(d.txn) THEN Beats + 1 ELSE 1
    <2>1. Unsent(d) = IF d.out = None THEN n ELSE n + 1
      BY UnsentType
    <2>2. Unsent(d) <= IF d.line.dirty /\ ~IsMmio(d.txn) THEN Beats + 1 ELSE 1
      BY <1>1, <2>1 DEF DataInv, Asking
    <2> HIDE DEF n
    <2> QED
      BY <1>1, <2>1, <2>2, BeatsAssumption
  <1> HIDE DEF n
  <1>4. Head(d.todo) = PlanAt(d.line, d.txn, n - 1)
    <2>1. 1 \in 1 .. n
      BY <1>1
    <2> QED
      BY <1>1, <1>2, <2>1
  <1>5. n - 1 \in Nat /\ (IsMmio(d.txn) \/ n - 1 = 0 \/ (d.line.dirty /\ n - 1 <= Beats))
    BY <1>1, <1>2, <1>3, BeatsAssumption DEF LineTyped
  <1> QED
    BY <1>2, <1>4, <1>5, PlanIsRequests

\* A request that goes to its port is still to go.
LEMMA SendIsSame ==
    ASSUME NEW d, DeviceInv(d), d.out = None, d.todo # <<>>, Head(d.todo) # None
    PROVE  SameAccess(d, Send(d))
  <1> DEFINE e == Send(d)
  <1>1. /\ e.line = d.line /\ e.txn = d.txn /\ e.hit = d.hit /\ e.victim = d.victim
        /\ e.todo = Tail(d.todo) /\ e.out = Head(d.todo)
    BY DEF Send, DeviceInv, DeviceFields
  <1> HIDE DEF e
  <1>2. Len(d.todo) \in Nat /\ Len(e.todo) = Len(d.todo) - 1
    <2>1. IsSeq(d.todo)
      BY DEF DeviceInv, SoundPlan
    <2> QED
      BY <1>1, <2>1, SeqLength
  <1>3. Unsent(e) = Unsent(d)
    BY <1>1, <1>2 DEF Unsent
  <1>4. SameAccess(d, e)
    BY <1>1, <1>3 DEF SameAccess
  <1> QED
    BY <1>4 DEF e

\* While no request is on a port the device keeps to its access.
LEMMA MovesAreSame ==
    ASSUME NEW d, DeviceInv(d), d.out = None,
           NEW p, NEW m, NEW r, NEW q, DataInv(d, p, m, r, q), NEW x \in Moves(d)
    PROVE  SameAccess(d, x)
  <1>1. CASE d.todo # <<>> /\ d.awaited = 0
    <2>1. x = Send(d)
      BY <1>1 DEF Moves
    <2> QED
      BY <1>1, <2>1, HeadIsRequest, SendIsSame
  <1>2. CASE MayAnswer(d) /\ x = Answered(d)
    <2>1. /\ x.txn = d.txn /\ x.hit = d.hit /\ x.victim = d.victim
          /\ x.todo = d.todo /\ x.out = d.out
      BY <1>2 DEF Answered, DeviceInv, DeviceFields
    <2>2. Unsent(x) = Unsent(d) /\ Unsent(d) = 0
      <3>1. Len(<<>>) = 0
        OBVIOUS
      <3> QED
        BY <1>2, <2>1, <3>1 DEF Unsent, MayAnswer
    <2> QED
      BY <2>1, <2>2 DEF SameAccess
  <1>3. CASE x = d
    BY <1>3 DEF SameAccess
  <1> QED
    BY <1>1, <1>2, <1>3 DEF Moves

\* So it does while it stands still.
LEMMA StandingIsSame ==
    ASSUME NEW d, DeviceInv(d), NEW x \in Stalled(d) \cup {Unstalled(d)}
    PROVE  SameAccess(d, x)
  <1>1. /\ x.txn = d.txn /\ x.hit = d.hit /\ x.victim = d.victim
        /\ x.todo = d.todo /\ x.out = d.out /\ x.line = d.line
    BY DEF Stalled, Unstalled, DeviceInv, DeviceFields
  <1>2. Unsent(x) = Unsent(d)
    BY <1>1 DEF Unsent
  <1> QED
    BY <1>1, <1>2 DEF SameAccess

\* A beat fills the line when nothing is left to send.
LEMMA GivenIsSame ==
    ASSUME NEW d, DeviceInv(d), d.out = None,
           NEW t, NEW beat, NEW taken \in BOOLEAN, ~(t # None /\ CpuReady(d))
    PROVE  SameAccess(d, Given(d, t, beat, taken))
  <1> DEFINE fed == IF beat = <<>> THEN d ELSE BeatTaken(d, Head(beat))
             freed == IF taken THEN HandedOver(fed) ELSE fed
             given == Given(d, t, beat, taken)
  <1>1. given = freed
    BY DEF Given
  <1>2. DOMAIN d = DeviceFields
    BY DEF DeviceInv
  <1>3. /\ fed.txn = d.txn /\ fed.hit = d.hit /\ fed.victim = d.victim
        /\ fed.todo = d.todo /\ fed.out = d.out /\ DOMAIN fed = DeviceFields
        /\ d.todo # <<>> => fed.line = d.line
    BY <1>2 DEF BeatTaken, DeviceFields
  <1> HIDE DEF fed
  <1>4. /\ freed.txn = d.txn /\ freed.hit = d.hit /\ freed.victim = d.victim
        /\ freed.todo = d.todo /\ freed.out = d.out
        /\ d.todo # <<>> => freed.line = d.line
    BY <1>3 DEF HandedOver, DeviceFields
  <1> HIDE DEF freed, given
  <1>5. Unsent(given) = Unsent(d) /\ (Unsent(d) > 0 => d.todo # <<>>)
    <2>1. Len(<<>>) = 0
      OBVIOUS
    <2> QED
      BY <1>1, <1>4, <2>1 DEF Unsent
  <1>6. SameAccess(d, given)
    BY <1>1, <1>4, <1>5 DEF SameAccess
  <1> QED
    BY <1>6 DEF given

\* Steps at the same access follow one another.
LEMMA SameIsTransitive ==
    ASSUME NEW d, NEW x, NEW e, SameAccess(d, x), SameAccess(x, e)
    PROVE  SameAccess(d, e)
  BY DEF SameAccess

\* An edge at which no request goes changes no more than what is given.
LEMMA EdgeIsSame ==
    ASSUME NEW d, DeviceInv(d), d.out = None,
           NEW p, NEW m, NEW r2, NEW q2,
           NEW t, NEW taken \in BOOLEAN, NEW beat,
           DeviceInv(Given(d, t, beat, taken)), Given(d, t, beat, taken).out = None,
           DataInv(Given(d, t, beat, taken), p, m, r2, q2),
           NEW e \in AfterEdge(d, t, beat, taken)
    PROVE  SameAccess(Given(d, t, beat, taken), e)
  <1> DEFINE given == Given(d, t, beat, taken)
  <1>1. PICK x \in Moves(given) \cup {given} : e \in Stalled(x) \cup {Unstalled(x)}
    BY EdgeMoves
  <1>2. DeviceInv(given) /\ given.out = None /\ DataInv(given, p, m, r2, q2)
    OBVIOUS
  <1> HIDE DEF given
  <1>3. SameAccess(given, given)
    BY DEF SameAccess
  <1>4. DeviceInv(x) /\ SameAccess(given, x)
    BY <1>1, <1>2, <1>3, MovesAreSound, MovesAreSame
  <1>5. SameAccess(given, e)
    BY <1>1, <1>4, StandingIsSame, SameIsTransitive
  <1> QED
    BY <1>5 DEF given


\* A request logged is the last of a log that is otherwise the same.
LEMMA AppendToLog ==
    ASSUME NEW log, IsSeq(log), NEW req
    PROVE  /\ Len(log) \in Nat
           /\ IsSeq(Append(log, req)) /\ Len(Append(log, req)) = Len(log) + 1
           /\ \A i \in 1 .. Len(log) : Append(log, req)[i] = log[i]
           /\ Append(log, req)[Len(log) + 1] = req
  <1>1. PICK S : log \in Seq(S)
    BY DEF IsSeq
  <1> DEFINE T == S \cup {req}
  <1>2. log \in Seq(T) /\ req \in T
    <2>1. S \subseteq T
      OBVIOUS
    <2> QED
      BY <1>1, <2>1, SeqMonotonic
  <1> HIDE DEF T
  <1>3. /\ Append(log, req) \in Seq(T) /\ Len(Append(log, req)) = Len(log) + 1
        /\ \A i \in 1 .. Len(log) : Append(log, req)[i] = log[i]
        /\ Append(log, req)[Len(log) + 1] = req
    BY <1>2, AppendProperties
  <1>4. Len(log) \in Nat
    BY <1>1, LenProperties
  <1> QED
    BY <1>3, <1>4 DEF IsSeq

\* A request that goes from its port is logged as one of the device's access.
LEMMA FiredIsLogged ==
    ASSUME NEW d, DeviceInv(d), d.out # None,
           NEW p, NEW m, NEW r, NEW q, DataInv(d, p, m, r, q),
           NEW log, IsSeq(log), NEW s \in 0 .. Len(log), Logged(d, log, s),
           NEW x \in Moves(d)
    PROVE  Logged(x, Append(log, d.out), s)
  <1> DEFINE gone == [d EXCEPT !.out = None, !.awaited = AnswerBeats(d.out)]
             more == Append(log, d.out)
             n == Len(d.todo)
             l == Len(log)
  <1>1. /\ DOMAIN gone = DeviceFields /\ gone.line = d.line /\ gone.txn = d.txn
        /\ gone.todo = d.todo /\ gone.out = None /\ gone.awaited = AnswerBeats(d.out)
        /\ gone.hit = d.hit /\ gone.victim = d.victim /\ gone.answer = d.answer
    BY DEF DeviceInv, DeviceFields
  <1>2. x \in {gone} \cup (IF gone.awaited = 0 THEN {Send(gone)} ELSE {})
    BY DEF Moves, Fired
  <1> HIDE DEF gone
  <1>3. DeviceInv(gone)
    BY <1>1, AnswerBeatsType DEF DeviceInv
  <1>4. /\ l \in Nat /\ IsSeq(more) /\ Len(more) = l + 1
        /\ \A i \in 1 .. l : more[i] = log[i]
        /\ more[l + 1] = d.out
    BY AppendToLog
  <1>5. n \in Nat /\ Unsent(d) = n + 1 /\ Unsent(gone) = n
    BY <1>1, <1>3, UnsentType
  <1>6. Total(gone) = Total(d) /\ Total(d) \in Nat
    BY <1>1, BeatsAssumption DEF Total
  <1>7. /\ d.out = PlanAt(d.line, d.txn, n)
        /\ d.txn \in Transactions /\ LineTyped(d.line)
        /\ n + 1 <= IF d.line.dirty /\ ~IsMmio(d.txn) THEN Beats + 1 ELSE 1
    <2>1. d.answer = "owed" /\ Unsent(d) > 0
      BY <1>5 DEF DeviceInv
    <2> QED
      BY <1>5, <2>1 DEF DataInv, Asking
  <1> HIDE DEF more, n, l
  <1>8. ASSUME ~IsMmio(d.txn)
        PROVE  /\ ~gone.hit
               /\ Len(more) - s + Unsent(gone) = Total(gone)
               /\ \A i \in s + 1 .. Len(more) : IsWrite(more[i]) <=> i - s < Total(gone)
               /\ gone.victim # None => more[s + 1].addr = gone.victim
    <2>1. /\ ~d.hit /\ l - s + Unsent(d) = Total(d)
          /\ \A i \in s + 1 .. l : IsWrite(log[i]) <=> i - s < Total(d)
          /\ d.victim # None => IF l = s THEN d.line.base = d.victim
                                ELSE log[s + 1].addr = d.victim
      BY <1>5, <1>8 DEF Logged, l
    <2>2. s \in 0 .. l
      BY DEF l
    <2>3. Len(more) - s + Unsent(gone) = Total(gone)
      BY <1>4, <1>5, <1>6, <2>1, <2>2
    <2>4. IsWrite(d.out) <=> n # 0
      BY <1>7, <1>8 DEF PlanAt, Request, IsWrite
    <2>5. ASSUME NEW i \in s + 1 .. Len(more)
          PROVE  IsWrite(more[i]) <=> i - s < Total(gone)
      <3>1. CASE i = l + 1
        <4>1. l + 1 - s = Total(d) - n
          BY <1>4, <1>5, <1>6, <2>1, <2>2
        <4>2. i - s < Total(d) <=> n # 0
          BY <1>4, <1>5, <1>6, <2>2, <3>1, <4>1
        <4> QED
          BY <1>4, <1>6, <2>4, <3>1, <4>2
      <3>2. CASE i # l + 1
        <4>1. i \in s + 1 .. l /\ i \in 1 .. l
          BY <1>4, <2>2, <3>2
        <4> QED
          BY <1>4, <1>6, <2>1, <4>1
      <3> QED
        BY <3>1, <3>2
    <2>6. ASSUME d.victim # None
          PROVE  more[s + 1].addr = d.victim
      <3>1. CASE l = s
        <4>1. Total(d) = Beats + 1 /\ n = Beats
          <5>1. Total(d) = Beats + 1
            BY <2>6 DEF Total
          <5> QED
            BY <1>4, <1>5, <2>1, <2>2, <3>1, <5>1, BeatsAssumption
        <4>2. d.line.dirty /\ n \in Nat /\ n > 0 /\ n <= Beats
          BY <1>7, <4>1, BeatsAssumption
        <4>3. d.line.base \in Nat
          BY <1>7, <1>8, <4>2, PlanIsRequests
        <4>4. d.out.addr = d.line.base + Beats - n
          BY <1>7, <1>8, <4>2 DEF PlanAt, Request
        <4>5. d.out.addr = d.victim
          BY <2>1, <2>6, <3>1, <4>1, <4>3, <4>4, BeatsAssumption
        <4> QED
          BY <1>4, <3>1, <4>5
      <3>2. CASE l # s
        <4>1. s + 1 \in 1 .. l
          BY <1>4, <2>2, <3>2
        <4> QED
          BY <1>4, <2>1, <2>6, <3>2, <4>1
      <3> QED
        BY <3>1, <3>2
    <2> QED
      BY <1>1, <2>1, <2>3, <2>5, <2>6
  <1>9. s \in 0 .. Len(more) /\ Len(more) # s
    BY <1>4 DEF l
  <1>10. Logged(gone, more, s)
    BY <1>1, <1>8, <1>9 DEF Logged
  <1>11. CASE x = gone
    BY <1>10, <1>11 DEF more
  <1>12. CASE x # gone
    <2>1. x = Send(gone) /\ gone.awaited = 0
      BY <1>2, <1>12
    <2>2. gone.todo # <<>>
      BY <1>1, <2>1 DEF DeviceInv
    <2>3. Head(gone.todo) # None
      BY <1>1, <2>2, HeadIsRequest
    <2>4. SameAccess(gone, x)
      BY <1>1, <1>3, <2>1, <2>2, <2>3, SendIsSame
    <2>5. Logged(x, more, s)
      BY <1>3, <1>4, <1>9, <1>10, <2>4, SameIsLogged
    <2> QED
      BY <2>5 DEF more
  <1> QED
    BY <1>11, <1>12

\* Of an access that begins nothing is logged, and all is still to go.
LEMMA AcceptIsLogged ==
    ASSUME NEW d, DeviceInv(d), CpuReady(d), LineTyped(d.line), NEW t \in Transactions,
           NEW log, Len(log) \in Nat
    PROVE  Logged(Accepted(d, t), log, Len(log))
  <1> DEFINE e == Accepted(d, t)
             n == Len(e.todo)
             l == Len(log)
  <1>1. /\ e.line = d.line /\ e.txn = t /\ e.todo = Plan(d.line, t) /\ e.out = None
        /\ e.hit = (~IsMmio(t) /\ Holds(d.line, t))
        /\ e.victim = IF ~IsMmio(t) /\ ~Holds(d.line, t) /\ d.line.dirty
                      THEN d.line.base ELSE None
    BY DEF Accepted, CpuReady, DeviceInv, DeviceFields
  <1> HIDE DEF e
  <1>2. n = IF IsMmio(t) THEN 1 ELSE IF Holds(d.line, t) THEN 0
            ELSE IF d.line.dirty THEN Beats + 1 ELSE 1
    <2>1. Len(Plan(d.line, t)) = IF IsMmio(t) THEN 1 ELSE IF Holds(d.line, t) THEN 0
                                 ELSE IF d.line.dirty THEN Beats + 1 ELSE 1
      BY PlanShape
    <2> QED
      BY <1>1, <2>1
  <1> HIDE DEF n
  <1>3. n \in Nat /\ Unsent(e) = n
    <2>1. n \in Nat
      BY <1>2, BeatsAssumption
    <2>2. Unsent(e) = n + 0
      BY <1>1 DEF Unsent, n
    <2> QED
      BY <2>1, <2>2
  <1>4. l \in Nat
    OBVIOUS
  <1>5. \A i \in l + 1 .. l : FALSE
    BY <1>4
  <1>6. d.line.dirty => d.line.base # None
    BY DEF LineTyped
  <1>7. Total(e) = IF ~IsMmio(t) /\ ~Holds(d.line, t) /\ d.line.dirty THEN Beats + 1 ELSE 1
    BY <1>1, <1>6 DEF Total
  <1>8. ~IsMmio(t) /\ ~Holds(d.line, t) => l - l + Unsent(e) = Total(e)
    BY <1>2, <1>3, <1>4, <1>7
  <1>9. Logged(e, log, l)
    BY <1>1, <1>2, <1>3, <1>5, <1>8 DEF Logged, l
  <1> QED
    BY <1>9 DEF e

\* A cycle logs the request that is on a port; only a device that owes one has it.
LEMMA WaitLogs ==
    ASSUME HandshakeInv, IsSeq(bus_events), NEW t, NEW taken \in BOOLEAN, WaitCycle(t, taken)
    PROVE  /\ bus_events' = IF dev.out # None THEN Append(bus_events, dev.out) ELSE bus_events
           /\ IsSeq(bus_events') /\ Len(bus_events) \in Nat /\ Len(bus_events') \in Nat
           /\ Len(bus_events) <= Len(bus_events')
           /\ dev.answer # "owed" => bus_events' = bus_events
  <1>1. bus_events' = IF dev.out # None THEN Append(bus_events, dev.out) ELSE bus_events
    <2>1. \/ dev.out = None
          \/ dev.awaited = 0 /\ dev.out.bus \in Buses
      BY DEF HandshakeInv, DeviceInv
    <2>2. CASE dev.out = None
      BY <2>2 DEF WaitCycle, Service, Noticed
    <2>3. CASE dev.awaited = 0 /\ dev.out.bus \in Buses
      <3> DEFINE r == responses["mem"]
                 q == responses["mmio"]
      <3>1. IsSeq(r) /\ IsSeq(q) /\ Len(r) + Len(q) = 0
        BY <2>3 DEF HandshakeInv, Buses
      <3> HIDE DEF r, q
      <3>2. r = <<>> /\ q = <<>>
        <4>1. /\ Len(r) \in Nat /\ (r = <<>> <=> Len(r) = 0)
              /\ Len(q) \in Nat /\ (q = <<>> <=> Len(q) = 0)
          BY <3>1, SeqLength
        <4>2. Len(r) = 0 /\ Len(q) = 0
          BY <3>1, <4>1
        <4> QED
          BY <4>1, <4>2
      <3>3. responses[dev.out.bus] = <<>>
        BY <2>3, <3>2 DEF r, q, Buses
      <3> QED
        BY <3>3 DEF WaitCycle, Service, Noticed
    <2> QED
      BY <2>1, <2>2, <2>3
  <1>2. Len(bus_events) \in Nat /\ IsSeq(Append(bus_events, dev.out))
        /\ Len(Append(bus_events, dev.out)) = Len(bus_events) + 1
    BY AppendToLog
  <1>3. dev.answer # "owed" => dev.out = None
    BY DEF HandshakeInv, DeviceInv
  <1> DEFINE l == Len(bus_events)
             k == Len(bus_events')
  <1>4. l \in Nat /\ (k = l \/ k = l + 1)
    BY <1>1, <1>2
  <1>5. k \in Nat /\ l <= k
    <2> HIDE DEF k, l
    <2> QED
      BY <1>4
  <1> QED
    BY <1>1, <1>2, <1>3, <1>5

\* Whatever the device does in a cycle is logged as its access's.
LEMMA WaitKeepsLogged ==
    ASSUME HandshakeInv, IsSeq(bus_events),
           NEW p, DataInv(dev, p, memory, responses["mem"], responses["mmio"]),
           NEW t, t # None => t \in Transactions, NEW taken \in BOOLEAN,
           taken => dev.answer = "shown" /\ t = None,
           WaitCycle(t, taken), ~(t # None /\ CpuReady(dev)),
           NEW s \in 0 .. Len(bus_events), Logged(dev, bus_events, s)
    PROVE  Logged(dev', bus_events', s)
  <1> DEFINE r1 == responses'["mem"]
             q1 == responses'["mmio"]
             w == IF taken THEN Want(dev, p) ELSE p
             given == Given(dev, t, Beat, taken)
  <1>1. DeviceInv(dev) /\ Len(bus_events) \in Nat
    BY WaitLogs DEF HandshakeInv
  <1>2. dev' \in AfterEdge(dev, t, Beat, taken)
    BY DEF WaitCycle
  <1>3. CASE dev.out # None
    <2>1. bus_events' = Append(bus_events, dev.out)
      BY <1>3, WaitLogs
    <2>2. dev.awaited = 0 /\ dev.answer = "owed" /\ Stalled(dev) = {}
      BY <1>1, <1>3, StallIsSound DEF DeviceInv
    <2>3. Beat = <<>> /\ ~taken
      BY <2>2 DEF Beat, BusReady
    <2>4. \E x \in Moves(dev) : dev' = Unstalled(x) \/ dev' \in Stalled(x)
      <3> DEFINE beat == Beat
      <3>1. beat = <<>> /\ dev' \in AfterEdge(dev, t, beat, taken)
        BY <1>2, <2>3
      <3> HIDE DEF beat
      <3>2. Given(dev, t, beat, taken) = dev
        BY <2>3, <3>1 DEF Given
      <3> QED
        BY <2>2, <2>3, <3>1, <3>2 DEF AfterEdge, Given
    <2>5. PICK x \in Moves(dev) : dev' = Unstalled(x) \/ dev' \in Stalled(x)
      BY <2>4
    <2>6. DeviceInv(x)
      BY <1>1, MovesAreSound
    <2> DEFINE r == responses["mem"]
               q == responses["mmio"]
    <2>7. DataInv(dev, p, memory, r, q)
      OBVIOUS
    <2> HIDE DEF r, q
    <2>8. Logged(x, bus_events', s)
      BY <1>1, <1>3, <2>1, <2>7, FiredIsLogged
    <2>9. SameAccess(x, dev')
      BY <2>5, <2>6, StandingIsSame
    <2>10. s \in 0 .. Len(bus_events') /\ Len(bus_events') \in Nat
      BY WaitLogs
    <2> QED
      BY <2>6, <2>8, <2>9, <2>10, SameIsLogged
  <1>4. CASE dev.out = None
    <2>1. bus_events' = bus_events
      BY <1>4, WaitLogs
    <2>2. /\ DeviceInv(given) /\ given.out = None
          /\ DataInv(given, w, memory', r1, q1)
      BY <1>4, WaitGivesData
    <2>3. SameAccess(dev, given)
      BY <1>1, <1>4, GivenIsSame
    <2>4. SameAccess(given, dev')
      <3> DEFINE beat == Beat
      <3>1. /\ DeviceInv(Given(dev, t, beat, taken)) /\ Given(dev, t, beat, taken).out = None
            /\ DataInv(Given(dev, t, beat, taken), w, memory', r1, q1)
            /\ dev' \in AfterEdge(dev, t, beat, taken)
        BY <1>2, <2>2
      <3> HIDE DEF beat, w, r1, q1
      <3>2. SameAccess(Given(dev, t, beat, taken), dev')
        BY <1>1, <1>4, <3>1, EdgeIsSame
      <3> QED
        BY <3>2 DEF beat
    <2> HIDE DEF given
    <2>5. SameAccess(dev, dev')
      BY <2>3, <2>4, SameIsTransitive
    <2>6. Logged(dev', bus_events, s)
      BY <1>1, <2>5, SameIsLogged
    <2> QED
      BY <2>1, <2>6
  <1> QED
    BY <1>3, <1>4

\* The cycle that hands a request over begins its part of the log.
LEMMA WaitBeginsLogged ==
    ASSUME HandshakeInv, IsSeq(bus_events),
           NEW p, DataInv(dev, p, memory, responses["mem"], responses["mmio"]),
           NEW t \in Transactions, t # None, CpuReady(dev), WaitCycle(t, FALSE)
    PROVE  Logged(dev', bus_events', Len(bus_events'))
  <1> DEFINE r1 == responses'["mem"]
             q1 == responses'["mmio"]
             given == Given(dev, t, Beat, FALSE)
  <1>1. DeviceInv(dev) /\ dev.out = None /\ dev.awaited = 0 /\ dev.answer = "taken"
    BY DEF HandshakeInv, DeviceInv, CpuReady
  <1>2. dev' \in AfterEdge(dev, t, Beat, FALSE)
    BY DEF WaitCycle
  <1>3. bus_events' = bus_events /\ Len(bus_events') \in Nat
    BY <1>1, WaitLogs
  <1>4. given = Accepted(dev, t)
    <2>1. Beat = <<>>
      BY <1>1 DEF Beat, BusReady
    <2> QED
      BY <2>1 DEF Given
  <1>5. DeviceInv(given) /\ given.out = None /\ DataInv(given, p, memory', r1, q1)
    <2> DEFINE w == IF FALSE THEN Want(dev, p) ELSE p
    <2>1. DeviceInv(given) /\ given.out = None /\ DataInv(given, w, memory', r1, q1)
      BY <1>1, WaitGivesData
    <2>2. w = p
      OBVIOUS
    <2> HIDE DEF w, given, r1, q1
    <2> QED
      BY <2>1, <2>2
  <1>6. SameAccess(given, dev')
    <2> DEFINE beat == Beat
    <2>1. /\ DeviceInv(Given(dev, t, beat, FALSE)) /\ Given(dev, t, beat, FALSE).out = None
          /\ DataInv(Given(dev, t, beat, FALSE), p, memory', r1, q1)
          /\ dev' \in AfterEdge(dev, t, beat, FALSE)
      BY <1>2, <1>5
    <2> HIDE DEF beat, r1, q1
    <2>2. SameAccess(Given(dev, t, beat, FALSE), dev')
      BY <1>1, <2>1, EdgeIsSame
    <2> QED
      BY <2>2 DEF beat
  <1> HIDE DEF given
  <1>7. LineTyped(dev.line)
    BY DEF DataInv
  <1>8. Logged(given, bus_events', Len(bus_events'))
    BY <1>1, <1>3, <1>4, <1>7, AcceptIsLogged
  <1> QED
    BY <1>3, <1>5, <1>6, <1>8, SameIsLogged

\* What is told from the requests of an access, once all of them are logged.
LEMMA ToldAsHappened ==
    ASSUME NEW d, Unsent(d) = 0, ~IsMmio(d.txn),
           NEW log, IsSeq(log), NEW s \in 0 .. Len(log), Logged(d, log, s),
           NEW oldest, ~oldest.uncached,
           NEW told, told = Told(oldest, SubSeq(log, s + 1, Len(log)))
    PROVE  /\ told.txn_id = oldest.id
           /\ told.hit = d.hit
           /\ told.evicted_dirty = (d.victim # None)
           /\ told.writeback_addr = d.victim
  <1> DEFINE l == Len(log)
             events == SubSeq(log, s + 1, l)
             writes == {i \in DOMAIN events : IsWrite(events[i])}
             first == CHOOSE i \in writes : \A j \in writes : i <= j
  <1>1. /\ told.txn_id = oldest.id /\ told.hit = (writes = DOMAIN events)
        /\ told.evicted_dirty = (writes # {})
        /\ told.writeback_addr = IF writes = {} THEN None ELSE events[first].addr
    BY DEF Told
  <1>2. l \in Nat /\ s \in Nat /\ s <= l
    BY SeqLength
  <1>3. /\ DOMAIN events = 1 .. l - s
        /\ \A i \in 1 .. l - s : events[i] = log[s + i]
    <2>1. PICK S : log \in Seq(S)
      BY DEF IsSeq
    <2>2. \A i \in s + 1 .. l : log[i] \in S
      <3>1. \A i \in 1 .. l : log[i] \in S
        BY <2>1, ElementOfSeq
      <3> HIDE DEF l
      <3> QED
        BY <1>2, <3>1
    <2>3. /\ events \in Seq(S) /\ Len(events) = l - (s + 1) + 1
          /\ \A i \in 1 .. l - (s + 1) + 1 : events[i] = log[s + 1 + i - 1]
      <3>1. s + 1 \in Int /\ l \in Int /\ (l < s + 1 => l - (s + 1) + 1 = 0)
        BY <1>2
      <3> HIDE DEF l
      <3> QED
        BY <2>2, <3>1, SubSeqProperties
    <2> HIDE DEF events, l
    <2>4. l - (s + 1) + 1 = l - s /\ \A i \in 1 .. l - s : s + 1 + i - 1 = s + i
      BY <1>2
    <2>5. DOMAIN events = 1 .. Len(events)
      BY <2>3, LenProperties
    <2> QED
      BY <2>3, <2>4, <2>5
  <1> HIDE DEF events
  <1>4. CASE d.hit
    <2>1. l = s /\ d.victim = None /\ d.hit = TRUE
      BY <1>4 DEF Logged
    <2>2. DOMAIN events = {}
      BY <1>2, <1>3, <2>1
    <2>3. writes = {}
      BY <2>2
    <2> HIDE DEF writes
    <2> QED
      BY <1>1, <2>1, <2>2, <2>3
  <1>5. CASE ~d.hit
    <2>1. /\ l - s + 0 = Total(d)
          /\ \A i \in s + 1 .. l : IsWrite(log[i]) <=> i - s < Total(d)
          /\ d.hit = FALSE
      BY <1>5 DEF Logged
    <2>2. Total(d) \in Nat /\ Total(d) > 0 /\ l - s = Total(d)
      BY <1>2, <2>1, BeatsAssumption DEF Total
    <2>3. \A i \in 1 .. l - s : IsWrite(events[i]) <=> i < l - s
      <3> TAKE i \in 1 .. l - s
      <3>1. s + i \in s + 1 .. l /\ s + i - s = i
        BY <1>2
      <3>2. IsWrite(log[s + i]) <=> i < Total(d)
        BY <2>1, <3>1
      <3> QED
        BY <1>3, <2>2, <3>2
    <2>4. writes = 1 .. l - s - 1
      <3> HIDE DEF l
      <3> QED
        BY <1>2, <1>3, <2>2, <2>3
    <2> HIDE DEF writes
    <2>5. writes # DOMAIN events
      <3> HIDE DEF l
      <3>1. l - s \in DOMAIN events /\ l - s \notin writes
        BY <1>2, <1>3, <2>2, <2>4
      <3> QED
        BY <3>1
    <2>6. CASE d.victim = None
      <3>1. Total(d) = 1
        BY <2>6 DEF Total
      <3>2. writes = {}
        <4> HIDE DEF l
        <4> QED
          BY <1>2, <2>2, <2>4, <3>1
      <3> QED
        BY <1>1, <2>1, <2>5, <2>6, <3>2
    <2>7. CASE d.victim # None
      <3>1. Total(d) = Beats + 1 /\ l # s
        <4>1. Total(d) = Beats + 1
          BY <2>7 DEF Total
        <4> QED
          BY <1>2, <2>2, <4>1
      <3>2. log[s + 1].addr = d.victim
        BY <1>5, <2>7, <3>1 DEF Logged
      <3>3. writes = 1 .. Beats
        <4> HIDE DEF l
        <4> QED
          BY <1>2, <2>2, <2>4, <3>1, BeatsAssumption
      <3>4. 1 \in writes /\ \A j \in writes : 1 <= j /\ j \in Nat
        BY <3>3, BeatsAssumption
      <3>5. first = 1
        <4>1. first \in writes /\ \A j \in writes : first <= j
          BY <3>4
        <4> HIDE DEF first
        <4>2. first <= 1 /\ 1 <= first /\ first \in Nat
          BY <3>4, <4>1
        <4> QED
          BY <4>2
      <3>6. events[1] = log[s + 1]
        <4>1. 1 \in 1 .. l - s
          BY <2>2
        <4> QED
          BY <1>3, <4>1
      <3> HIDE DEF first
      <3>7. told.writeback_addr = d.victim
        BY <1>1, <3>2, <3>4, <3>5, <3>6
      <3> QED
        BY <1>1, <2>1, <2>5, <2>7, <3>4, <3>7
    <2> QED
      BY <2>6, <2>7
  <1> QED
    BY <1>1, <1>4, <1>5 DEF Logged

-----------------------------------------------------------------------------
(***************************************************************************)
(* The log, over the runs of the adapter.                                  *)
(***************************************************************************)
\* Whoever addresses the MMIO range says so: the adapter tells it by nothing else.
MmioIsUncached == \A t \in Txns : t.addr \in MmioWords => t.uncached

\* The words make sense for some program, whatever its writes store.
StoreInv ==
    /\ AccessInv
    /\ \E p : DataInv(dev, p, memory, responses["mem"], responses["mmio"])

ReportInv == StoreInv /\ LogInv

\* At the start nothing is logged and nothing reported.
LEMMA InitReportInv == AdapterInit => ReportInv
  <1> SUFFICES ASSUME AdapterInit PROVE ReportInv
    OBVIOUS
  <1>1. StoreInv
    BY AdapterInitDataInv DEF AdapterInv, StoreInv
  <1>2. LogInv
    BY EmptySeq, MaxTxnsAssumption DEF AdapterInit, LogInv, IsSeq, ReportedAsHappened
  <1> QED
    BY <1>1, <1>2 DEF ReportInv

\* A cycle of the adapter keeps what the words are made of.
LEMMA WaitKeepsStore ==
    ASSUME StoreInv, AccessInv', NEW t, t # None => t \in Transactions, NEW taken \in BOOLEAN,
           taken => dev.answer = "shown" /\ t = None, WaitCycle(t, taken)
    PROVE  StoreInv'
  <1>1. PICK p : DataInv(dev, p, memory, responses["mem"], responses["mmio"])
    BY DEF StoreInv
  <1> DEFINE w == IF taken THEN Want(dev, p) ELSE p
  <1>2. DataInv(dev', w, memory', responses'["mem"], responses'["mmio"])
    BY <1>1, WaitKeepsData DEF StoreInv, AccessInv
  <1> HIDE DEF w
  <1> QED
    BY <1>2 DEF StoreInv

\* Every step keeps it.
LEMMA NextStoreInv == StoreInv /\ [AdapterNext]_adapterVars => StoreInv'
  <1> SUFFICES ASSUME StoreInv, [AdapterNext]_adapterVars
               PROVE  StoreInv'
    OBVIOUS
  <1>1. AccessInv /\ AccessInv'
    BY AccessNextInv DEF StoreInv
  <1>2. ASSUME NEW t \in Txns, StartRequest(t)
        PROVE  StoreInv'
    BY <1>1, <1>2 DEF StartRequest, StoreInv
  <1>3. CASE AwaitReady \/ SendRequest
    <2>1. WaitCycle(Shown, FALSE) /\ txn \in Txns
      BY <1>1, <1>3 DEF AwaitReady, SendRequest, AccessInv
    <2>2. Shown \in Transactions
      BY <2>1, ShownIsTransaction
    <2> QED
      BY <1>1, <2>1, <2>2, WaitKeepsStore
  <1>4. CASE AwaitResponse
    <2>1. WaitCycle(None, FALSE)
      BY <1>4 DEF AwaitResponse
    <2> QED
      BY <1>1, <2>1, WaitKeepsStore
  <1>5. CASE TakeResponse
    <2>1. WaitCycle(None, TRUE) /\ dev.answer = "shown"
      BY <1>5 DEF TakeResponse
    <2> QED
      BY <1>1, <2>1, WaitKeepsStore
  <1>6. ASSUME NEW clear \in BOOLEAN, Reset(clear)
        PROVE  StoreInv'
    <2>1. memory \in [Addresses -> Word]
      BY DEF StoreInv, DataInv
    <2>2. DataInv(dev', memory', memory', responses'["mem"], responses'["mmio"])
      BY <1>6, <2>1, ResetData
    <2> QED
      BY <1>1, <2>2 DEF StoreInv
  <1>7. CASE UNCHANGED adapterVars
    BY <1>1, <1>7 DEF adapterVars, StoreInv
  <1> QED
    BY <1>2, <1>3, <1>4, <1>5, <1>6, <1>7 DEF AdapterNext, Clock

\* While the device waits for a request its log stands still; then its part begins.
LEMMA DriveKeepsLog ==
    ASSUME ReportInv, AwaitReady \/ SendRequest
    PROVE  LogInv'
  <1>1. /\ HandshakeInv /\ LogInv /\ pc = "DRIVE" /\ txn \in Txns /\ dev.answer = "taken"
        /\ WaitCycle(Shown, FALSE)
        /\ executed' = executed /\ event_start' = event_start
    BY DEF ReportInv, StoreInv, AccessInv, AwaitReady, SendRequest, bench
  <1>2. bus_events' = bus_events /\ IsSeq(bus_events') /\ Len(bus_events') \in Nat
    BY <1>1, WaitLogs DEF LogInv, HandshakeInv, DeviceInv
  <1>3. CASE AwaitReady
    BY <1>1, <1>2, <1>3 DEF LogInv, AwaitReady, bench, ReportedAsHappened
  <1>4. CASE SendRequest
    <2>1. Shown \in Transactions /\ Shown # None /\ CpuReady(dev)
      BY <1>1, <1>4, ShownIsTransaction DEF SendRequest
    <2>2. PICK p : DataInv(dev, p, memory, responses["mem"], responses["mmio"])
      BY DEF ReportInv, StoreInv
    <2>3. Logged(dev', bus_events', Len(bus_events'))
      BY <1>1, <2>1, <2>2, WaitBeginsLogged DEF LogInv
    <2>4. event_start'[executed'] = Len(bus_events')
      BY <1>1, <1>2 DEF LogInv
    <2>5. pending_txns' = <<[id |-> executed', uncached |-> txn'.uncached]>>
      BY <1>1, <1>4 DEF LogInv, SendRequest
    <2> QED
      BY <1>1, <1>2, <1>4, <2>3, <2>4, <2>5 DEF LogInv, SendRequest, ReportedAsHappened
  <1> QED
    BY <1>3, <1>4

\* A place in the log stays one.
LEMMA LogGrows ==
    ASSUME HandshakeInv, IsSeq(bus_events), NEW t, NEW taken \in BOOLEAN, WaitCycle(t, taken),
           NEW s \in 0 .. Len(bus_events)
    PROVE  IsSeq(bus_events') /\ s \in 0 .. Len(bus_events')
  <1> DEFINE l == Len(bus_events)
             k == Len(bus_events')
  <1>1. IsSeq(bus_events') /\ l \in Nat /\ k \in Nat /\ l <= k /\ s \in 0 .. l
    BY WaitLogs
  <1> HIDE DEF l, k
  <1>2. s \in 0 .. k
    BY <1>1
  <1> QED
    BY <1>1, <1>2 DEF k

\* What the device does before its answer is logged after the access began.
LEMMA AwaitKeepsLog ==
    ASSUME ReportInv, AwaitResponse
    PROVE  LogInv'
  <1> DEFINE s == event_start[executed]
  <1>1. /\ HandshakeInv /\ LogInv /\ pc = "SAMPLE" /\ WaitCycle(None, FALSE)
        /\ UNCHANGED <<executed, event_start, pending_txns, pc, txn, reported>>
    BY DEF ReportInv, StoreInv, AccessInv, AwaitResponse, bench
  <1>2. PICK p : DataInv(dev, p, memory, responses["mem"], responses["mmio"])
    BY DEF ReportInv, StoreInv
  <1>3. IsSeq(bus_events') /\ s \in 0 .. Len(bus_events')
    BY <1>1, LogGrows DEF LogInv
  <1>4. Logged(dev', bus_events', s)
    BY <1>1, <1>2, WaitKeepsLogged DEF LogInv
  <1> QED
    BY <1>1, <1>3, <1>4 DEF LogInv, ReportedAsHappened

\* The answer is told from what is logged since the access began: all it asked.
LEMMA TakeKeepsLog ==
    ASSUME ReportInv, StoreInv', MmioIsUncached, TakeResponse
    PROVE  LogInv'
  <1> DEFINE s == event_start[executed]
             oldest == Head(pending_txns)
  <1>1. /\ HandshakeInv /\ LogInv /\ pc = "SAMPLE" /\ dev.answer = "shown"
        /\ txn \in Txns /\ dev.txn = Shown /\ WaitCycle(None, TRUE)
        /\ UNCHANGED <<executed, txn>> /\ pc' = "IDLE"
    BY DEF ReportInv, StoreInv, AccessInv, TakeResponse
  <1>2. PICK p : DataInv(dev, p, memory, responses["mem"], responses["mmio"])
    BY DEF ReportInv, StoreInv
  <1>3. /\ pending_txns' = <<>>
        /\ oldest.id = executed /\ oldest.uncached = txn.uncached
    <2> DEFINE entry == [id |-> executed, uncached |-> txn.uncached]
    <2>1. entry.id = executed /\ entry.uncached = txn.uncached
      OBVIOUS
    <2>2. pending_txns = <<entry>> /\ pending_txns' = Tail(pending_txns)
      BY <1>1 DEF LogInv, TakeResponse
    <2> HIDE DEF entry
    <2>3. Head(<<entry>>) = entry /\ Tail(<<entry>>) = <<>>
      OBVIOUS
    <2> QED
      BY <2>1, <2>2, <2>3
  <1>4. IsSeq(bus_events') /\ s \in 0 .. Len(bus_events')
    BY <1>1, LogGrows DEF LogInv
  <1>5. Logged(dev', bus_events', s)
    BY <1>1, <1>2, WaitKeepsLogged DEF LogInv
  <1>6. reported' = Told(oldest, SubSeq(bus_events', s + 1, Len(bus_events')))
    BY <1>3 DEF TakeResponse, EventsOf
  <1>7. DOMAIN event_start' = 1 .. MaxTxns
    BY <1>1 DEF TakeResponse, LogInv
  <1>8. Unsent(dev') = 0
    <2>1. dev'.answer = "taken" /\ DeviceInv(dev')
      BY <1>1 DEF StoreInv, AccessInv, HandshakeInv
    <2>2. Unsent(dev') \in Nat
      BY <2>1, UnsentType
    <2>3. ~(Unsent(dev') > 0)
      BY <2>1 DEF StoreInv, DataInv, Asking
    <2> QED
      BY <2>2, <2>3
  <1>9. ~txn.uncached => ~IsMmio(dev'.txn)
    <2>1. dev'.txn = Shown
      BY <1>1, WaitAccess
    <2> QED
      BY <1>1, <2>1, ShownIsTransaction DEF IsMmio, MmioIsUncached
  <1>10. ReportedAsHappened'
    <2>1. reported'.txn_id = executed'
      BY <1>1, <1>3, <1>6 DEF Told
    <2> HIDE DEF oldest, s
    <2>2. ASSUME ~txn.uncached
          PROVE  /\ reported'.hit = dev'.hit
                 /\ reported'.evicted_dirty = (dev'.victim # None)
                 /\ reported'.writeback_addr = dev'.victim
      BY <1>3, <1>4, <1>5, <1>6, <1>8, <1>9, <2>2, ToldAsHappened
    <2> QED
      BY <1>1, <2>1, <2>2 DEF ReportedAsHappened
  <1> QED
    BY <1>1, <1>3, <1>4, <1>7, <1>10 DEF LogInv

\* Every step keeps the log in order.
LEMMA NextReportInv ==
    ASSUME MmioIsUncached
    PROVE  ReportInv /\ [AdapterNext]_adapterVars => ReportInv'
  <1> SUFFICES ASSUME ReportInv, [AdapterNext]_adapterVars
               PROVE  ReportInv'
    OBVIOUS
  <1>1. StoreInv' /\ LogInv
    BY NextStoreInv DEF ReportInv
  <1>2. ASSUME NEW t \in Txns, StartRequest(t)
        PROVE  LogInv'
    <2>1. /\ executed' = executed + 1 /\ executed' \in 1 .. MaxTxns
          /\ event_start' = [event_start EXCEPT ![executed + 1] = Len(bus_events)]
      BY <1>1, <1>2, MaxTxnsAssumption DEF StartRequest, LogInv
    <2>2. DOMAIN event_start' = 1 .. MaxTxns /\ event_start'[executed'] = Len(bus_events)
      BY <1>1, <2>1 DEF LogInv
    <2> QED
      BY <1>1, <1>2, <2>1, <2>2 DEF StartRequest, LogInv, ReportedAsHappened
  <1>3. ASSUME AwaitReady \/ SendRequest PROVE LogInv'
    BY <1>3, DriveKeepsLog
  <1>4. ASSUME AwaitResponse PROVE LogInv'
    BY <1>4, AwaitKeepsLog
  <1>5. ASSUME TakeResponse PROVE LogInv'
    BY <1>1, <1>5, TakeKeepsLog
  <1>6. ASSUME NEW clear \in BOOLEAN, Reset(clear)
        PROVE  LogInv'
    BY <1>1, <1>6, EmptySeq DEF Reset, LogInv, IsSeq, ReportedAsHappened
  <1>7. ASSUME UNCHANGED adapterVars PROVE LogInv'
    BY <1>1, <1>7 DEF adapterVars, bench, LogInv, ReportedAsHappened
  <1>8. LogInv'
    BY <1>2, <1>3, <1>4, <1>5, <1>6, <1>7 DEF AdapterNext, Clock
  <1> QED
    BY <1>1, <1>8 DEF ReportInv

(***************************************************************************)
(* What is logged since an access was driven, and what the device has      *)
(* still to send, are together the requests of that access and no other's. *)
(***************************************************************************)
THEOREM AdapterLogInvariant ==
    ASSUME MmioIsUncached
    PROVE  AdapterSpec => []ReportInv
  <1>1. ReportInv /\ [AdapterNext]_adapterVars => ReportInv'
    BY NextReportInv
  <1> QED
    BY <1>1, InitReportInv, PTL DEF AdapterSpec

(***************************************************************************)
(* The response of a cached access tells its own hit or miss and the line  *)
(* it wrote back, although sample_cpu_response has only positions in the   *)
(* log to tell it from, and a read is answered before its line is whole:   *)
(* for every length of a burst, every stream and every stall.              *)
(***************************************************************************)
THEOREM ResponsesTellTheirAccess ==
    ASSUME MmioIsUncached
    PROVE  AdapterSpec => []ReportedAsHappened
  <1>1. ReportInv => ReportedAsHappened
    BY DEF ReportInv, LogInv
  <1> QED
    BY <1>1, AdapterLogInvariant, PTL
-----------------------------------------------------------------------------
(***************************************************************************)
(* The adapter and its device implement MemoryPort.                        *)
(***************************************************************************)
\* A memory that changes in one place, to what is current there.
LEMMA OnePlaceIsPutBack ==
    ASSUME NEW a0 \in Addresses, memory \in [Addresses -> Word],
           memory' = [memory EXCEPT ![a0] = CurrentWords[a0]]
    PROVE  Port!MayPutBack
  <1>1. memory' = [a \in Addresses |-> IF a \in {a0} THEN CurrentWords[a] ELSE memory[a]]
    OBVIOUS
  <1>2. {a0} \in SUBSET Addresses
    OBVIOUS
  <1> QED
    BY <1>1, <1>2 DEF Port!MayPutBack

LEMMA NothingIsPutBack ==
    ASSUME memory \in [Addresses -> Word], memory' = memory
    PROVE  Port!MayPutBack
  <1>1. memory' = [a \in Addresses |-> IF a \in {} THEN CurrentWords[a] ELSE memory[a]]
    OBVIOUS
  <1>2. {} \in SUBSET Addresses
    OBVIOUS
  <1> QED
    BY <1>1, <1>2 DEF Port!MayPutBack

\* What a bus request stores is what the program would read there: a word of the
\* line that goes out, or the data of a write past the MMIO bus.
LEMMA RequestPutsBack ==
    ASSUME AdapterInv, WritesHaveMasks, pc = "SAMPLE", dev.out # None,
           memory' = Stored(dev.out)
    PROVE  Port!MayPutBack
  <1> DEFINE t == dev.txn
             n == Len(dev.todo)
             line == dev.line
  <1>1. /\ DeviceInv(dev)
        /\ DataInv(dev, program, memory, responses["mem"], responses["mmio"])
        /\ t = Shown /\ txn \in Txns
    BY DEF AdapterInv, AccessInv, HandshakeInv
  <1>2. /\ dev.answer = "owed" /\ dev.awaited = 0
        /\ n \in Nat /\ (dev.todo = <<>> <=> n = 0)
    BY <1>1, SeqLength DEF DeviceInv, SoundPlan
  <1>3. /\ LineTyped(line) /\ dev.out = PlanAt(line, t, n)
        /\ n + 1 <= IF line.dirty /\ ~IsMmio(t) THEN Beats + 1 ELSE 1
        /\ IsMmio(t) \/ ~Holds(line, t)
    <2>1. Unsent(dev) = n + 1
      BY DEF Unsent
    <2> QED
      BY <1>1, <1>2, <2>1 DEF DataInv, Asking
  <1>4. /\ program \in [Addresses -> Word] /\ memory \in [Addresses -> Word]
        /\ ~Done(dev) /\ Want(dev, program) = program /\ ~Filling(dev)
    BY <1>1, <1>2 DEF DataInv, Done, Want, Filling
  <1>5. /\ txn.addr = t.addr /\ t.addr \in Addresses
        /\ txn.op = t.op /\ (t.op = "write" => txn = t)
        /\ t.op \in {"read", "write"}
    BY <1>1, ShownIsTransaction DEF Transactions
  <1> HIDE DEF n, t, line
  <1>6. CASE IsMmio(t) /\ t.op = "write"
    <2>1. memory' = [memory EXCEPT ![t.addr] = Merge(@, t.data, t.mask)]
      BY <1>3, <1>6, RequestEffects
    <2>2. memory[t.addr] = program[t.addr]
      BY <1>1, <1>4, <1>6 DEF DataInv, Contents, IsMmio
    <2>3. CurrentWords[t.addr] = Merge(program[t.addr], t.data, t.mask)
      BY <1>4, <1>5, <1>6 DEF CurrentWords, AfterTxn
    <2> QED
      BY <1>4, <1>5, <2>1, <2>2, <2>3, OnePlaceIsPutBack
  <1>7. CASE IsMmio(t) /\ t.op # "write"
    BY <1>3, <1>4, <1>7, RequestEffects, NothingIsPutBack
  <1>8. CASE ~IsMmio(t) /\ n = 0
    BY <1>3, <1>4, <1>8, RequestEffects, NothingIsPutBack
  <1>9. CASE ~IsMmio(t) /\ n # 0
    <2> DEFINE a0 == line.base + Beats - n
               word == line.words[Beats - n]
    <2>1. memory' = [memory EXCEPT ![a0] = Merge(@, word, Lanes)]
      BY <1>3, <1>9, RequestEffects
    <2>2. line.dirty /\ n > 0 /\ n <= Beats /\ Beats - n \in 0 .. Beats - 1 /\ Beats \in Nat
      BY <1>2, <1>3, <1>9, BeatsAssumption
    <2>3. PICK x \in Words : line.base = LineOf(x)
      BY <1>3, <2>2 DEF LineTyped
    <2>4. /\ LineOf(x) \in Nat /\ LineOf(x) + (Beats - n) \in Words
          /\ LineOf(LineOf(x) + (Beats - n)) = LineOf(x)
          /\ (LineOf(x) + (Beats - n)) % Beats = Beats - n
      BY <2>2, LineWords
    <2>5. a0 = LineOf(x) + (Beats - n)
      BY <1>2, <2>2, <2>3, <2>4
    <2>6. /\ a0 \in Words /\ LineOf(a0) = line.base /\ a0 % Beats = Beats - n
      BY <2>3, <2>4, <2>5
    <2>7. word \in Word
      BY <1>3, <2>2, <2>3, NoneAssumption, WordPlace DEF LineTyped
    <2> HIDE DEF a0, word
    <2>8. program[a0] = word
      <3>1. Held(dev, a0)
        BY <1>4, <2>6 DEF Held, line
      <3> QED
        BY <1>1, <1>4, <2>6, <3>1 DEF DataInv, Contents, line, word
    <2>9. a0 # txn.addr
      BY <1>3, <1>5, <1>9, <2>6 DEF Holds
    <2>10. a0 \in Addresses /\ CurrentWords[a0] = word
      BY <1>4, <1>5, <2>6, <2>8, <2>9 DEF CurrentWords, AfterTxn, Addresses
    <2>11. Merge(memory[a0], word, Lanes) = word
      <3>1. memory[a0] \in Word
        BY <1>4, <2>10
      <3> QED
        BY <2>7, <3>1 DEF Merge, Word
    <2> QED
      BY <1>4, <2>1, <2>10, <2>11, OnePlaceIsPutBack
  <1> QED
    BY <1>6, <1>7, <1>8, <1>9

\* While a request is on a port the access has no answer, nor gets one.
LEMMA AskingHasNoAnswer ==
    ASSUME HandshakeInv, dev.out # None, NEW t, WaitCycle(t, FALSE)
    PROVE  dev.answer = "owed" /\ dev'.answer = "owed"
  <1>1. /\ DeviceInv(dev) /\ DOMAIN dev = DeviceFields
        /\ dev.awaited = 0 /\ dev.answer = "owed"
    BY DEF HandshakeInv, DeviceInv
  <1>2. Beat = <<>> /\ ~CpuReady(dev)
    BY <1>1 DEF Beat, BusReady, CpuReady
  <1>3. Given(dev, t, Beat, FALSE) = dev
    BY <1>2 DEF Given
  <1>4. PICK x \in Fired(dev) \cup {dev} : dev' \in Stalled(x) \cup {Unstalled(x)}
    <2> DEFINE beat == Beat
               given == Given(dev, t, beat, FALSE)
    <2>1. dev' \in AfterEdge(dev, t, beat, FALSE)
      BY DEF WaitCycle
    <2>2. given = dev
      BY <1>3
    <2> HIDE DEF beat
    <2>3. \E x \in Moves(given) \cup {given} : dev' \in Stalled(x) \cup {Unstalled(x)}
      BY <1>1, <2>1, <2>2, EdgeMoves
    <2> QED
      BY <2>2, <2>3 DEF Moves
  <1>5. DeviceInv(x) /\ x.answer = "owed"
    <2>1. x \in Moves(dev) \cup {dev}
      BY <1>4 DEF Moves
    <2>2. DeviceInv(x)
      BY <1>1, <2>1, MovesAreSound
    <2>3. x.answer = "owed"
      <3> DEFINE gone == [dev EXCEPT !.out = None, !.awaited = AnswerBeats(dev.out)]
      <3>1. gone.answer = "owed" /\ DOMAIN gone = DeviceFields
        BY <1>1 DEF DeviceFields
      <3>2. x \in {dev, gone, Send(gone)}
        BY <1>4 DEF Fired
      <3> HIDE DEF gone
      <3>3. Send(gone).answer = "owed"
        BY <3>1 DEF Send, DeviceFields
      <3> QED
        BY <1>1, <3>1, <3>2, <3>3
    <2> QED
      BY <2>2, <2>3
  <1>6. dev'.answer = x.answer
    BY <1>4, <1>5, StandingKeepsAccess
  <1> QED
    BY <1>1, <1>5, <1>6

\* Without a request on a port a cycle leaves memory alone.
LEMMA QuietCycle ==
    ASSUME dev.out = None, NEW t, NEW taken, WaitCycle(t, taken)
    PROVE  memory' = memory
  BY DEF WaitCycle, Service, Noticed

\* The answer that is shown for a read is the word that the program wrote last.
LEMMA ShownIsCurrent ==
    ASSUME NEW d, NEW p, NEW m, NEW r, NEW q, DataInv(d, p, m, r, q),
           d.answer = "shown", d.txn.op = "read"
    PROVE  d.value = p[d.txn.addr]
  BY DEF DataInv, Contents, Want, Done

\* What the cycle that gives the answer leaves on the port.
LEMMA AnswerIsCurrent ==
    ASSUME AdapterInv', pc' = "SAMPLE", dev'.answer = "shown", txn' = txn, program' = program
    PROVE  PortState' = Port!Answered(txn, ReplyTo(AfterTxn(program, txn), txn))
  <1>1. /\ dev'.txn = Shown' /\ txn \in Txns
        /\ DataInv(dev', program, memory', responses'["mem"], responses'["mmio"])
    BY DEF AdapterInv, AccessInv
  <1>2. Shown' = Shown /\ Shown.op = txn.op /\ Shown.addr = txn.addr /\ Shown \in Transactions
    BY <1>1, ShownIsTransaction DEF Shown
  <1>3. CASE txn.op = "write"
    BY <1>3 DEF PortState, ReplyTo, Port!Answered
  <1>4. CASE txn.op # "write"
    <2>1. dev'.txn.op = "read" /\ dev'.txn.addr = txn.addr
      BY <1>1, <1>2, <1>4 DEF Transactions
    <2>2. dev'.value = program[txn.addr]
      BY <1>1, <2>1, ShownIsCurrent
    <2> QED
      BY <1>4, <2>2 DEF PortState, ReplyTo, AfterTxn, Port!Answered
  <1> QED
    BY <1>3, <1>4

\* Before the port takes a request, and after, it holds nothing.
LEMMA IdlePort ==
    ASSUME pc # "SAMPLE"
    PROVE  PortState = Port!Free /\ CurrentWords = program
  BY DEF PortState, CurrentWords, Port!Free

LEMMA SendIsAsk ==
    ASSUME AdapterInv, AdapterInv', SendRequest
    PROVE  Port!Ask(txn)
  <1>1. /\ pc = "DRIVE" /\ pc' = "SAMPLE" /\ txn' = txn /\ program' = program
        /\ WaitCycle(Shown, FALSE) /\ dev.answer = "taken"
    BY DEF SendRequest, CpuReady
  <1>2. dev.out = None
    BY <1>1 DEF AdapterInv, AccessInv, HandshakeInv, DeviceInv
  <1>3. memory' = memory
    BY <1>1, <1>2, QuietCycle
  <1>4. PortState = Port!Free /\ CurrentWords = program
    BY <1>1, IdlePort
  <1>5. CurrentWords' = AfterTxn(CurrentWords, txn)
    BY <1>1, <1>4 DEF CurrentWords, AfterTxn
  <1>6. PortState' \in {Port!Asked(txn), Port!Answered(txn, ReplyTo(CurrentWords', txn))}
    <2>1. CASE dev'.answer = "shown"
      BY <1>1, <1>4, <1>5, <2>1, AnswerIsCurrent
    <2>2. CASE dev'.answer # "shown"
      BY <1>1, <2>2 DEF PortState, Port!Asked
    <2> QED
      BY <2>1, <2>2
  <1> QED
    BY <1>3, <1>4, <1>5, <1>6 DEF Port!Ask

LEMMA AwaitIsServe ==
    ASSUME AdapterInv, AdapterInv', WritesHaveMasks, AwaitResponse
    PROVE  Port!Serve(txn) \/ Port!PutBack
  <1>1. /\ pc = "SAMPLE" /\ pc' = pc /\ txn' = txn /\ program' = program
        /\ WaitCycle(None, FALSE) /\ dev.answer # "shown"
        /\ HandshakeInv /\ memory \in [Addresses -> Word]
    BY DEF AwaitResponse, bench, AdapterInv, AccessInv, DataInv
  <1>2. CurrentWords' = CurrentWords
    BY <1>1 DEF CurrentWords, AfterTxn
  <1>3. CASE dev.out # None
    <2>1. PortState' = PortState
      BY <1>1, <1>3, AskingHasNoAnswer DEF PortState
    <2>2. memory' = Stored(dev.out) \/ memory' = memory
      BY <1>1 DEF WaitCycle, Service
    <2>3. Port!MayPutBack
      BY <1>1, <1>3, <2>2, RequestPutsBack, NothingIsPutBack
    <2> QED
      BY <1>2, <2>1, <2>3 DEF Port!PutBack
  <1>4. CASE dev.out = None
    <2>1. memory' = memory
      BY <1>1, <1>4, QuietCycle
    <2>2. CASE dev'.answer = "shown"
      <3>1. PortState = Port!Asked(txn)
        BY <1>1 DEF PortState, Port!Asked
      <3>2. CurrentWords = AfterTxn(program, txn)
        BY <1>1 DEF CurrentWords
      <3>3. PortState' = Port!Answered(txn, ReplyTo(CurrentWords, txn))
        BY <1>1, <2>2, <3>2, AnswerIsCurrent
      <3> QED
        BY <1>2, <2>1, <3>1, <3>3 DEF Port!Serve
    <2>3. CASE dev'.answer # "shown"
      <3>1. PortState' = PortState
        BY <1>1, <2>3 DEF PortState
      <3> QED
        BY <1>1, <1>2, <2>1, <3>1, NothingIsPutBack DEF Port!PutBack
    <2> QED
      BY <2>2, <2>3
  <1> QED
    BY <1>3, <1>4

LEMMA TakeIsTake ==
    ASSUME AdapterInv, TakeResponse
    PROVE  Port!Take
  <1>1. /\ pc = "SAMPLE" /\ dev.answer = "shown" /\ pc' = "IDLE" /\ WaitCycle(None, TRUE)
        /\ program' = CurrentWords
    BY DEF TakeResponse, CurrentWords, AfterTxn
  <1>2. dev.out = None
    BY <1>1 DEF AdapterInv, AccessInv, HandshakeInv, DeviceInv
  <1>3. memory' = memory
    BY <1>1, <1>2, QuietCycle
  <1>4. PortState.phase = "answered"
    BY <1>1 DEF PortState
  <1>5. PortState' = Port!Free /\ CurrentWords' = CurrentWords
    BY <1>1 DEF PortState, CurrentWords, Port!Free
  <1> QED
    BY <1>3, <1>4, <1>5 DEF Port!Take

LEMMA ResetIsFallBack ==
    ASSUME AdapterInv, NEW clear \in BOOLEAN, Reset(clear)
    PROVE  Port!FallBack
  <1>1. pc = "IDLE" /\ pc' = pc /\ program' = memory' /\ memory \in [Addresses -> Word]
    BY DEF Reset, AdapterInv, DataInv
  <1>2. memory' \in {memory} \cup {[a \in Addresses |-> ZeroWord]}
    BY <1>1 DEF Reset
  <1>3. PortState = Port!Free /\ PortState' = PortState /\ CurrentWords' = memory'
    BY <1>1 DEF PortState, CurrentWords, Port!Free
  <1> QED
    BY <1>2, <1>3 DEF Port!FallBack

LEMMA AdapterStepIsPortStep ==
    ASSUME AdapterInv, AdapterInv', WritesHaveMasks, [AdapterNext]_adapterVars
    PROVE  [Port!PortNext]_(Port!portVars)
  <1>1. ASSUME NEW t \in Txns, StartRequest(t) PROVE UNCHANGED Port!portVars
    BY <1>1 DEF StartRequest, PortState, CurrentWords, Port!portVars
  <1>2. ASSUME AwaitReady PROVE UNCHANGED Port!portVars
    <2>1. /\ pc = "DRIVE" /\ pc' = pc /\ program' = program /\ WaitCycle(Shown, FALSE)
      BY <1>2 DEF AwaitReady, bench
    <2>2. dev.out = None
      BY <2>1 DEF AdapterInv, AccessInv, HandshakeInv, DeviceInv
    <2>3. memory' = memory
      BY <2>1, <2>2, QuietCycle
    <2> QED
      BY <2>1, <2>3 DEF PortState, CurrentWords, Port!portVars
  <1>3. CASE SendRequest
    <2>1. txn \in Txns
      BY <1>3 DEF SendRequest, AdapterInv, AccessInv
    <2> QED
      BY <1>3, <2>1, SendIsAsk DEF Port!PortNext
  <1>4. CASE AwaitResponse
    <2>1. txn \in Txns
      BY <1>4 DEF AwaitResponse, AdapterInv, AccessInv
    <2> QED
      BY <1>4, <2>1, AwaitIsServe DEF Port!PortNext
  <1>5. CASE TakeResponse
    BY <1>5, TakeIsTake DEF Port!PortNext
  <1>6. ASSUME NEW clear \in BOOLEAN, Reset(clear) PROVE Port!PortNext
    BY <1>6, ResetIsFallBack DEF Port!PortNext
  <1>7. ASSUME UNCHANGED adapterVars PROVE UNCHANGED Port!portVars
    BY <1>7 DEF adapterVars, bench, PortState, CurrentWords, AfterTxn, Port!portVars
  <1> QED
    BY <1>1, <1>2, <1>3, <1>4, <1>5, <1>6, <1>7 DEF AdapterNext, Clock

(***************************************************************************)
(* The adapter and its device are a memory port (MemoryPort), for every    *)
(* length of a burst, memory, stalling and stream of writes that store     *)
(* something: the burst that stores a line word by word, the burst that    *)
(* fetches the next one and the MMIO bus are writebacks and answers of it. *)
(***************************************************************************)
THEOREM AdapterImplementsPort ==
    ASSUME WritesHaveMasks
    PROVE  AdapterSpec => ImplementsPort
  <1>1. AdapterInit => Port!PortInit
    BY DEF AdapterInit, PortState, CurrentWords, Port!PortInit, Port!Free
  <1>2. AdapterInv /\ AdapterInv' /\ [AdapterNext]_adapterVars
            => [Port!PortNext]_(Port!portVars)
    BY AdapterStepIsPortStep
  <1> QED
    BY <1>1, <1>2, AdapterDataInvariant, PTL DEF AdapterSpec, ImplementsPort, Port!PortSpec
=============================================================================
