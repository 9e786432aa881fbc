------------------------- MODULE V4l2DecoderProofs -------------------------
(***************************************************************************)
(* The safety properties of V4l2Decoder for every number of buffers,       *)
(* inputs, formats, references and seeks.                                  *)
(*                                                                         *)
(* The threads and the change of format (the invariant Orderly) need the   *)
(* stream not to shrink and the client not to seek while a change of       *)
(* format is pending: Calm.  The properties fail without either, as the    *)
(* runs of MCV4l2DecoderShrink.cfg and MCV4l2DecoderSeekChange.cfg show.   *)
(* The driver may give the id of a destroyed surface again.  The surfaces  *)
(* and the frames (the invariant Owned) are proved of every behaviour but  *)
(* for those with a step GivenWhileHeld, which gives the id of a picture   *)
(* that m_decoder still has: the one way in which they can go wrong.       *)
(***************************************************************************)
EXTENDS V4l2Decoder, ListProofs

Calm == ~Shrinks /\ ~Mixed

\* A new surface gets the id of a picture that outlived its own surface.
GivenWhileHeld == (alive' \ alive) \cap PictureIds # {}

-----------------------------------------------------------------------------
(* What the operations of SurfaceGetter do to the holders and to the list *)

Getters == [used  : UNION {[D -> SUBSET Holders] : D \in SUBSET Ids},
            freed : Seq(Ids)]

\* The parts of a getter.
LEMMA GetterParts ==
    ASSUME NEW g \in Getters
    PROVE  /\ DOMAIN g.used \subseteq Ids /\ g.freed \in Seq(Ids)
           /\ g.used \in [DOMAIN g.used -> SUBSET Holders]
<1>1. PICK D \in SUBSET Ids : g.used \in [D -> SUBSET Holders]
    BY DEF Getters
<1>2. QED
    BY <1>1 DEF Getters

\* A getter is made of its parts.
LEMMA GetterMade ==
    ASSUME NEW u, DOMAIN u \subseteq Ids, u \in [DOMAIN u -> SUBSET Holders],
           NEW f \in Seq(Ids), NEW g, g = [used |-> u, freed |-> f]
    PROVE  g \in Getters /\ g.used = u /\ g.freed = f
    BY DEF Getters

\* takeOneFree()
LEMMA GetterTake ==
    ASSUME NEW g \in Getters, HasFree(g), Head(g.freed) \in DOMAIN g.used, NEW h \in Holders,
           NEW d, d = TakeOneFree(g, h)
    PROVE  /\ d \in Getters /\ d.freed = Tail(g.freed) /\ DOMAIN d.used = DOMAIN g.used
           /\ d.used[Head(g.freed)] = {h}
           /\ \A t \in DOMAIN g.used : t # Head(g.freed) => d.used[t] = g.used[t]
<1>1. /\ DOMAIN g.used \subseteq Ids /\ g.freed \in Seq(Ids) /\ g.freed # <<>>
      /\ g.used \in [DOMAIN g.used -> SUBSET Holders]
    BY GetterParts DEF HasFree
<1>2. Tail(g.freed) \in Seq(Ids)
    BY <1>1, ListTail
<1> DEFINE U == [g.used EXCEPT ![Head(g.freed)] = {h}]
           F == Tail(g.freed)
<1>3. /\ DOMAIN U = DOMAIN g.used /\ U \in [DOMAIN U -> SUBSET Holders]
      /\ U[Head(g.freed)] = {h}
      /\ \A t \in DOMAIN g.used : t # Head(g.freed) => U[t] = g.used[t]
    BY <1>1
<1>4. d = [used |-> U, freed |-> F] /\ F \in Seq(Ids)
    BY <1>2 DEF TakeOneFree
<1> HIDE DEF U, F
<1>5. d \in Getters /\ d.freed = F /\ d.used = U
    BY <1>1, <1>3, <1>4, GetterMade
<1>6. QED
    BY <1>1, <1>3, <1>5 DEF F

\* setFlag()
LEMMA GetterSet ==
    ASSUME NEW g \in Getters, NEW s, NEW h \in Holders, NEW d, d = SetFlag(g, s, h)
    PROVE  /\ d \in Getters /\ d.freed = g.freed /\ DOMAIN d.used = DOMAIN g.used
           /\ s \in DOMAIN g.used => d.used[s] = g.used[s] \cup {h}
           /\ \A t \in DOMAIN g.used : t # s => d.used[t] = g.used[t]
<1>1. CASE s \notin DOMAIN g.used
    BY <1>1 DEF SetFlag
<1>2. CASE s \in DOMAIN g.used
    <2>1. /\ DOMAIN g.used \subseteq Ids /\ g.freed \in Seq(Ids)
          /\ g.used \in [DOMAIN g.used -> SUBSET Holders]
        BY GetterParts
    <2> DEFINE U == [g.used EXCEPT ![s] = @ \cup {h}]
    <2>2. /\ DOMAIN U = DOMAIN g.used /\ U \in [DOMAIN U -> SUBSET Holders]
          /\ U[s] = g.used[s] \cup {h}
          /\ \A t \in DOMAIN g.used : t # s => U[t] = g.used[t]
        BY <1>2, <2>1
    <2>3. d = [g EXCEPT !.used = U]
        BY <1>2 DEF SetFlag
    <2> HIDE DEF U
    <2>4. d = [used |-> U, freed |-> g.freed]
        BY <2>3 DEF Getters
    <2>5. d \in Getters /\ d.freed = g.freed /\ d.used = U
        BY <2>1, <2>2, <2>4, GetterMade
    <2>6. QED
        BY <1>2, <2>2, <2>5
<1>3. QED
    BY <1>1, <1>2

\* clearFlag()
LEMMA GetterClear ==
    ASSUME NEW g \in Getters, NEW s, NEW h \in Holders, NEW d, d = ClearFlag(g, s, h)
    PROVE  /\ d \in Getters /\ DOMAIN d.used = DOMAIN g.used
           /\ d.freed = g.freed
              \/ (s \in DOMAIN g.used /\ g.used[s] = {h} /\ d.freed = Append(g.freed, s))
           /\ s \in DOMAIN g.used => d.used[s] = g.used[s] \ {h}
           /\ \A t \in DOMAIN g.used : t # s => d.used[t] = g.used[t]
<1>1. /\ DOMAIN g.used \subseteq Ids /\ g.freed \in Seq(Ids)
      /\ g.used \in [DOMAIN g.used -> SUBSET Holders]
    BY GetterParts
<1>2. CASE ~(s \in DOMAIN g.used /\ h \in g.used[s])
    BY <1>1, <1>2 DEF ClearFlag
<1>3. CASE s \in DOMAIN g.used /\ h \in g.used[s]
    <2> DEFINE f == IF g.used[s] = {h} THEN Append(g.freed, s) ELSE g.freed
    <2> DEFINE U == [g.used EXCEPT ![s] = @ \ {h}]
    <2>1. /\ DOMAIN U = DOMAIN g.used /\ U \in [DOMAIN U -> SUBSET Holders]
          /\ U[s] = g.used[s] \ {h}
          /\ \A t \in DOMAIN g.used : t # s => U[t] = g.used[t]
        BY <1>1, <1>3
    <2>2. f \in Seq(Ids)
        BY <1>1, <1>3, ListAppend
    <2>3. d = [used |-> U, freed |-> f]
        BY <1>3 DEF ClearFlag
    <2> HIDE DEF U, f
    <2>4. d \in Getters /\ d.freed = f /\ d.used = U
        BY <1>1, <2>1, <2>2, <2>3, GetterMade
    <2>5. QED
        BY <1>3, <2>1, <2>4 DEF f
<1>4. QED
    BY <1>2, <1>3

\* putSurface() of the surfaces of S
LEMMA GetterPut ==
    ASSUME NEW g \in Getters, NEW S, NEW d \in PutSurfaces(g, S)
    PROVE  /\ d \in Getters /\ DOMAIN d.used = DOMAIN g.used
           /\ \A t \in DOMAIN g.used :
                 d.used[t] = IF t \in S THEN g.used[t] \ {"decoder"} ELSE g.used[t]
           /\ \E left \in Seq(Ids) :
                 /\ d.freed = g.freed \o left /\ IsInjective(left)
                 /\ \A t \in Range(left) : t \in S /\ t \in DOMAIN g.used /\ g.used[t] = {"decoder"}
           /\ S = {} => d = g
<1> DEFINE U == [s \in DOMAIN g.used |-> IF s \in S THEN g.used[s] \ {"decoder"} ELSE g.used[s]]
           L == {s \in S \cap DOMAIN g.used : g.used[s] = {"decoder"}}
<1>1. /\ DOMAIN g.used \subseteq Ids /\ g.freed \in Seq(Ids)
      /\ g.used \in [DOMAIN g.used -> SUBSET Holders]
    BY GetterParts
<1>2. PICK left \in SetToSeqs(L) : d = [used |-> U, freed |-> g.freed \o left]
    BY DEF PutSurfaces
<1>3. IsFiniteSet(L) /\ Cardinality(L) \in Nat
    <2>1. IsFiniteSet(Ids)
        BY FS_Interval, DecoderAssumption DEF Ids
    <2>2. QED
        BY <1>1, <2>1, FS_Subset, FS_CardinalityType
<1>4. /\ left \in [1..Cardinality(L) -> L]
      /\ \A i, j \in 1..Cardinality(L) : i # j => left[i] # left[j]
    BY <1>2 DEF SetToSeqs
<1>5. left \in Seq(L) /\ IsInjective(left) /\ Range(left) \subseteq L
    <2>1. DOMAIN left = 1..Cardinality(L) /\ left \in UNION {[1..n -> L] : n \in Nat}
        BY <1>3, <1>4
    <2>2. left \in Seq(L)
        BY <2>1, SeqDef
    <2>3. QED
        BY <1>4, <2>1, <2>2 DEF IsInjective, Range
<1>6. left \in Seq(Ids)
    BY <1>1, <1>5, SeqMonotonic
<1>7. g.freed \o left \in Seq(Ids)
    BY <1>1, <1>6, ListConcat
<1>8. ASSUME S = {} PROVE d = g
    <2>1. U = g.used
        BY <1>1, <1>8
    <2>2. left = <<>>
        BY <1>3, <1>4, <1>8, FS_EmptySet
    <2>3. g.freed \o left = g.freed
        BY <1>1, <2>2, ConcatEmptySeq
    <2>4. g = [used |-> g.used, freed |-> g.freed]
        BY DEF Getters
    <2>5. QED
        BY <1>2, <2>1, <2>3, <2>4
<1>9. /\ DOMAIN U = DOMAIN g.used /\ U \in [DOMAIN U -> SUBSET Holders]
      /\ \A t \in DOMAIN g.used : U[t] = IF t \in S THEN g.used[t] \ {"decoder"} ELSE g.used[t]
    BY <1>1
<1> HIDE DEF U
<1>10. d \in Getters /\ d.used = U /\ d.freed = g.freed \o left
    BY <1>1, <1>2, <1>7, <1>9, GetterMade
<1>11. QED
    BY <1>5, <1>6, <1>8, <1>9, <1>10

\* holdAllByRenderer()
LEMMA GetterHoldAll ==
    ASSUME NEW g \in Getters, NEW d, d = HoldAllByRenderer(g)
    PROVE  /\ d \in Getters /\ d.freed = <<>> /\ DOMAIN d.used = DOMAIN g.used
           /\ \A t \in DOMAIN g.used : d.used[t] = {"renderer"}
<1>1. DOMAIN g.used \subseteq Ids
    BY GetterParts
<1> DEFINE U == [s \in DOMAIN g.used |-> {"renderer"}]
<1>2. /\ DOMAIN U = DOMAIN g.used /\ U \in [DOMAIN U -> SUBSET Holders]
      /\ \A t \in DOMAIN g.used : U[t] = {"renderer"}
    BY DEF Holders
<1> DEFINE F == <<>>
<1>3. d = [used |-> U, freed |-> F] /\ F \in Seq(Ids)
    BY EmptySeq DEF HoldAllByRenderer
<1> HIDE DEF U, F
<1>4. d \in Getters /\ d.freed = F /\ d.used = U
    BY <1>1, <1>2, <1>3, GetterMade
<1>5. QED
    BY <1>2, <1>4 DEF F

\* addNewSurface()
LEMMA GetterAdd ==
    ASSUME NEW g \in Getters, NEW s \in Ids, NEW d, d = AddNewSurface(g, s)
    PROVE  /\ d \in Getters /\ d.freed = Append(g.freed, s)
           /\ DOMAIN d.used = DOMAIN g.used \cup {s}
           /\ d.used[s] = {}
           /\ \A t \in DOMAIN g.used : t # s => d.used[t] = g.used[t]
<1> DEFINE U == [t \in DOMAIN g.used \cup {s} |-> IF t = s THEN {} ELSE g.used[t]]
<1>1. /\ DOMAIN g.used \subseteq Ids /\ g.freed \in Seq(Ids)
      /\ g.used \in [DOMAIN g.used -> SUBSET Holders]
    BY GetterParts
<1>2. /\ DOMAIN U = DOMAIN g.used \cup {s} /\ U \in [DOMAIN U -> SUBSET Holders]
      /\ U[s] = {} /\ \A t \in DOMAIN g.used : t # s => U[t] = g.used[t]
    BY <1>1
<1> DEFINE F == Append(g.freed, s)
<1>3. F \in Seq(Ids)
    BY <1>1, ListAppend
<1>4. d = [used |-> U, freed |-> F]
    BY DEF AddNewSurface
<1> HIDE DEF U, F
<1>5. d \in Getters /\ d.freed = F /\ d.used = U
    BY <1>1, <1>2, <1>3, <1>4, GetterMade
<1>6. QED
    BY <1>2, <1>5 DEF F

\* removeAllSurfaces()
LEMMA GetterEmpty ==
    /\ EmptyGetter \in Getters /\ EmptyGetter.freed = <<>> /\ DOMAIN EmptyGetter.used = {}
<1>1. <<>> \in [{} -> SUBSET Holders] /\ DOMAIN <<>> = {}
    OBVIOUS
<1>2. QED
    BY <1>1, EmptySeq, GetterMade DEF EmptyGetter

-----------------------------------------------------------------------------
(* The types *)

Job    == {"start", "flush", "free", "request", "inputReady", "getInput", "getOutput",
           "outputReady", "checkAllocation"}
Steps  == {"none", "start", "flush", "free", "request", "getInput", "consume", "formatChange",
           "noSurface", "getOutput", "put", "drop"}
States == {"kUnStarted", "kGetInput", "kWaitInput", "kGetOutput", "kFormatChanged",
           "kWaitSurface", "kWaitAllocation", "kStopped"}
Phases == {"restart", "run", "event", "free", "request", "fill", "seek", "resume"}
Calls  == {"none", "inPost", "capAdd", "capFree", "capPost", "clearOut", "send", "stop"}
Inputs == [kind : {"key", "other", "eos"}, fmt : 0..MaxFmt, ts : Nat]
Pictures == [id : 0..NIds, birth : Nat, ts : Nat]
Codecs == [made : BOOLEAN, fmt : 0..MaxFmt, cfg : 0..MaxFmt, pool : SUBSET (0..NIds),
           profile : BOOLEAN, gotKey : BOOLEAN, cur : Pictures, refs : SUBSET Pictures,
           outs : Seq(Pictures)]

ThreadTyped ==
    /\ started \in BOOLEAN /\ jobs \in Seq(Job) /\ step \in Steps /\ state \in States
    /\ then \in {"none", "kWaitSurface"}
    /\ inputOn \in BOOLEAN /\ outputOn \in BOOLEAN /\ event \in BOOLEAN
    /\ phase \in Phases /\ call \in Calls

CodecTyped ==
    /\ codec \in Codecs /\ frame \in Pictures /\ inQ \in Seq(Inputs) /\ inDone \in Nat
    /\ pending \in 0..MaxFmt /\ last \in 0..MaxFmt
    /\ birth \in [Ids -> Nat] /\ epoch \in Nat /\ sent \in Nat

BufferTyped ==
    /\ count \in {0, NBuf} /\ surfaces \in Seq(0..NIds) /\ stamp \in Seq(Nat)
    /\ DOMAIN smap \subseteq Ids /\ smap \in [DOMAIN smap -> Indices]
    /\ getter \in Getters
    /\ outQ \in Seq(Indices) /\ mine \subseteq Indices /\ buf \in 0..NBuf /\ seen \in Nat

-----------------------------------------------------------------------------
(* The thread and the client *)

Queued == Range(jobs)

\* startDecoderJob() is the first job of a thread; neither it nor
\* checkAllocationJob() is queued twice.
Once(q) ==
    \A m, n \in DOMAIN q : q[m] = q[n] /\ q[m] \in {"start", "checkAllocation"} => m = n

StartFirst ==
    /\ Once(jobs)
    /\ "start" \in Queued => Head(jobs) = "start" /\ step = "none"
    /\ "start" \in Queued \/ step = "start" => state = "kUnStarted"
    /\ started /\ state = "kUnStarted" => "start" \in Queued \/ step = "start"

\* The thread runs from STREAMON of the input to STREAMOFF, which waits in "stop"
\* for flushDecoderJob(); onRequestBuffers() waits in "send" for its own job.
Handshake ==
    /\ started <=> phase \in {"run", "event", "free", "request", "fill"}
    /\ started \/ call = "stop" <=> inputOn
    /\ ~inputOn => jobs = <<>> /\ step = "none" /\ state = "kUnStarted"
    /\ call = "stop" => phase \in {"seek", "restart"}
    /\ call = "stop" <=> "flush" \in Queued \/ step = "flush" \/ state = "kStopped"
    /\ \A job \in {"free", "request"} :
          job \in Queued \/ step = job => call = "send" /\ phase = job
    /\ call = "send" => phase \in {"free", "request"}
    /\ call = "capAdd" => phase = "fill"
    /\ call = "capFree" => phase = "run"
    /\ call = "clearOut" => phase \in {"seek", "event"} /\ ~outputOn

\* The state of m_state in the middle of a job, and while the client allocates.
StepState ==
    /\ step \in {"getInput", "formatChange", "noSurface", "consume"} => state = "kGetInput"
    /\ step \in {"getOutput", "put", "drop"} => state \in {"kGetOutput", "kFormatChanged"}
    /\ state = "kFormatChanged" => step \in {"getOutput", "put", "drop"}
    /\ then = "kWaitSurface" => step \in {"getOutput", "put", "drop"} /\ state = "kGetOutput"
    /\ phase \in {"event", "free", "request", "fill"} => state = "kWaitAllocation"
    /\ "checkAllocation" \in Queued =>
          call = "stop" \/ (phase = "run" /\ ~event /\ state = "kWaitAllocation")

Protocol == ThreadTyped /\ StartFirst /\ Handshake /\ StepState

-----------------------------------------------------------------------------
(* The change of format *)

\* pending is the format of the codec from FORMAT_CHANGE until the client has
\* allocated buffers for it; meanwhile the thread drains its output and waits.
Change ==
    /\ codec.cfg <= last /\ last <= codec.fmt
    /\ pending # 0 => pending = codec.fmt /\ state \in {"kFormatChanged", "kWaitAllocation"}
    /\ pending # 0 <=> codec.fmt # last /\ step # "formatChange"
    /\ step = "formatChange" => codec.fmt # last
    /\ state = "kFormatChanged" => pending # 0
    /\ state = "kWaitAllocation" => codec.cfg < codec.fmt
    /\ event => state = "kWaitAllocation" /\ phase = "run" /\ pending # 0
    /\ state = "kWaitAllocation" /\ phase = "run" /\ ~event =>
          "checkAllocation" \in Queued /\ pending = 0
    /\ phase \in {"event", "free"} => pending # 0
    /\ phase = "fill" => pending = 0
    /\ call = "stop" \/ phase \in {"seek", "resume", "restart"} =>
          /\ pending = 0 /\ codec.fmt = last
          /\ \A n \in DOMAIN inQ : inQ[n].fmt \in {0, last}

\* The formats of the input do not shrink.  A codec that has not looked at its
\* surfaces since the last change still has the key frame in front of it.
InputFormats ==
    /\ \A n \in DOMAIN inQ : /\ inQ[n].kind = "key" <=> inQ[n].fmt # 0
                             /\ inQ[n].kind = "key" => inQ[n].fmt >= codec.fmt
    /\ \A m, n \in DOMAIN inQ :
          m < n /\ inQ[m].kind = "key" /\ inQ[n].kind = "key" => inQ[m].fmt <= inQ[n].fmt
    /\ codec.gotKey => codec.fmt # 0
    /\ step = "noSurface" => codec.gotKey
    /\ step = "consume" => inQ # <<>>
    /\ codec.gotKey /\ codec.cfg # codec.fmt =>
          /\ step # "consume"
          /\ inQ # <<>> /\ Head(inQ).kind = "key" /\ Head(inQ).fmt = codec.fmt

-----------------------------------------------------------------------------
(* The buffers of an allocation *)

Complete == /\ count = NBuf /\ Len(surfaces) = NBuf /\ Len(stamp) = NBuf
            /\ Cardinality(DOMAIN smap) = NBuf
NoSurfaces == /\ surfaces = <<>> /\ stamp = <<>> /\ DOMAIN smap = {}
              /\ getter = EmptyGetter
Room     == count = NBuf /\ Len(surfaces) = NBuf /\ Len(stamp) = NBuf

Allocated ==
    /\ last # 0 /\ phase \notin {"free", "request", "fill"} => Complete
    /\ phase = "free" /\ call = "send" /\ "free" \notin Queued /\ step # "free" => NoSurfaces
    /\ phase = "request" /\ call = "send" /\ "request" \notin Queued /\ step # "request" =>
          pending = 0
    /\ phase = "request" => DOMAIN smap = {} /\ getter = EmptyGetter
    /\ phase = "request" /\ pending # 0 => NoSurfaces
    /\ phase = "fill" \/ (phase = "request" /\ pending = 0) => Room
    /\ call = "capAdd" => buf \in DOMAIN surfaces /\ surfaces[buf] \in DOMAIN smap
    /\ DOMAIN getter.used \subseteq DOMAIN smap \cap Range(surfaces)
    /\ Range(getter.freed) \subseteq DOMAIN getter.used

\* A codec that has looked at its surfaces has all of them in its pool.
PoolKept == codec.cfg # 0 /\ codec.cfg = codec.fmt => codec.pool = Range(surfaces)

-----------------------------------------------------------------------------
(* What a seek forgets *)

CodecClean == codec.cur = None /\ codec.refs = {} /\ codec.outs = <<>> /\ ~codec.gotKey

Clean ==
    /\ state \in {"kUnStarted", "kStopped"} \/ ~codec.made => CodecClean
    /\ state \notin {"kUnStarted", "kStopped"} => codec.made
    /\ step \notin {"put", "drop"} => frame = None
    /\ ~inputOn => inQ = <<>>
    /\ phase \in {"free", "request", "fill", "resume", "restart"} => outQ = <<>>
    /\ phase \in {"run", "restart"} => outputOn \/ last = 0
    /\ phase = "restart" /\ call = "stop" => last = 0
    /\ last = 0 => codec.outs = <<>> /\ ~codec.gotKey /\ frame = None /\ outQ = <<>>

-----------------------------------------------------------------------------
(* Wake-ups *)

\* The job that goes on from each state is queued, or is about to be.
Wake ==
    /\ started /\ step = "none" =>
          /\ state = "kGetInput" => "getInput" \in Queued
          /\ state = "kGetOutput" => "getOutput" \in Queued
          /\ state = "kWaitInput" => inQ = <<>> \/ "inputReady" \in Queued \/ call = "inPost"
    /\ started /\ HasFree(getter)
       /\ (state = "kWaitSurface" \/ then = "kWaitSurface" \/ step = "noSurface") =>
          "outputReady" \in Queued \/ call = "capPost"
    /\ started /\ step \in {"put", "drop"} /\ frame.id \in DOMAIN getter.used =>
          "renderer" \in getter.used[frame.id] \/ "outputReady" \in Queued \/ call = "capPost"

-----------------------------------------------------------------------------
(* The queue of jobs *)

\* m_thread takes the first job.
LEMMA JobTaken ==
    ASSUME NEW q \in Seq(Job), q # <<>>, Once(q), "start" \in Range(q) => Head(q) = "start"
    PROVE  /\ Tail(q) \in Seq(Job) /\ Head(q) \in Job /\ Once(Tail(q))
           /\ Range(q) = {Head(q)} \cup Range(Tail(q))
           /\ "start" \notin Range(Tail(q))
           /\ Head(q) = "checkAllocation" => "checkAllocation" \notin Range(Tail(q))
<1>1. /\ Len(q) \in Nat /\ Len(q) > 0 /\ q[1] = Head(q) /\ DOMAIN q = 1..Len(q)
    BY LenProperties, EmptySeq, HeadTailProperties
<1>2. /\ Tail(q) \in Seq(Job) /\ Head(q) \in Job /\ Len(Tail(q)) = Len(q) - 1
      /\ \A i \in 1..Len(Tail(q)) : Tail(q)[i] = q[i + 1]
    BY HeadTailProperties
<1>3. DOMAIN Tail(q) = 1..(Len(q) - 1)
    BY <1>2, LenProperties
<1>4. \A i \in DOMAIN Tail(q) : Tail(q)[i] = q[i + 1] /\ i + 1 \in DOMAIN q /\ i + 1 # 1
    BY <1>1, <1>2, <1>3
<1>5. \A i, j \in DOMAIN Tail(q) : i + 1 = j + 1 => i = j
    BY <1>1, <1>3
<1>6. Once(Tail(q))
    BY <1>4, <1>5 DEF Once
<1>7. Range(q) = {Head(q)} \cup Range(Tail(q))
    BY ListTail
<1>8. ASSUME NEW j \in Range(Tail(q)), j \in {"start", "checkAllocation"} PROVE j # Head(q)
    <2>1. PICK i \in DOMAIN Tail(q) : j = Tail(q)[i]
        BY DEF Range
    <2>2. i + 1 \in DOMAIN q /\ 1 \in DOMAIN q /\ q[i + 1] = j /\ i + 1 # 1
        BY <1>1, <1>4, <2>1
    <2>3. QED
        BY <1>1, <1>8, <2>2 DEF Once
<1>9. QED
    BY <1>2, <1>6, <1>7, <1>8

\* A job is put at the end.
LEMMA JobAppended ==
    ASSUME NEW q \in Seq(Job), NEW j \in Job, Once(q), "start" \in Range(q) => Head(q) = "start",
           j = "start" => q = <<>>, j = "checkAllocation" => j \notin Range(q)
    PROVE  /\ Append(q, j) \in Seq(Job) /\ Once(Append(q, j))
           /\ Range(Append(q, j)) = Range(q) \cup {j}
           /\ "start" \in Range(Append(q, j)) => Head(Append(q, j)) = "start"
<1>1. Len(q) \in Nat /\ DOMAIN q = 1..Len(q)
    BY LenProperties
<1>2. /\ Append(q, j) \in Seq(Job) /\ Len(Append(q, j)) = Len(q) + 1
      /\ \A i \in 1..Len(q) : Append(q, j)[i] = q[i]
      /\ Append(q, j)[Len(q) + 1] = j
    BY AppendProperties
<1>3. DOMAIN Append(q, j) = 1..(Len(q) + 1)
    BY <1>2, LenProperties
<1>4. Range(Append(q, j)) = Range(q) \cup {j}
    BY ListAppend
<1>5. Once(Append(q, j))
    <2> SUFFICES ASSUME NEW m \in 1..(Len(q) + 1), NEW n \in 1..(Len(q) + 1),
                        Append(q, j)[m] = Append(q, j)[n],
                        Append(q, j)[m] \in {"start", "checkAllocation"}
                 PROVE  m = n
        BY <1>3 DEF Once
    <2>1. CASE m \in 1..Len(q) /\ n \in 1..Len(q)
        BY <1>1, <1>2, <2>1 DEF Once
    <2>2. CASE m = Len(q) + 1 /\ n = Len(q) + 1
        BY <2>2
    <2>3. ASSUME NEW k \in 1..Len(q), q[k] = j, j \in {"start", "checkAllocation"} PROVE FALSE
        <3>1. q # <<>>
            BY <1>1
        <3>2. j \in Range(q)
            BY <1>1, <2>3 DEF Range
        <3>3. QED
            BY <2>3, <3>1, <3>2
    <2>4. CASE m \in 1..Len(q) /\ n = Len(q) + 1
        BY <1>2, <2>3, <2>4
    <2>5. CASE m = Len(q) + 1 /\ n \in 1..Len(q)
        BY <1>2, <2>3, <2>5
    <2>6. QED
        BY <1>1, <2>1, <2>2, <2>4, <2>5
<1>6. ASSUME "start" \in Range(Append(q, j)) PROVE Head(Append(q, j)) = "start"
    <2>1. Append(q, j) # <<>> /\ Head(Append(q, j)) = Append(q, j)[1]
        BY <1>1, <1>2, <1>3, HeadTailProperties, EmptySeq
    <2>2. CASE q = <<>>
        <3>1. Range(q) = {} /\ Len(q) = 0
            BY <2>2, ListEmpty
        <3>2. QED
            BY <1>2, <1>4, <1>6, <2>1, <3>1
    <2>3. CASE q # <<>>
        <3>1. 1 \in 1..Len(q) /\ Head(q) = q[1]
            BY <1>1, <2>3, EmptySeq, HeadTailProperties
        <3>2. "start" \in Range(q)
            BY <1>4, <1>6, <2>3
        <3>3. QED
            BY <1>2, <2>1, <3>1, <3>2
    <2>4. QED
        BY <2>2, <2>3
<1>7. QED
    BY <1>2, <1>4, <1>5, <1>6

\* What posting a job does (post()).
LEMMA JobPosted ==
    ASSUME Protocol, NEW j \in Job, j # "start", j = "checkAllocation" => j \notin Queued,
           jobs' = Posted(j) \/ (started /\ jobs' = Append(jobs, j))
    PROVE  /\ jobs' \in Seq(Job) /\ Once(jobs)'
           /\ Queued' = Queued \cup (IF started THEN {j} ELSE {})
           /\ ~started => jobs' = jobs
           /\ "start" \in Queued' => Head(jobs') = "start"
<1>1. jobs \in Seq(Job) /\ Once(jobs) /\ ("start" \in Queued => Head(jobs) = "start")
    BY DEF Protocol, ThreadTyped, StartFirst
<1>2. CASE started
    <2> DEFINE q == Append(jobs, j)
    <2>1. jobs' = q
        BY <1>2 DEF Posted
    <2>2. /\ q \in Seq(Job) /\ Once(q) /\ Range(q) = Range(jobs) \cup {j}
          /\ "start" \in Range(q) => Head(q) = "start"
        BY <1>1, JobAppended DEF Queued
    <2> HIDE DEF q
    <2>3. QED
        BY <1>2, <2>1, <2>2 DEF Queued, Once
<1>3. CASE ~started
    BY <1>1, <1>3 DEF Posted, Queued, Once
<1>4. QED
    BY <1>2, <1>3

\* Initially Protocol holds.
LEMMA ProtocolInit == Init => Protocol
<1> SUFFICES ASSUME Init PROVE Protocol
    OBVIOUS
<1>1. jobs = <<>> /\ Queued = {} /\ jobs \in Seq(Job) /\ Once(jobs)
    BY ListEmpty, EmptySeq DEF Init, Queued, Once
<1>2. ThreadTyped
    BY <1>1 DEF Init, ThreadTyped, Steps, States, Phases, Calls
<1>3. QED
    BY <1>1, <1>2 DEF Init, Protocol, StartFirst, Handshake, StepState

\* Steps that leave the queue alone.
LEMMA ProtocolSame ==
    ASSUME Protocol, jobs' = jobs
    PROVE  /\ jobs' \in Seq(Job) /\ Once(jobs)' /\ Queued' = Queued
           /\ "start" \in Queued' => Head(jobs') = "start"
    BY DEF Protocol, ThreadTyped, StartFirst, Queued, Once

\* Every step keeps to the protocol.
LEMMA ProtocolStep ==
    ASSUME Protocol, Change, [Next]_vars
    PROVE  Protocol'
<1> USE DEF Protocol, ThreadTyped, Handshake, StepState
<1> USE DEF codecVars, pipeVars, outVars, vaVars, flagVars, userVars, threadVars
<1>20. /\ "start" \in Job /\ "flush" \in Job /\ "free" \in Job /\ "request" \in Job
       /\ "inputReady" \in Job /\ "getInput" \in Job /\ "getOutput" \in Job
       /\ "outputReady" \in Job /\ "checkAllocation" \in Job
    BY DEF Job
<1>1. ASSUME RunJob PROVE Protocol'
    <2> DEFINE q == jobs
    <2>1. /\ jobs # <<>> /\ jobs \in Seq(Job) /\ Once(jobs)
          /\ "start" \in Range(jobs) => Head(jobs) = "start"
        BY <1>1 DEF RunJob, StartFirst, Queued
    <2>2. /\ Tail(jobs) \in Seq(Job) /\ Head(jobs) \in Job /\ Once(Tail(jobs))
          /\ Queued = {Head(jobs)} \cup Range(Tail(jobs))
          /\ "start" \notin Range(Tail(jobs))
          /\ Head(jobs) = "checkAllocation" => "checkAllocation" \notin Range(Tail(jobs))
        BY <2>1, JobTaken DEF Queued
    <2>3. jobs' = Tail(jobs) /\ Queued' = Range(Tail(jobs)) /\ Once(jobs)'
        BY <1>1, <2>2 DEF RunJob, Queued, Once
    <2>4. PICK job \in Job : job = Head(jobs)
        BY <2>2
    <2>5. StartFirst'
        BY <1>1, <2>2, <2>3 DEF RunJob, StartFirst
    <2>6. ThreadTyped'
        BY <1>1, <2>2, <2>3 DEF RunJob, Steps, States
    <2>7. Handshake'
        BY <1>1, <2>2, <2>3 DEF RunJob, StartFirst
    <2>8. StepState'
        BY <1>1, <2>2, <2>3 DEF RunJob, StartFirst
    <2>9. QED
        BY <2>5, <2>6, <2>7, <2>8
<1>2. ASSUME StartDecoder \/ FlushDecoder \/ FreeBuffers \/ RequestBuffers PROVE Protocol'
    <2>1. /\ jobs' = jobs /\ jobs' \in Seq(Job) /\ Once(jobs)' /\ Queued' = Queued
          /\ "start" \in Queued' => Head(jobs') = "start"
        BY <1>2, ProtocolSame DEF StartDecoder, FlushDecoder, FreeBuffers, RequestBuffers
    <2>2. CASE StartDecoder
        BY <2>1, <2>2 DEF StartDecoder, StartFirst, Steps, States
    <2>3. CASE FlushDecoder
        BY <2>1, <2>3 DEF FlushDecoder, StartFirst, Steps, States
    <2>4. CASE FreeBuffers
        BY <2>1, <2>4 DEF FreeBuffers, StartFirst, Steps, States
    <2>5. CASE RequestBuffers
        BY <2>1, <2>5 DEF RequestBuffers, StartFirst, Steps, States
    <2>6. QED
        BY <1>2, <2>2, <2>3, <2>4, <2>5
<1>3. ASSUME \/ NoInput \/ DecodeEOS \/ DecodeFormatChange \/ DecodeFails \/ DecodeNoSurface
             \/ DecodePicture \/ FormatChange \/ NoSurface
      PROVE  Protocol'
    <2>1. /\ jobs' = jobs /\ UNCHANGED <<started, inputOn, outputOn, phase, call>>
          /\ step = "getInput" \/ step = "formatChange" \/ step = "noSurface"
          /\ state = "kGetInput"
        BY <1>3 DEF NoInput, DecodeEOS, DecodeFormatChange, DecodeFails, DecodeNoSurface,
           DecodePicture, FormatChange, NoSurface, Decoded, Peek, CanDecode, CannotDecode
    <2>2. /\ jobs' \in Seq(Job) /\ Once(jobs)' /\ Queued' = Queued
          /\ "start" \in Queued' => Head(jobs') = "start"
        BY <2>1, ProtocolSame
    <2>3. /\ \/ /\ step' \in {"consume", "formatChange", "noSurface"}
                /\ UNCHANGED <<state, then, event>>
             \/ step' = "none" /\ state' = "kWaitInput" /\ UNCHANGED <<then, event>>
             \/ step' = "getOutput" /\ state' = "kFormatChanged" /\ UNCHANGED <<then, event>>
             \/ step' = "getOutput" /\ state' = "kGetOutput" /\ then' = "kWaitSurface" /\ event' = event
             \/ step' = "none" /\ state' = "kWaitAllocation" /\ then' = then /\ event' = TRUE
        BY <1>3 DEF NoInput, DecodeEOS, DecodeFormatChange, DecodeFails, DecodeNoSurface,
           DecodePicture, FormatChange, NoSurface, Decoded
    <2>4. QED
        BY <2>1, <2>2, <2>3 DEF StartFirst, Steps, States
<1>4. ASSUME Consume \/ OutputEmpty PROVE Protocol'
    <2>1. /\ started' = started /\ step' = "none" /\ state # "kUnStarted" /\ state # "kStopped"
          /\ UNCHANGED <<inputOn, outputOn, phase, call>>
        BY <1>4 DEF Consume, OutputEmpty
    <2>2. \/ jobs' = jobs
          \/ jobs' = Posted("getInput") \/ jobs' = Posted("getOutput")
        BY <1>4 DEF Consume, OutputEmpty
    <2>3. /\ jobs' \in Seq(Job) /\ Once(jobs)' /\ ("start" \in Queued' => Head(jobs') = "start")
          /\ Queued' = Queued \/ Queued' = Queued \cup {"getInput"} \/ Queued' = Queued \cup {"getOutput"}
        <3>1. CASE jobs' = jobs
            BY <3>1, ProtocolSame
        <3>2. CASE jobs' = Posted("getInput")
            BY <3>2, <1>20, JobPosted
        <3>3. CASE jobs' = Posted("getOutput")
            BY <3>3, <1>20, JobPosted
        <3>4. QED
            BY <2>2, <3>1, <3>2, <3>3
    <2>4. CASE Consume
        BY <2>1, <2>3, <2>4 DEF Consume, StartFirst, Steps, States
    <2>5. CASE OutputEmpty
        <3>1. /\ step = "getOutput" /\ then' = "none"
              /\ \/ state = "kFormatChanged" /\ state' = "kWaitAllocation" /\ event' = TRUE
                 \/ state' \in {"kGetInput", "kWaitSurface"} /\ event' = event
            BY <2>5 DEF OutputEmpty
        <3>2. "checkAllocation" \in Queued => call = "stop"
            BY <3>1
        <3>3. "checkAllocation" \in Queued' => call' = "stop"
            BY <2>1, <2>3, <3>2
        <3>4. phase \notin {"event", "free", "request", "fill"}
            BY <3>1
        <3>5. QED
            BY <2>1, <2>3, <3>1, <3>3, <3>4 DEF StartFirst, Steps, States
    <2>6. QED
        BY <1>4, <2>4, <2>5
<1>5. ASSUME OutputHold \/ OutputPut \/ OutputDrop PROVE Protocol'
    <2>1. /\ jobs' = jobs
          /\ step \in {"getOutput", "put", "drop"} /\ step' \in {"getOutput", "put", "drop"}
          /\ UNCHANGED <<started, then, state, event, inputOn, outputOn, phase, call>>
        BY <1>5 DEF OutputHold, OutputPut, OutputDrop
    <2>2. /\ jobs' \in Seq(Job) /\ Once(jobs)' /\ Queued' = Queued
          /\ "start" \in Queued' => Head(jobs') = "start"
        BY <2>1, ProtocolSame
    <2>3. QED
        BY <2>1, <2>2 DEF StartFirst, Steps
<1>6. ASSUME StreamOnInput PROVE Protocol'
    <2>1. jobs = <<>> /\ ~started /\ call = "none" /\ step = "none" /\ state = "kUnStarted"
        BY <1>6 DEF StreamOnInput
    <2>2. PICK q \in Seq(Job), j \in Job :
             j = "start" /\ q = <<>> /\ q = jobs /\ Range(q) = {} /\ Once(q)
        BY <2>1, <1>20, ListEmpty DEF StartFirst
    <2>3. /\ Append(q, j) \in Seq(Job) /\ Once(Append(q, j)) /\ Range(Append(q, j)) = Range(q) \cup {j}
          /\ "start" \in Range(Append(q, j)) => Head(Append(q, j)) = "start"
        BY <2>2, JobAppended
    <2>4. jobs' = Append(q, j)
        BY <1>6, <2>2 DEF StreamOnInput
    <2>5. /\ jobs' \in Seq(Job) /\ Once(jobs)' /\ Queued' = {"start"} /\ Head(jobs') = "start"
        BY <2>2, <2>3, <2>4 DEF Queued, Once
    <2>6. QED
        BY <1>6, <2>1, <2>5 DEF StreamOnInput, StartFirst, Phases
<1>7. ASSUME QueueInputPost \/ QueueBufferPost \/ StreamOnOutput PROVE Protocol'
    <2>1. UNCHANGED <<started, step, then, state, event, inputOn>>
        BY <1>7 DEF QueueInputPost, QueueBufferPost, StreamOnOutput
    <2>2. CASE QueueInputPost
        <3>1. /\ jobs' \in Seq(Job) /\ Once(jobs)' /\ ("start" \in Queued' => Head(jobs') = "start")
              /\ Queued' = Queued \cup (IF started THEN {"inputReady"} ELSE {})
              /\ ~started => jobs' = jobs
            BY <2>2, <1>20, JobPosted DEF QueueInputPost
        <3>2. QED
            BY <2>1, <2>2, <3>1 DEF QueueInputPost, StartFirst, Calls
    <2>3. CASE QueueBufferPost
        <3>1. /\ jobs' \in Seq(Job) /\ Once(jobs)' /\ ("start" \in Queued' => Head(jobs') = "start")
              /\ Queued' = Queued \cup (IF started THEN {"outputReady"} ELSE {})
              /\ ~started => jobs' = jobs
            BY <2>3, <1>20, JobPosted DEF QueueBufferPost
        <3>2. QED
            BY <2>1, <2>3, <3>1 DEF QueueBufferPost, StartFirst, Calls
    <2>4. CASE StreamOnOutput
        <3>1. "checkAllocation" \notin Queued
            BY <2>4 DEF StreamOnOutput
        <3>2. /\ jobs' \in Seq(Job) /\ Once(jobs)' /\ ("start" \in Queued' => Head(jobs') = "start")
              /\ Queued' = Queued \cup (IF started THEN {"checkAllocation"} ELSE {})
              /\ ~started => jobs' = jobs
            BY <2>4, <3>1, <1>20, JobPosted DEF StreamOnOutput
        <3>3. ~event
            BY <2>4 DEF StreamOnOutput, Change
        <3>4. QED
            BY <2>1, <2>4, <3>1, <3>2, <3>3 DEF StreamOnOutput, StartFirst, Calls, Phases
    <2>5. QED
        BY <1>7, <2>2, <2>3, <2>4
<1>8. ASSUME RequestBuffersSend \/ StreamOffInput PROVE Protocol'
    <2>1. PICK j \in Job : /\ jobs' = Append(jobs, j) /\ started
                           /\ \/ j = phase /\ j \in {"free", "request"} /\ RequestBuffersSend
                              \/ j = "flush" /\ StreamOffInput
        BY <1>8, <1>20 DEF RequestBuffersSend, StreamOffInput
    <2>2. /\ jobs' \in Seq(Job) /\ Once(jobs)' /\ ("start" \in Queued' => Head(jobs') = "start")
          /\ Queued' = Queued \cup (IF started THEN {j} ELSE {})
        BY <2>1, JobPosted
    <2>3. CASE RequestBuffersSend
        <3>1. j = phase /\ Queued' = Queued \cup {phase} /\ j # "flush" /\ j # "checkAllocation"
            BY <2>1, <2>2, <2>3 DEF RequestBuffersSend, StreamOffInput
        <3>2. QED
            BY <2>2, <2>3, <3>1 DEF RequestBuffersSend, StartFirst, Calls
    <2>4. CASE StreamOffInput
        <3>1. j = "flush" /\ Queued' = Queued \cup {"flush"}
            BY <2>1, <2>2, <2>4 DEF RequestBuffersSend, StreamOffInput
        <3>2. QED
            BY <2>2, <2>4, <3>1 DEF StreamOffInput, StartFirst, Calls, Phases
    <2>5. QED
        BY <1>8, <2>3, <2>4
<1>9. ASSUME \/ QueueInput \/ DequeInput \/ QueueNewBuffer \/ QueueBuffer \/ QueueBufferGetter
             \/ DequeBuffer \/ DequeFreeBuffer \/ StreamOffOutput
      PROVE  Protocol'
    <2>1. UNCHANGED <<jobs, started, step, then, state, event, inputOn, phase>>
        BY <1>9 DEF QueueInput, DequeInput, QueueNewBuffer, QueueBuffer, QueueBufferGetter,
           DequeBuffer, DequeFreeBuffer, StreamOffOutput
    <2>2. /\ jobs' \in Seq(Job) /\ Once(jobs)' /\ Queued' = Queued
          /\ "start" \in Queued' => Head(jobs') = "start"
        BY <2>1, ProtocolSame
    <2>3. /\ outputOn' \in BOOLEAN /\ call' \in Calls
          /\ \/ UNCHANGED <<outputOn, call>>
             \/ outputOn' = outputOn /\ call = "none" /\ call' = "inPost"
             \/ outputOn' = outputOn /\ call = "none" /\ call' = "capAdd" /\ phase = "fill"
             \/ outputOn' = outputOn /\ call = "none" /\ call' = "capFree" /\ phase = "run"
             \/ outputOn' = outputOn /\ call \in {"capAdd", "capFree"} /\ call' = "capPost"
             \/ outputOn' = FALSE /\ call = "none" /\ call' = "clearOut" /\ phase \in {"seek", "event"}
        BY <1>9 DEF QueueInput, DequeInput, QueueNewBuffer, QueueBuffer, QueueBufferGetter,
           DequeBuffer, DequeFreeBuffer, StreamOffOutput, Calls
    <2>4. QED
        BY <2>1, <2>2, <2>3 DEF StartFirst
<1>10. ASSUME \/ StreamOffOutputClear \/ DequeEvent \/ RequestBuffersReturn
       PROVE  Protocol'
    <2>1. UNCHANGED <<jobs, started, step, then, state, inputOn>>
        BY <1>10 DEF StreamOffOutputClear, DequeEvent, RequestBuffersReturn
    <2>2. /\ jobs' \in Seq(Job) /\ Once(jobs)' /\ Queued' = Queued
          /\ "start" \in Queued' => Head(jobs') = "start"
        BY <2>1, ProtocolSame
    <2>3. CASE StreamOffOutputClear
        BY <2>1, <2>2, <2>3 DEF StreamOffOutputClear, StartFirst, Calls, Phases
    <2>4. CASE DequeEvent
        <3>1. state = "kWaitAllocation" /\ "checkAllocation" \notin Queued
            BY <2>4 DEF DequeEvent, Change
        <3>2. /\ call = "none" /\ call' = "none" /\ phase = "run" /\ phase' \in {"event", "free"}
              /\ event' = FALSE /\ outputOn' = outputOn
            BY <2>4 DEF DequeEvent
        <3>3. QED
            BY <2>1, <2>2, <3>1, <3>2 DEF StartFirst, Phases
    <2>5. CASE RequestBuffersReturn
        <3>1. phase \notin Queued
            <4>1. DOMAIN jobs = 1..Len(jobs)
                BY LenProperties
            <4>2. QED
                BY <2>5, <4>1 DEF RequestBuffersReturn, Queued, Range
        <3>2. QED
            BY <2>1, <2>2, <2>5, <3>1 DEF RequestBuffersReturn, StartFirst, Phases, Calls
    <2>6. QED
        BY <1>10, <2>3, <2>4, <2>5
<1>11. ASSUME StreamOffInputDone PROVE Protocol'
    <2>1. /\ jobs' = jobs /\ jobs' \in Seq(Job) /\ Once(jobs)' /\ Queued' = Queued
          /\ "start" \in Queued' => Head(jobs') = "start"
        BY <1>11, ProtocolSame DEF StreamOffInputDone
    <2>2. Queued = {}
        BY <1>11, ListEmpty DEF StreamOffInputDone, Queued
    <2>3. QED
        BY <1>11, <2>1, <2>2 DEF StreamOffInputDone, StartFirst, States, Calls
<1>12. ASSUME UNCHANGED vars PROVE Protocol'
    <2>1. /\ jobs' = jobs /\ jobs' \in Seq(Job) /\ Once(jobs)' /\ Queued' = Queued
          /\ "start" \in Queued' => Head(jobs') = "start"
        BY <1>12, ProtocolSame DEF vars
    <2>2. QED
        BY <1>12, <2>1 DEF vars, StartFirst
<1>13. QED
    BY <1>1, <1>2, <1>3, <1>4, <1>5, <1>6, <1>7, <1>8, <1>9, <1>10, <1>11, <1>12
       DEF Next, ThreadStep, ClientStep

-----------------------------------------------------------------------------
(* The types of the data *)

\* The types of the constants.
LEMMA DecoderNumbers ==
    /\ NBuf \in Nat \ {0} /\ MaxFmt \in Nat \ {0} /\ NIds \in Nat \ {0}
    /\ 0 \notin Ids /\ Ids \subseteq 0..NIds /\ 0 \in 0..NIds /\ 0 \in 0..MaxFmt
    /\ None \in Pictures /\ None.id = 0
    BY DecoderAssumption DEF Ids, None, Pictures

\* Initially CodecTyped holds.
LEMMA CodecTypedInit == Init => CodecTyped
<1> SUFFICES ASSUME Init PROVE CodecTyped
    OBVIOUS
<1>1. <<>> \in Seq(Pictures) /\ <<>> \in Seq(Inputs)
    BY EmptySeq
<1>2. codec \in Codecs
    BY <1>1, DecoderNumbers DEF Init, Codecs, NoPool
<1>3. QED
    BY <1>1, <1>2, DecoderNumbers DEF Init, CodecTyped, Ids

\* What the parts of decoding make of the codec.
LEMMA CodecParts ==
    ASSUME CodecTyped, BufferTyped
    PROVE  /\ CodecFlushed(codec) \in Codecs /\ CodecEnded(codec) \in Codecs
           /\ PoolEnsured(codec) \in Codecs
           /\ \A c \in Codecs : ProfileEnsured(c) \in Codecs
           /\ \A c \in Codecs : [c EXCEPT !.gotKey = TRUE] \in Codecs
<1>1. <<>> \in Seq(Pictures) /\ None \in Pictures /\ codec \in Codecs /\ {} \in SUBSET Pictures
    BY EmptySeq, DecoderNumbers DEF CodecTyped
<1>2. Range(surfaces) \in SUBSET (0..NIds) /\ NoPool \in SUBSET (0..NIds)
    <2>1. surfaces \in Seq(0..NIds)
        BY DEF BufferTyped
    <2>2. DOMAIN surfaces = 1..Len(surfaces)
        BY <2>1, LenProperties
    <2>3. Range(surfaces) \subseteq 0..NIds
        BY <2>1, <2>2, ElementOfSeq DEF Range
    <2>4. QED
        BY <2>3, DecoderNumbers DEF NoPool
<1>3. PoolEnsured(codec) \in Codecs
    <2>1. CASE codec.cfg >= codec.fmt
        BY <1>1, <2>1 DEF PoolEnsured
    <2>2. CASE ~(codec.cfg >= codec.fmt)
        <3> DEFINE P == IF Len(surfaces) = Cardinality(DOMAIN smap) THEN Range(surfaces) ELSE NoPool
        <3>1. P \in SUBSET (0..NIds)
            BY <1>2
        <3>2. PoolEnsured(codec) = [codec EXCEPT !.cfg = codec.fmt, !.pool = P]
            BY <2>2 DEF PoolEnsured
        <3> HIDE DEF P
        <3>3. QED
            BY <1>1, <3>1, <3>2 DEF Codecs
    <2>3. QED
        BY <2>1, <2>2
<1>4. \A c \in Codecs : ProfileEnsured(c) \in Codecs
    BY DEF ProfileEnsured, Codecs
<1>5. \A c \in Codecs : [c EXCEPT !.gotKey = TRUE] \in Codecs
    BY DEF Codecs
<1>6. CodecFlushed(codec) \in Codecs /\ CodecEnded(codec) \in Codecs
    BY <1>1 DEF CodecFlushed, CodecEnded, Codecs
<1>7. QED
    BY <1>3, <1>4, <1>5, <1>6

\* The codec that is to decode a picture.
LEMMA ReadyTyped == ASSUME CodecTyped, BufferTyped PROVE Ready \in Codecs
<1>1. codec \in Codecs
    BY DEF CodecTyped
<1>2. PICK c \in Codecs : c = ProfileEnsured(PoolEnsured(codec))
    BY CodecParts
<1>3. [c EXCEPT !.gotKey = TRUE] \in Codecs
    BY CodecParts
<1>4. QED
    BY <1>1, <1>2, <1>3 DEF Ready

\* The first input buffer.
LEMMA HeadTyped ==
    ASSUME CodecTyped, inQ # <<>>
    PROVE  /\ Head(inQ) \in Inputs /\ Head(inQ).fmt \in 0..MaxFmt /\ Head(inQ).ts \in Nat
           /\ Head(inQ).kind \in {"key", "other", "eos"}
           /\ 1 \in DOMAIN inQ /\ inQ[1] = Head(inQ)
<1>1. Head(inQ) \in Inputs
    BY ListTail DEF CodecTyped
<1>2. 1 \in DOMAIN inQ /\ inQ[1] = Head(inQ)
    BY LenProperties, EmptySeq, HeadTailProperties DEF CodecTyped
<1>3. QED
    BY <1>1, <1>2 DEF Inputs

\* Every step keeps CodecTyped.
LEMMA CodecTypedStep ==
    ASSUME CodecTyped, BufferTyped, InputFormats, [Next]_vars
    PROVE  CodecTyped'
<1> USE DEF codecVars, pipeVars, outVars, vaVars, flagVars, userVars, threadVars
<1> DEFINE Rest == <<frame, inQ, inDone, pending, last, birth, epoch, sent>>
<1>1. codec \in Codecs /\ frame \in Pictures /\ inQ \in Seq(Inputs)
    BY DEF CodecTyped
<1>2. ASSUME codec' = codec, UNCHANGED Rest PROVE CodecTyped'
    BY <1>2 DEF CodecTyped
<1>3. ASSUME codec' \in Codecs, UNCHANGED Rest PROVE CodecTyped'
    BY <1>3 DEF CodecTyped
<1>4. CASE \/ RunJob \/ FreeBuffers \/ NoInput \/ NoSurface \/ OutputEmpty \/ OutputPut
    BY <1>2, <1>4 DEF RunJob, FreeBuffers, NoInput, NoSurface, OutputEmpty, OutputPut
<1>5. CASE \/ StreamOnInput \/ QueueInputPost \/ QueueBuffer \/ QueueBufferGetter
           \/ QueueBufferPost \/ DequeBuffer \/ DequeFreeBuffer \/ StreamOnOutput
           \/ StreamOffOutput \/ StreamOffOutputClear \/ DequeEvent \/ RequestBuffersSend
           \/ RequestBuffersReturn \/ StreamOffInput \/ UNCHANGED vars
    BY <1>2, <1>5 DEF StreamOnInput, QueueInputPost, QueueBuffer, QueueBufferGetter,
       QueueBufferPost, DequeBuffer, DequeFreeBuffer, StreamOnOutput,
       StreamOffOutput, StreamOffOutputClear, DequeEvent, RequestBuffersSend,
       RequestBuffersReturn, StreamOffInput, vars
<1>6. CASE StartDecoder
    <2>1. codec' \in Codecs
        BY <1>1, <1>6 DEF StartDecoder, Codecs
    <2>2. QED
        BY <1>3, <1>6, <2>1 DEF StartDecoder
<1>7. CASE FlushDecoder
    <2>1. codec' \in Codecs
        BY <1>1, <1>7, CodecParts DEF FlushDecoder
    <2>2. QED
        BY <1>7, <2>1, DecoderNumbers DEF FlushDecoder, CodecTyped
<1>8. CASE RequestBuffers
    BY <1>8, DecoderNumbers DEF RequestBuffers, CodecTyped
<1>9. CASE DecodeEOS \/ DecodeFormatChange \/ DecodeFails \/ DecodeNoSurface
    <2>1. UNCHANGED Rest
        BY <1>9 DEF DecodeEOS, DecodeFormatChange, DecodeFails, DecodeNoSurface, Decoded
    <2>2. CASE DecodeEOS
        BY <1>3, <2>1, <2>2, CodecParts DEF DecodeEOS, Decoded
    <2>3. CASE DecodeFormatChange
        <3>1. inQ # <<>>
            BY <2>3 DEF DecodeFormatChange, Peek
        <3>2. Head(inQ).fmt \in 0..MaxFmt
            BY <3>1, HeadTyped
        <3>3. codec' = [codec EXCEPT !.fmt = Head(inQ).fmt]
            BY <2>3 DEF DecodeFormatChange, Decoded
        <3>4. codec' \in Codecs
            BY <1>1, <3>2, <3>3 DEF Codecs
        <3>5. QED
            BY <1>3, <2>1, <3>4
    <2>4. CASE DecodeFails
        <3>1. codec' = codec \/ codec' = ProfileEnsured(PoolEnsured(codec))
            BY <2>4 DEF DecodeFails, Decoded
        <3>2. codec' \in Codecs
            BY <1>1, <3>1, CodecParts
        <3>3. QED
            BY <1>3, <2>1, <3>2
    <2>5. CASE DecodeNoSurface
        <3>1. codec' = Ready
            BY <2>5 DEF DecodeNoSurface, Decoded
        <3>2. QED
            BY <1>3, <2>1, <3>1, ReadyTyped
    <2>6. QED
        BY <1>9, <2>2, <2>3, <2>4, <2>5
<1>10. CASE DecodePicture
    <2>1. inQ # <<>> /\ HasFree(getter)
        BY <1>10 DEF DecodePicture, CanDecode, Peek
    <2>2. Head(inQ).ts \in Nat
        BY <2>1, HeadTyped
    <2>3. Head(getter.freed) \in Ids
        BY <2>1, ListTail, GetterParts DEF HasFree, BufferTyped
    <2>4. [id |-> Head(getter.freed), birth |-> birth[Head(getter.freed)], ts |-> Head(inQ).ts] \in Pictures
        BY <2>2, <2>3, DecoderNumbers DEF Pictures, CodecTyped
    <2>5. PICK p \in Pictures : \E r \in SUBSET (codec.refs \cup {p}) :
             codec' = [Ready EXCEPT !.cur = p, !.refs = r, !.outs = Append(@, p)]
        BY <1>10, <2>4 DEF DecodePicture, Decoded
    <2>6. PICK r \in SUBSET Pictures :
             codec' = [Ready EXCEPT !.cur = p, !.refs = r, !.outs = Append(@, p)]
        BY <1>1, <2>5 DEF Codecs
    <2>7. Append(Ready.outs, p) \in Seq(Pictures)
        BY ReadyTyped, ListAppend DEF Codecs
    <2>8. codec' \in Codecs
        BY <2>6, <2>7, ReadyTyped DEF Codecs
    <2>9. UNCHANGED Rest
        BY <1>10 DEF DecodePicture, Decoded
    <2>10. QED
        BY <1>3, <2>8, <2>9
<1>11. CASE FormatChange
    BY <1>1, <1>11 DEF FormatChange, CodecTyped, Codecs
<1>12. CASE Consume
    <2>1. inQ # <<>>
        BY <1>12 DEF Consume, InputFormats
    <2>2. QED
        BY <1>1, <1>12, <2>1, ListTail DEF Consume, CodecTyped
<1>13. CASE OutputHold
    <2>1. /\ frame' = Head(codec.outs) /\ codec' = [codec EXCEPT !.outs = Tail(codec.outs)]
          /\ codec.outs # <<>> /\ codec.outs \in Seq(Pictures)
        BY <1>1, <1>13 DEF OutputHold, Codecs
    <2>2. Head(codec.outs) \in Pictures /\ Tail(codec.outs) \in Seq(Pictures)
        BY <2>1, ListTail
    <2>3. codec' \in Codecs
        BY <1>1, <2>1, <2>2 DEF Codecs
    <2>4. QED
        BY <1>13, <2>1, <2>2, <2>3 DEF OutputHold, CodecTyped
<1>14. CASE OutputDrop
    BY <1>14, DecoderNumbers DEF OutputDrop, CodecTyped
<1>15. CASE QueueInput
    <2>1. PICK e \in Inputs : inQ' = Append(inQ, e)
        <3>1. CASE \E fmt \in Formats : inQ' = Append(inQ, [kind |-> "key", fmt |-> fmt, ts |-> sent + 1])
            <4>1. PICK fmt \in Formats : inQ' = Append(inQ, [kind |-> "key", fmt |-> fmt, ts |-> sent + 1])
                BY <3>1
            <4>2. [kind |-> "key", fmt |-> fmt, ts |-> sent + 1] \in Inputs
                BY DecoderNumbers DEF Inputs, CodecTyped, Formats
            <4>3. QED
                BY <4>1, <4>2
        <3>2. CASE \E kind \in {"other", "eos"} :
                      inQ' = Append(inQ, [kind |-> kind, fmt |-> 0, ts |-> sent + 1])
            <4>1. PICK kind \in {"other", "eos"} :
                      inQ' = Append(inQ, [kind |-> kind, fmt |-> 0, ts |-> sent + 1])
                BY <3>2
            <4>2. [kind |-> kind, fmt |-> 0, ts |-> sent + 1] \in Inputs
                BY DecoderNumbers DEF Inputs, CodecTyped
            <4>3. QED
                BY <4>1, <4>2
        <3>3. QED
            BY <1>15, <3>1, <3>2 DEF QueueInput
    <2>2. inQ' \in Seq(Inputs)
        BY <1>1, <2>1, ListAppend
    <2>3. QED
        BY <1>15, <2>2 DEF QueueInput, CodecTyped
<1>16. CASE DequeInput
    BY <1>16 DEF DequeInput, CodecTyped
<1>17. CASE QueueNewBuffer
    BY <1>17 DEF QueueNewBuffer, CodecTyped
<1>18. CASE StreamOffInputDone
    BY <1>18, EmptySeq DEF StreamOffInputDone, CodecTyped
<1>19. QED
    BY <1>4, <1>5, <1>6, <1>7, <1>8, <1>9, <1>10, <1>11, <1>12, <1>13, <1>14, <1>15, <1>16,
       <1>17, <1>18 DEF Next, ThreadStep, ClientStep

\* Initially BufferTyped holds.
LEMMA BufferTypedInit == Init => BufferTyped
<1> SUFFICES ASSUME Init PROVE BufferTyped
    OBVIOUS
<1>1. <<>> \in Seq(0..NIds) /\ <<>> \in Seq(Nat) /\ <<>> \in Seq(Indices)
    BY EmptySeq
<1>2. DOMAIN smap = {} /\ smap \in [DOMAIN smap -> Indices]
    BY DEF Init
<1>3. QED
    BY <1>1, <1>2, DecoderNumbers, GetterEmpty DEF Init, BufferTyped

\* What decoding does to the getter.
LEMMA GetterStep ==
    ASSUME BufferTyped, CodecTyped, Allocated, [Next]_vars,
           \/ FlushDecoder \/ DecodeEOS \/ DecodeFormatChange \/ DecodeFails \/ DecodeNoSurface
           \/ DecodePicture
    PROVE  /\ getter' \in Getters /\ DOMAIN getter'.used = DOMAIN getter.used
           /\ Range(getter'.freed) \subseteq DOMAIN getter.used
<1>1. /\ getter \in Getters /\ getter.freed \in Seq(Ids)
      /\ Range(getter.freed) \subseteq DOMAIN getter.used
    BY GetterParts DEF BufferTyped, Allocated
<1>2. PICK g \in Getters : /\ DOMAIN g.used = DOMAIN getter.used
                          /\ Range(g.freed) \subseteq DOMAIN getter.used
                          /\ \E T : getter' \in PutSurfaces(g, T)
    <2>1. CASE FlushDecoder \/ DecodeEOS \/ DecodeFormatChange \/ DecodeFails
        BY <1>1, <2>1 DEF FlushDecoder, DecodeEOS, DecodeFormatChange, DecodeFails, Decoded, Released
    <2>2. CASE DecodeNoSurface \/ DecodePicture
        <3>1. CASE HasFree(getter)
            <4>1. PICK g : g = TakeOneFree(getter, "decoder")
                OBVIOUS
            <4>2. Head(getter.freed) \in Range(getter.freed)
                BY <1>1, <3>1, ListTail DEF HasFree
            <4>3. "decoder" \in Holders
                BY DEF Holders
            <4>4. g \in Getters /\ DOMAIN g.used = DOMAIN getter.used /\ g.freed = Tail(getter.freed)
                BY <1>1, <3>1, <4>1, <4>2, <4>3, GetterTake
            <4>5. Range(g.freed) \subseteq DOMAIN getter.used
                BY <1>1, <3>1, <4>4, ListTail DEF HasFree
            <4>6. \E T : getter' \in PutSurfaces(g, T)
                BY <2>2, <3>1, <4>1 DEF DecodeNoSurface, DecodePicture, Decoded, Released
            <4>7. QED
                BY <4>4, <4>5, <4>6
        <3>2. CASE ~HasFree(getter)
            BY <1>1, <2>2, <3>2 DEF DecodeNoSurface, DecodePicture, Decoded, Released
        <3>3. QED
            BY <3>1, <3>2
    <2>3. QED
        BY <2>1, <2>2
<1>3. PICK T : getter' \in PutSurfaces(g, T)
    BY <1>2
<1>4. /\ getter' \in Getters /\ DOMAIN getter'.used = DOMAIN g.used
      /\ \E left \in Seq(Ids) :
            /\ getter'.freed = g.freed \o left
            /\ \A t \in Range(left) : t \in DOMAIN g.used
    BY <1>3, GetterPut
<1>5. PICK left \in Seq(Ids) : getter'.freed = g.freed \o left /\ \A t \in Range(left) : t \in DOMAIN g.used
    BY <1>4
<1>6. Range(getter'.freed) = Range(g.freed) \cup Range(left)
    BY <1>5, GetterParts, ListConcat
<1>7. QED
    BY <1>2, <1>4, <1>5, <1>6

\* Every step keeps BufferTyped.
LEMMA BufferTypedStep ==
    ASSUME BufferTyped, CodecTyped, Allocated, Clean, Protocol, [Next]_vars
    PROVE  BufferTyped'
<1> USE DEF codecVars, pipeVars, outVars, vaVars, flagVars, userVars, threadVars
<1>1. /\ surfaces \in Seq(0..NIds) /\ stamp \in Seq(Nat) /\ outQ \in Seq(Indices)
      /\ DOMAIN smap \subseteq Ids /\ smap \in [DOMAIN smap -> Indices]
      /\ getter \in Getters /\ getter.freed \in Seq(Ids) /\ DOMAIN getter.used \subseteq Ids
      /\ DOMAIN getter.used \subseteq DOMAIN smap
      /\ Range(getter.freed) \subseteq DOMAIN getter.used
      /\ "renderer" \in Holders /\ "decoder" \in Holders
    BY GetterParts DEF BufferTyped, Allocated, Holders
<1> DEFINE Lists == <<count, surfaces, stamp, smap, outQ, buf, mine, seen>>
<1>2. ASSUME UNCHANGED Lists, getter' \in Getters PROVE BufferTyped'
    BY <1>2 DEF BufferTyped
<1>3. CASE \/ RunJob \/ StartDecoder \/ NoInput \/ FormatChange \/ NoSurface \/ Consume
           \/ OutputEmpty
    BY <1>1, <1>2, <1>3 DEF RunJob, StartDecoder, NoInput, FormatChange, NoSurface, Consume, OutputEmpty
<1>4. CASE \/ StreamOnInput \/ QueueInput \/ QueueInputPost \/ DequeInput
           \/ StreamOnOutput \/ DequeEvent \/ RequestBuffersSend
           \/ StreamOffInput \/ StreamOffInputDone \/ UNCHANGED vars
    BY <1>1, <1>2, <1>4 DEF StreamOnInput, QueueInput, QueueInputPost, DequeInput,
       StreamOnOutput, DequeEvent, RequestBuffersSend, StreamOffInput, StreamOffInputDone, vars
<1>5. CASE \/ FlushDecoder \/ DecodeEOS \/ DecodeFormatChange \/ DecodeFails \/ DecodeNoSurface
           \/ DecodePicture
    <2>1. getter' \in Getters
        BY <1>5, GetterStep
    <2>2. UNCHANGED Lists
        BY <1>5 DEF FlushDecoder, DecodeEOS, DecodeFormatChange, DecodeFails, DecodeNoSurface,
           DecodePicture, Decoded
    <2>3. QED
        BY <1>2, <2>1, <2>2
<1>6. CASE FreeBuffers
    <2>1. <<>> \in Seq(0..NIds) /\ <<>> \in Seq(Nat) /\ DOMAIN <<>> = {} /\ <<>> \in [{} -> Indices]
        BY EmptySeq
    <2>2. QED
        BY <1>1, <1>6, <2>1, GetterEmpty DEF FreeBuffers, BufferTyped
<1>7. CASE RequestBuffers
    <2>1. \A i \in Indices : i \in Nat /\ i >= 1
        BY DecoderNumbers DEF Indices
    <2>2. /\ Len(surfaces) \in Nat /\ surfaces \in [1..Len(surfaces) -> 0..NIds]
          /\ Len(stamp) \in Nat /\ stamp \in [1..Len(stamp) -> Nat]
        BY <1>1, LenProperties
    <2> DEFINE T == 0..NIds
               F == [i \in 1..NBuf |-> IF i <= Len(surfaces) THEN surfaces[i] ELSE 0]
               G == [i \in 1..NBuf |-> IF i <= Len(stamp) THEN stamp[i] ELSE 0]
    <2>3. surfaces' = F /\ stamp' = G
        BY <1>7 DEF RequestBuffers, Indices
    <2>6. G \in [1..NBuf -> Nat]
        BY <2>1, <2>2 DEF Indices
    <2>7. 0 \in T /\ surfaces \in [1..Len(surfaces) -> T]
        BY <2>2, DecoderNumbers
    <2> HIDE DEF T
    <2>8. F \in [1..NBuf -> T]
        BY <2>1, <2>2, <2>7 DEF Indices
    <2> HIDE DEF F, G
    <2> USE DEF T
    <2>4. surfaces' \in Seq(0..NIds) /\ stamp' \in Seq(Nat)
        BY <2>3, <2>6, <2>8, ListOfLength, DecoderNumbers
    <2>5. QED
        BY <1>1, <1>7, <2>4 DEF RequestBuffers, BufferTyped
<1>8. CASE OutputHold
    <2>1. getter' \in Getters
        BY <1>1, <1>8, GetterSet DEF OutputHold
    <2>2. QED
        BY <1>2, <1>8, <2>1 DEF OutputHold
<1>9. CASE OutputDrop
    <2>1. getter' \in Getters
        BY <1>1, <1>9, GetterClear DEF OutputDrop
    <2>2. QED
        BY <1>2, <1>9, <2>1 DEF OutputDrop
<1>10. CASE OutputPut
    <2>1. smap[frame.id] \in Indices /\ frame.ts \in Nat
        BY <1>1, <1>10 DEF OutputPut, CodecTyped, Pictures
    <2>2. outQ' \in Seq(Indices)
        BY <1>1, <1>10, <2>1, ListAppend DEF OutputPut
    <2>3. stamp' \in Seq(Nat)
        BY <1>1, <1>10, <2>1, ListExcept DEF OutputPut
    <2>4. QED
        BY <1>10, <2>2, <2>3 DEF OutputPut, BufferTyped
<1>11. CASE QueueNewBuffer
    <2>1. PICK i \in mine, s \in Ids :
             /\ surfaces' = [surfaces EXCEPT ![i] = s] /\ buf' = i /\ mine' = mine \ {i}
             /\ smap' = [t \in DOMAIN smap \cup {s} |-> IF t = s THEN i ELSE smap[t]]
        BY <1>11 DEF QueueNewBuffer
    <2>2. i \in Indices /\ i \in 0..NBuf /\ s \in 0..NIds
        BY DecoderNumbers DEF BufferTyped, Indices
    <2>3. surfaces' \in Seq(0..NIds)
        BY <1>1, <2>1, <2>2, ListExcept
    <2>4. DOMAIN smap' = DOMAIN smap \cup {s} /\ smap' \in [DOMAIN smap \cup {s} -> Indices]
        BY <1>1, <2>1, <2>2
    <2>5. UNCHANGED <<count, stamp, getter, outQ, seen>>
        BY <1>11 DEF QueueNewBuffer
    <2>6. QED
        BY <1>1, <2>1, <2>2, <2>3, <2>4, <2>5 DEF BufferTyped
<1>12. CASE QueueBuffer
    <2>1. buf' \in 0..NBuf
        BY <1>12, DecoderNumbers DEF QueueBuffer, BufferTyped, Indices
    <2>2. QED
        BY <1>12, <2>1 DEF QueueBuffer, BufferTyped
<1>13. CASE QueueBufferGetter
    <2>1. call = "capAdd" => surfaces[buf] \in Ids
        BY <1>1 DEF Allocated
    <2>2. getter' \in Getters
        BY <1>1, <1>13, <2>1, GetterAdd, GetterClear DEF QueueBufferGetter
    <2>3. QED
        BY <1>2, <1>13, <2>2 DEF QueueBufferGetter
<1>14. CASE QueueBufferPost
    BY <1>14, DecoderNumbers DEF QueueBufferPost, BufferTyped
<1>15. CASE DequeBuffer
    <2>1. Head(outQ) \in Indices /\ Tail(outQ) \in Seq(Indices)
        BY <1>1, <1>15, ListTail DEF DequeBuffer
    <2>2. Len(stamp) = NBuf
        BY <1>15 DEF DequeBuffer, Clean, Allocated, Complete
    <2>3. stamp[Head(outQ)] \in Nat
        BY <1>1, <2>1, <2>2, LenProperties DEF Indices
    <2>4. QED
        BY <1>15, <2>1, <2>3 DEF DequeBuffer, BufferTyped
<1>16. CASE DequeFreeBuffer
    <2>1. Head(getter.freed) \in DOMAIN getter.used /\ HasFree(getter)
        BY <1>1, <1>16, ListTail DEF DequeFreeBuffer, HasFree
    <2>2. getter' \in Getters
        BY <1>1, <1>16, <2>1, GetterTake DEF DequeFreeBuffer
    <2>3. smap[Head(getter.freed)] \in Indices
        BY <1>1, <2>1
    <2>4. QED
        BY <1>16, <2>2, <2>3 DEF DequeFreeBuffer, BufferTyped
<1>17. CASE StreamOffOutput
    <2>1. getter' \in Getters
        BY <1>1, <1>17, GetterHoldAll DEF StreamOffOutput
    <2>2. QED
        BY <1>2, <1>17, <2>1 DEF StreamOffOutput
<1>18. CASE StreamOffOutputClear
    <2>1. <<>> \in Seq(Indices) /\ 1..count \subseteq Indices
        BY EmptySeq, DecoderNumbers DEF BufferTyped, Indices
    <2>2. QED
        BY <1>18, <2>1 DEF StreamOffOutputClear, BufferTyped
<1>19. CASE RequestBuffersReturn
    BY <1>19 DEF RequestBuffersReturn, BufferTyped
<1>20. QED
    BY <1>3, <1>4, <1>5, <1>6, <1>7, <1>8, <1>9, <1>10, <1>11, <1>12, <1>13, <1>14, <1>15, <1>16,
       <1>17, <1>18, <1>19 DEF Next, ThreadStep, ClientStep


-----------------------------------------------------------------------------
(* The change of format *)

\* The formats of the codec after it has looked at its surfaces.
LEMMA ReadyFormats ==
    ASSUME CodecTyped, BufferTyped, NEW d, d = ProfileEnsured(PoolEnsured(codec)) \/ d = Ready
    PROVE  /\ d \in Codecs /\ d.fmt = codec.fmt /\ d.made = codec.made
           /\ d.cur = codec.cur /\ d.refs = codec.refs /\ d.outs = codec.outs
           /\ \/ d.cfg = codec.cfg /\ d.pool = codec.pool
              \/ /\ codec.cfg < codec.fmt /\ d.cfg = codec.fmt
                 /\ d.pool = IF Len(surfaces) = Cardinality(DOMAIN smap)
                             THEN Range(surfaces) ELSE NoPool
           /\ Head(inQ).kind = "key" => d.cfg >= codec.fmt
           /\ d = Ready => d.gotKey = (codec.gotKey \/ Head(inQ).kind = "key")
<1>1. codec \in Codecs
    BY DEF CodecTyped
<1>2. PICK p \in Codecs : p = PoolEnsured(codec)
    BY CodecParts
<1>3. /\ p.fmt = codec.fmt /\ p.made = codec.made /\ p.gotKey = codec.gotKey
      /\ p.cur = codec.cur /\ p.refs = codec.refs /\ p.outs = codec.outs
      /\ p.cfg >= codec.fmt
      /\ \/ p.cfg = codec.cfg /\ p.pool = codec.pool
         \/ /\ codec.cfg < codec.fmt /\ p.cfg = codec.fmt
            /\ p.pool = IF Len(surfaces) = Cardinality(DOMAIN smap)
                        THEN Range(surfaces) ELSE NoPool
    <2>1. CASE codec.cfg >= codec.fmt
        BY <1>1, <1>2, <2>1 DEF PoolEnsured
    <2>2. CASE ~(codec.cfg >= codec.fmt)
        BY <1>1, <1>2, <2>2 DEF PoolEnsured, Codecs
    <2>3. QED
        BY <2>1, <2>2
<1>4. PICK q \in Codecs : q = ProfileEnsured(p)
    BY CodecParts
<1>5. /\ q.fmt = p.fmt /\ q.made = p.made /\ q.gotKey = p.gotKey /\ q.cfg = p.cfg
      /\ q.pool = p.pool /\ q.cur = p.cur /\ q.refs = p.refs /\ q.outs = p.outs
    BY <1>4 DEF ProfileEnsured, Codecs
<1>6. PICK r \in Codecs : r = [q EXCEPT !.gotKey = TRUE]
    BY CodecParts
<1>7. /\ r.fmt = q.fmt /\ r.made = q.made /\ r.cfg = q.cfg
      /\ r.pool = q.pool /\ r.cur = q.cur /\ r.refs = q.refs /\ r.outs = q.outs
      /\ r.gotKey = TRUE
    BY <1>6 DEF Codecs
<1>8. CASE d = q /\ d # Ready
    BY <1>3, <1>5, <1>8
<1>9. CASE d = r /\ Head(inQ).kind = "key"
    <2>1. d = Ready
        BY <1>2, <1>4, <1>6, <1>9 DEF Ready
    <2>2. QED
        BY <1>3, <1>5, <1>7, <1>9, <2>1
<1>10. CASE d = codec /\ Head(inQ).kind # "key"
    BY <1>1, <1>10 DEF Ready, Codecs
<1>11. QED
    <2>1. CASE d = Ready
        BY <1>2, <1>4, <1>6, <1>9, <1>10, <2>1 DEF Ready
    <2>2. CASE d # Ready
        BY <1>2, <1>4, <1>8, <2>2
    <2>3. QED
        BY <2>1, <2>2

\* What decode() does to the formats: a codec that decodes has looked at its surfaces.
LEMMA DecodeFormats ==
    ASSUME CodecTyped, BufferTyped, Change, InputFormats,
           DecodeEOS \/ DecodeFails \/ DecodeNoSurface \/ DecodePicture
    PROVE  /\ codec'.fmt = codec.fmt /\ codec'.made = codec.made
           /\ step' \in {"consume", "noSurface"}
           /\ \/ codec'.cfg = codec.cfg /\ codec'.pool = codec.pool
              \/ /\ codec.cfg < codec.fmt /\ codec'.cfg = codec.fmt
                 /\ codec'.pool = IF Len(surfaces) = Cardinality(DOMAIN smap)
                                  THEN Range(surfaces) ELSE NoPool
           /\ codec'.gotKey => codec'.cfg = codec.fmt /\ codec.fmt # 0
           /\ step' = "noSurface" => codec'.gotKey
           /\ ~codec'.gotKey => codec'.outs = codec.outs
<1>1. /\ codec \in Codecs /\ codec.cfg \in Nat /\ codec.fmt \in Nat /\ codec.cfg <= codec.fmt
      /\ inQ # <<>> /\ Head(inQ).kind \in {"key", "other", "eos"}
      /\ codec.gotKey \in BOOLEAN
    <2>1. inQ # <<>>
        BY DEF DecodeEOS, DecodeFails, DecodeNoSurface, DecodePicture, CannotDecode, CanDecode, Peek
    <2>2. codec \in Codecs /\ codec.cfg \in 0..MaxFmt /\ codec.fmt \in 0..MaxFmt /\ last \in 0..MaxFmt
        BY DEF CodecTyped, Codecs
    <2>3. codec.cfg \in Nat /\ codec.fmt \in Nat /\ last \in Nat /\ codec.gotKey \in BOOLEAN
        BY <2>2, DecoderNumbers DEF Codecs
    <2>4. QED
        BY <2>1, <2>2, <2>3, HeadTyped DEF Change
<1>2. /\ Head(inQ).kind = "key" <=> Head(inQ).fmt # 0
      /\ codec.gotKey => codec.fmt # 0
      /\ codec.gotKey /\ codec.cfg # codec.fmt => Head(inQ).kind = "key"
    BY <1>1, HeadTyped DEF InputFormats
<1>3. CASE DecodeEOS
    BY <1>1, <1>3 DEF DecodeEOS, Decoded, CodecEnded, Codecs
<1>4. PICK c \in Codecs : c = Ready
    BY ReadyTyped
<1>5. /\ c.fmt = codec.fmt /\ c.made = codec.made /\ c.outs = codec.outs
      /\ \/ c.cfg = codec.cfg /\ c.pool = codec.pool
         \/ /\ codec.cfg < codec.fmt /\ c.cfg = codec.fmt
            /\ c.pool = IF Len(surfaces) = Cardinality(DOMAIN smap)
                        THEN Range(surfaces) ELSE NoPool
      /\ Head(inQ).kind = "key" => c.cfg >= codec.fmt
      /\ c.gotKey = (codec.gotKey \/ Head(inQ).kind = "key")
    BY <1>4, ReadyFormats
<1>6. CASE DecodeFails
    <2>1. CASE Head(inQ).kind = "key"
        <3>1. PICK d : d = ProfileEnsured(PoolEnsured(codec))
            OBVIOUS
        <3>2. codec' = d /\ step' = "consume" /\ Head(inQ).fmt = codec.fmt
            BY <1>6, <2>1, <3>1 DEF DecodeFails, Decoded, CannotDecode, Peek
        <3>3. /\ d.fmt = codec.fmt /\ d.made = codec.made /\ d.outs = codec.outs
              /\ \/ d.cfg = codec.cfg /\ d.pool = codec.pool
                 \/ /\ codec.cfg < codec.fmt /\ d.cfg = codec.fmt
                    /\ d.pool = IF Len(surfaces) = Cardinality(DOMAIN smap)
                                THEN Range(surfaces) ELSE NoPool
              /\ d.cfg >= codec.fmt
            BY <2>1, <3>1, ReadyFormats
        <3>4. QED
            BY <1>1, <1>2, <2>1, <3>2, <3>3
    <2>2. CASE Head(inQ).kind # "key"
        <3>1. codec' = codec /\ step' = "consume" /\ ~codec.gotKey
            BY <1>6, <2>2 DEF DecodeFails, Decoded, CannotDecode, Peek
        <3>2. QED
            BY <3>1
    <2>3. QED
        BY <2>1, <2>2
<1>7. ASSUME CanDecode
      PROVE  c.gotKey /\ c.cfg = codec.fmt /\ codec.fmt # 0
    <2>1. Head(inQ).kind = "key" \/ codec.gotKey
        BY <1>7 DEF CanDecode, Peek
    <2>2. c.cfg \in Nat /\ c.cfg <= codec.fmt
        BY <1>1, <1>5
    <2>3. Head(inQ).kind = "key" => c.cfg = codec.fmt /\ codec.fmt # 0
        BY <1>1, <1>2, <1>5, <1>7, <2>2 DEF CanDecode, Peek
    <2>4. QED
        BY <1>1, <1>2, <1>5, <2>1, <2>2, <2>3
<1>8. CASE DecodeNoSurface
    <2>1. codec' = c /\ step' = "noSurface" /\ CanDecode
        BY <1>4, <1>8 DEF DecodeNoSurface, Decoded
    <2>2. QED
        BY <1>5, <1>7, <2>1
<1>9. CASE DecodePicture
    <2>1. /\ CanDecode /\ step' = "consume"
          /\ \E p, r : codec' = [c EXCEPT !.cur = p, !.refs = r, !.outs = Append(@, p)]
        BY <1>4, <1>9 DEF DecodePicture, Decoded
    <2>2. /\ codec'.fmt = c.fmt /\ codec'.made = c.made /\ codec'.cfg = c.cfg
          /\ codec'.pool = c.pool /\ codec'.gotKey = c.gotKey
        BY <1>4, <2>1 DEF Codecs
    <2>3. QED
        BY <1>5, <1>7, <2>1, <2>2
<1>10. QED
    BY <1>3, <1>6, <1>8, <1>9

\* A client that has its buffers and is not changing them: the codec need not wait.
LEMMA BuffersReady ==
    ASSUME CodecTyped, Protocol, Change, Allocated,
           pending = 0, step # "formatChange", codec.fmt # 0,
           phase \notin {"free", "request", "fill"}
    PROVE  AllocationDone /\ Complete
    BY DEF Change, Allocated, Complete, AllocationDone

\* Initially Change holds.
LEMMA ChangeInit == Init => Change
<1> SUFFICES ASSUME Init PROVE Change
    OBVIOUS
<1>1. codec.cfg = 0 /\ codec.fmt = 0 /\ last = 0 /\ pending = 0 /\ inQ = <<>> /\ DOMAIN inQ = {}
    BY DEF Init
<1>2. QED
    BY <1>1 DEF Init, Change

\* Every step keeps Change.
LEMMA ChangeStep ==
    ASSUME CodecTyped, BufferTyped, Protocol, Change, InputFormats, Allocated, Clean, Calm,
           [Next]_vars
    PROVE  Change'
<1> USE DEF codecVars, pipeVars, outVars, vaVars, flagVars, userVars, threadVars
<1>1. /\ codec \in Codecs /\ codec.cfg \in Nat /\ codec.fmt \in Nat /\ last \in Nat /\ pending \in Nat
      /\ inQ \in Seq(Inputs) /\ DOMAIN inQ = 1..Len(inQ)
      /\ started \in BOOLEAN /\ step \in Steps /\ state \in States /\ phase \in Phases /\ call \in Calls
      /\ event \in BOOLEAN
    BY DecoderNumbers, LenProperties DEF CodecTyped, Codecs, Protocol, ThreadTyped
<1> DEFINE Settled == /\ pending = 0 /\ codec.fmt = last
                      /\ \A n \in DOMAIN inQ : inQ[n].fmt \in {0, last}
<1>2. /\ codec.cfg <= last /\ last <= codec.fmt
      /\ pending # 0 => pending = codec.fmt /\ state \in {"kFormatChanged", "kWaitAllocation"}
      /\ pending # 0 <=> codec.fmt # last /\ step # "formatChange"
      /\ step = "formatChange" => codec.fmt # last
      /\ state = "kFormatChanged" => pending # 0
      /\ state = "kWaitAllocation" => codec.cfg < codec.fmt
      /\ event => state = "kWaitAllocation" /\ phase = "run" /\ pending # 0
      /\ state = "kWaitAllocation" /\ phase = "run" /\ ~event => "checkAllocation" \in Queued /\ pending = 0
      /\ phase \in {"event", "free"} => pending # 0
      /\ phase = "fill" => pending = 0
      /\ call = "stop" \/ phase \in {"seek", "resume", "restart"} => Settled
    BY DEF Change
<1>3. /\ step \in {"getInput", "formatChange", "noSurface", "consume"} => state = "kGetInput"
      /\ step \in {"getOutput", "put", "drop"} => state \in {"kGetOutput", "kFormatChanged"}
      /\ then = "kWaitSurface" => step \in {"getOutput", "put", "drop"} /\ state = "kGetOutput"
      /\ then \in {"none", "kWaitSurface"}
      /\ phase \in {"event", "free", "request", "fill"} => state = "kWaitAllocation"
      /\ "checkAllocation" \in Queued =>
            call = "stop" \/ (phase = "run" /\ ~event /\ state = "kWaitAllocation")
      /\ started <=> phase \in {"run", "event", "free", "request", "fill"}
      /\ started \/ call = "stop" <=> inputOn
      /\ ~inputOn => state = "kUnStarted"
      /\ "flush" \in Queued \/ step = "flush" \/ state = "kStopped" => call = "stop"
      /\ call = "stop" => phase \in {"seek", "restart"}
      /\ \A job \in {"free", "request"} : step = job => call = "send" /\ phase = job
      /\ call = "clearOut" => phase \in {"seek", "event"}
      /\ call = "send" => phase \in {"free", "request"}
    BY DEF Protocol, StepState, Handshake, ThreadTyped
\* Steps that leave the formats alone.
<1>4. ASSUME UNCHANGED <<codec, pending, last, inQ, event, phase>>,
             call' = "stop" => call = "stop" \/ Settled,
             step' = "formatChange" <=> step = "formatChange",
             \/ state' = state /\ (state = "kWaitAllocation" /\ "checkAllocation" \in Queued =>
                                     "checkAllocation" \in Queued')
             \/ state' \notin {"kWaitAllocation", "kFormatChanged"} /\ pending = 0
      PROVE  Change'
    BY <1>1, <1>2, <1>4 DEF Change
<1>5. CASE RunJob
    <2>1. PICK job \in Job : /\ job = Head(jobs) /\ Queued = {job} \cup Queued'
                             /\ "checkAllocation" \in Queued => job = "checkAllocation" \/ "checkAllocation" \in Queued'
        <3>1. /\ jobs # <<>> /\ jobs \in Seq(Job) /\ Once(jobs)
              /\ "start" \in Range(jobs) => Head(jobs) = "start"
            BY <1>5 DEF RunJob, Protocol, ThreadTyped, StartFirst, Queued
        <3>2. QED
            BY <1>5, <3>1, JobTaken DEF RunJob, Queued
    <2>2. /\ UNCHANGED <<codec, pending, last, inQ, event, phase, call>> /\ step = "none"
          /\ step' # "formatChange"
        BY <1>5, <2>1 DEF RunJob, Job
    <2>3. CASE job # "checkAllocation"
        <3>1. state' = state \/ (state' \in {"kGetInput", "kGetOutput"} /\ state \in {"kWaitInput", "kWaitOutput", "kWaitSurface"})
            BY <1>5, <2>1, <2>3 DEF RunJob
        <3>2. QED
            BY <1>2, <1>4, <2>1, <2>2, <2>3, <3>1
    <2>4. CASE job = "checkAllocation"
        <3>1. state' = IF state = "kWaitAllocation" /\ AllocationDone THEN "kGetInput" ELSE state
            BY <1>5, <2>1, <2>4 DEF RunJob
        <3>2. CASE state = "kWaitAllocation" /\ AllocationDone
            BY <1>4, <2>2, <3>1, <3>2 DEF AllocationDone
        <3>3. CASE state = "kWaitAllocation" /\ ~AllocationDone
            <4>1. call = "stop" \/ (phase = "run" /\ ~event)
                BY <1>3, <2>1, <2>4
            <4>2. CASE call = "stop"
                <5>1. pending = 0 /\ codec.fmt = last /\ codec.cfg < codec.fmt
                    BY <1>2, <3>3, <4>2
                <5>2. FALSE
                    BY <1>1, <1>3, <2>2, <3>3, <4>2, <5>1, BuffersReady
                <5>3. QED
                    BY <5>2
            <4>3. CASE phase = "run" /\ ~event
                <5>1. pending = 0 /\ codec.cfg < codec.fmt
                    BY <1>2, <3>3, <4>3
                <5>2. FALSE
                    BY <1>1, <2>2, <3>3, <4>3, <5>1, BuffersReady
                <5>3. QED
                    BY <5>2
            <4>4. QED
                BY <4>1, <4>2, <4>3
        <3>4. CASE state # "kWaitAllocation"
            BY <1>4, <2>2, <3>1, <3>4
        <3>5. QED
            BY <3>2, <3>3, <3>4
    <2>5. QED
        BY <2>3, <2>4
<1>6. CASE StartDecoder
    <2>1. /\ UNCHANGED <<pending, last, inQ, event, phase, call, jobs>>
          /\ state = "kUnStarted" /\ state' = "kGetInput" /\ step' = "getInput" /\ step = "start"
          /\ codec'.cfg = codec.cfg /\ codec'.fmt = codec.fmt
        BY <1>1, <1>6 DEF StartDecoder, Codecs
    <2>2. pending = 0
        BY <1>2, <2>1
    <2>3. QED
        BY <1>1, <1>2, <2>1, <2>2 DEF Change
<1>7. CASE FlushDecoder
    <2>1. /\ UNCHANGED <<last, inQ, event, phase, call, jobs>>
          /\ pending' = 0 /\ step = "flush" /\ state' = "kStopped" /\ step' = "none"
          /\ codec'.cfg = codec.cfg /\ codec'.fmt = codec.fmt
        BY <1>1, <1>7 DEF FlushDecoder, CodecFlushed, Codecs
    <2>2. call = "stop" /\ phase \in {"seek", "restart"} /\ Settled /\ ~event
        BY <1>2, <1>3, <2>1
    <2>3. QED
        BY <1>1, <1>2, <2>1, <2>2 DEF Change
<1>8. CASE FreeBuffers
    <2>1. /\ UNCHANGED <<codec, pending, last, inQ, event, phase, call, jobs, state>>
          /\ step = "free" /\ step' = "none"
        BY <1>8 DEF FreeBuffers
    <2>2. QED
        BY <1>4, <2>1 DEF Queued
<1>9. CASE RequestBuffers
    <2>1. /\ UNCHANGED <<codec, inQ, event, phase, call, jobs, state>>
          /\ step = "request" /\ step' = "none" /\ pending' = 0
          /\ last' = IF pending # 0 THEN pending ELSE last
        BY <1>9 DEF RequestBuffers
    <2>2. phase = "request" /\ call = "send" /\ state = "kWaitAllocation" /\ ~event
        BY <1>2, <1>3, <2>1
    <2>3. last' = codec.fmt /\ last <= last'
        BY <1>1, <1>2, <2>1
    <2>4. QED
        BY <1>1, <1>2, <2>1, <2>2, <2>3 DEF Change
<1>10. CASE DecodeEOS \/ DecodeFails \/ DecodeNoSurface \/ DecodePicture
    <2>1. /\ codec'.fmt = codec.fmt /\ codec'.cfg \in {codec.cfg, codec.fmt}
          /\ step' \in {"consume", "noSurface"}
        BY <1>10, DecodeFormats
    <2>2. /\ UNCHANGED <<pending, last, inQ, event, phase, call, jobs, state>> /\ step = "getInput"
        BY <1>10 DEF DecodeEOS, DecodeFails, DecodeNoSurface, DecodePicture, Decoded, CanDecode,
           CannotDecode, Peek
    <2>3. state = "kGetInput" /\ pending = 0 /\ codec.fmt = last /\ ~event
        BY <1>2, <1>3, <2>2
    <2>4. QED
        BY <1>1, <1>2, <2>1, <2>2, <2>3 DEF Change, Queued
<1>11. CASE DecodeFormatChange
    <2>1. /\ UNCHANGED <<pending, last, inQ, event, phase, call, jobs, state>> /\ step = "getInput"
          /\ step' = "formatChange" /\ codec'.fmt = Head(inQ).fmt /\ codec'.cfg = codec.cfg
          /\ inQ # <<>> /\ Head(inQ).kind = "key" /\ Head(inQ).fmt # codec.fmt
        BY <1>1, <1>11 DEF DecodeFormatChange, Decoded, Peek, Codecs
    <2>2. /\ Head(inQ).fmt \in Nat /\ Head(inQ).fmt >= codec.fmt /\ Head(inQ).fmt # 0
          /\ \E n \in DOMAIN inQ : inQ[n] = Head(inQ)
        BY <1>1, <2>1, HeadTyped, DecoderNumbers DEF InputFormats
    <2>3. state = "kGetInput" /\ pending = 0 /\ codec.fmt = last /\ ~event
        BY <1>2, <1>3, <2>1
    <2>4. ~Settled
        BY <2>1, <2>2, <2>3
    <2>5. QED
        BY <1>1, <1>2, <1>3, <2>1, <2>2, <2>3, <2>4 DEF Change
<1>12. CASE FormatChange
    <2>1. /\ UNCHANGED <<codec, last, inQ, event, phase, call, jobs>> /\ step = "formatChange"
          /\ state' = "kFormatChanged" /\ step' = "getOutput"
          /\ pending' = IF codec.fmt # last THEN codec.fmt ELSE pending
        BY <1>12 DEF FormatChange
    <2>2. pending' = codec.fmt /\ codec.fmt # last /\ state = "kGetInput" /\ codec.fmt # 0
        BY <1>1, <1>2, <1>3, <2>1
    <2>3. QED
        BY <1>1, <1>2, <1>3, <2>1, <2>2 DEF Change
<1>13. CASE NoSurface
    <2>1. /\ UNCHANGED <<codec, pending, last, inQ, phase, call, jobs>> /\ step = "noSurface"
        BY <1>13 DEF NoSurface
    <2>2. state = "kGetInput" /\ pending = 0 /\ codec.fmt # 0
        BY <1>2, <1>3, <2>1 DEF InputFormats
    <2>3. AllocationDone
        BY <1>3, <2>1, <2>2, BuffersReady
    <2>4. state' = "kGetOutput" /\ step' = "getOutput" /\ event' = event
        BY <1>13, <2>3 DEF NoSurface
    <2>5. QED
        BY <1>4, <2>1, <2>2, <2>4
<1>14. CASE Consume
    <2>1. /\ UNCHANGED <<codec, pending, last, event, phase, call>> /\ step = "consume" /\ step' = "none"
          /\ inQ' = Tail(inQ) /\ state' \in {state, "kGetOutput"}
        BY <1>14 DEF Consume
    <2>2. state = "kGetInput" /\ pending = 0
        BY <1>2, <1>3, <2>1
    <2>3. \A n \in DOMAIN inQ' : \E k \in DOMAIN inQ : inQ'[n] = inQ[k]
        <3>1. inQ # <<>>
            BY <2>1 DEF InputFormats
        <3>2. Range(inQ') \subseteq Range(inQ)
            BY <1>1, <2>1, <3>1, ListTail
        <3>3. QED
            BY <3>2 DEF Range
    <2>4. QED
        BY <1>1, <1>2, <2>1, <2>2, <2>3 DEF Change
<1>15. CASE OutputEmpty
    <2>1. /\ UNCHANGED <<codec, pending, last, inQ, phase, call>> /\ step = "getOutput" /\ step' = "none"
        BY <1>15 DEF OutputEmpty
    <2>2. CASE state = "kFormatChanged"
        <3>1. pending # 0 /\ phase = "run" /\ call # "stop"
            BY <1>1, <1>2, <1>3, <2>2 DEF Phases
        <3>2. state' = "kWaitAllocation" /\ event' = TRUE
            BY <1>15, <2>2, <3>1 DEF OutputEmpty, AllocationDone
        <3>3. codec.cfg < codec.fmt
            BY <1>1, <1>2, <3>1
        <3>4. QED
            BY <1>1, <1>2, <2>1, <3>1, <3>2, <3>3 DEF Change
    <2>3. CASE state = "kGetOutput"
        <3>1. pending = 0 /\ state' \in {"kGetInput", "kWaitSurface"} /\ event' = event
            BY <1>2, <1>3, <1>15, <2>3 DEF OutputEmpty
        <3>2. QED
            BY <1>4, <2>1, <3>1
    <2>4. QED
        BY <1>3, <2>1, <2>2, <2>3
<1>16. CASE OutputHold
    <2>1. /\ UNCHANGED <<pending, last, inQ, event, phase, call, jobs, state>>
          /\ step = "getOutput" /\ step' = "put"
          /\ codec'.cfg = codec.cfg /\ codec'.fmt = codec.fmt
        BY <1>1, <1>16 DEF OutputHold, Codecs
    <2>2. QED
        BY <1>1, <1>2, <2>1 DEF Change, Queued
<1>17. CASE OutputPut \/ OutputDrop
    <2>1. /\ UNCHANGED <<codec, pending, last, inQ, event, phase, call, jobs, state>>
          /\ step \in {"put", "drop"} /\ step' \in {"drop", "getOutput"}
        BY <1>17 DEF OutputPut, OutputDrop
    <2>2. QED
        BY <1>4, <2>1 DEF Queued
<1>18. CASE StreamOnInput
    <2>1. /\ UNCHANGED <<codec, pending, last, inQ, event, call, state, step>>
          /\ phase = "restart" /\ phase' = "run" /\ ~inputOn /\ call = "none"
        BY <1>18 DEF StreamOnInput
    <2>2. state = "kUnStarted" /\ ~event
        BY <1>2, <1>3, <2>1
    <2>3. QED
        BY <1>1, <1>2, <2>1, <2>2 DEF Change
<1>19. CASE QueueInput
    <2>1. /\ UNCHANGED <<codec, pending, last, event, phase, state, step, jobs>>
          /\ phase # "seek" /\ inputOn /\ call = "none" /\ call' = "inPost"
        BY <1>19 DEF QueueInput
    <2>2. phase \notin {"seek", "resume", "restart"}
        BY <1>3, <2>1
    <2>3. QED
        BY <1>1, <1>2, <2>1, <2>2 DEF Change, Queued
<1>20. CASE \/ QueueInputPost \/ DequeInput \/ QueueNewBuffer \/ QueueBuffer \/ QueueBufferGetter
            \/ QueueBufferPost \/ DequeBuffer \/ DequeFreeBuffer \/ StreamOffOutput \/ RequestBuffersSend
            \/ UNCHANGED vars
    <2>1. /\ UNCHANGED <<codec, pending, last, inQ, event, phase, state, step>>
          /\ call' = "stop" => call = "stop"
        BY <1>20 DEF QueueInputPost, DequeInput, QueueNewBuffer, QueueBuffer, QueueBufferGetter,
           QueueBufferPost, DequeBuffer, DequeFreeBuffer, StreamOffOutput, RequestBuffersSend, vars
    <2>2. jobs' = jobs \/ \E j \in Job : jobs' = Append(jobs, j)
        BY <1>20, <1>3 DEF QueueInputPost, DequeInput, QueueNewBuffer, QueueBuffer, QueueBufferGetter,
           QueueBufferPost, DequeBuffer, DequeFreeBuffer, StreamOffOutput, RequestBuffersSend, vars,
           Posted, Job
    <2>3. Queued \subseteq Queued'
        <3>1. jobs \in Seq(Job)
            BY DEF Protocol, ThreadTyped
        <3>2. \A j \in Job : Range(Append(jobs, j)) = Range(jobs) \cup {j}
            BY <3>1, ListAppend
        <3>3. QED
            BY <2>2, <3>2 DEF Queued
    <2>4. QED
        BY <1>4, <2>1, <2>3
<1>21. CASE StreamOnOutput
    <2>1. /\ UNCHANGED <<codec, pending, last, inQ, event, state, step, call>>
          /\ jobs' = Posted("checkAllocation") /\ call = "none"
          /\ (phase = "fill" /\ phase' = "run") \/ (phase = "resume" /\ phase' = "restart")
        BY <1>21 DEF StreamOnOutput
    <2>2. CASE phase = "fill" /\ phase' = "run"
        <3>1. "checkAllocation" \in Queued' /\ pending = 0 /\ ~event
            BY <1>2, <1>3, <2>1, <2>2, ListAppend DEF Queued, Protocol, ThreadTyped, Posted, Job
        <3>2. QED
            BY <1>1, <1>2, <2>1, <2>2, <3>1 DEF Change
    <2>3. CASE phase = "resume" /\ phase' = "restart"
        BY <1>1, <1>2, <2>1, <2>3 DEF Change
    <2>4. QED
        BY <2>1, <2>2, <2>3
<1>22. CASE StreamOffOutputClear
    <2>1. /\ UNCHANGED <<codec, pending, last, inQ, event, state, step, jobs>>
          /\ call = "clearOut" /\ call' = "none"
          /\ phase' = IF phase = "event" THEN "free" ELSE "resume"
        BY <1>22 DEF StreamOffOutputClear
    <2>2. QED
        BY <1>1, <1>2, <1>3, <2>1 DEF Change, Queued
<1>23. CASE DequeEvent
    <2>1. /\ UNCHANGED <<codec, pending, last, inQ, state, step, jobs, call>>
          /\ phase = "run" /\ event /\ ~event' /\ call = "none" /\ phase' \in {"event", "free"}
        BY <1>23 DEF DequeEvent
    <2>2. QED
        BY <1>1, <1>2, <2>1 DEF Change
<1>24. CASE RequestBuffersReturn
    <2>1. /\ UNCHANGED <<codec, pending, last, inQ, event, state, step, jobs>>
          /\ call = "send" /\ call' = "none" /\ step # phase
          /\ phase' = IF phase = "free" THEN "request" ELSE "fill"
          /\ ~\E i \in 1..Len(jobs) : jobs[i] = phase
        BY <1>24 DEF RequestBuffersReturn
    <2>2. phase \notin Queued
        <3>1. DOMAIN jobs = 1..Len(jobs)
            BY LenProperties DEF Protocol, ThreadTyped
        <3>2. QED
            BY <2>1, <3>1 DEF Queued, Range
    <2>3. phase = "request" => pending = 0
        BY <2>1, <2>2 DEF Allocated
    <2>4. QED
        BY <1>1, <1>2, <1>3, <2>1, <2>3 DEF Change
<1>25. CASE StreamOffInput
    <2>1. /\ UNCHANGED <<codec, pending, last, inQ, event, state, step>>
          /\ call = "none" /\ call' = "stop" /\ phase = "run" /\ phase' \in {"seek", "restart"}
          /\ NoChange
        BY <1>25 DEF StreamOffInput, Calm
    <2>2. Settled /\ ~event
        BY <1>1, <2>1 DEF NoChange
    <2>3. QED
        BY <1>1, <1>2, <2>1, <2>2 DEF Change
<1>26. CASE StreamOffInputDone
    <2>1. /\ UNCHANGED <<codec, pending, last, event, phase, step, jobs>>
          /\ call = "stop" /\ call' = "none" /\ state' = "kUnStarted"
          /\ DOMAIN inQ' = {}
        BY <1>26 DEF StreamOffInputDone
    <2>2. Settled /\ ~event /\ phase \in {"seek", "restart"}
        BY <1>2, <1>3, <2>1
    <2>3. QED
        BY <1>1, <1>2, <2>1, <2>2 DEF Change
<1>27. CASE NoInput
    <2>1. /\ UNCHANGED <<codec, pending, last, inQ, event, phase, call>>
          /\ step = "getInput" /\ step' = "none" /\ state' = "kWaitInput"
        BY <1>27 DEF NoInput
    <2>2. QED
        BY <1>2, <1>3, <1>4, <2>1
<1>28. QED
    BY <1>27, <1>5, <1>6, <1>7, <1>8, <1>9, <1>10, <1>11, <1>12, <1>13, <1>14, <1>15, <1>16, <1>17, <1>18,
       <1>19, <1>20, <1>21, <1>22, <1>23, <1>24, <1>25, <1>26 DEF Next, ThreadStep, ClientStep

-----------------------------------------------------------------------------
(* The formats of the input *)

\* Initially InputFormats holds.
LEMMA InputFormatsInit == Init => InputFormats
<1> SUFFICES ASSUME Init PROVE InputFormats
    OBVIOUS
<1>1. DOMAIN inQ = {} /\ codec.gotKey = FALSE /\ step = "none"
    BY DEF Init
<1>2. QED
    BY <1>1 DEF InputFormats

\* Every step keeps InputFormats.
LEMMA InputFormatsStep ==
    ASSUME CodecTyped, BufferTyped, Protocol, Change, InputFormats, Clean, Calm, [Next]_vars
    PROVE  InputFormats'
<1> USE DEF codecVars, pipeVars, outVars, vaVars, flagVars, userVars, threadVars
<1>1. /\ codec \in Codecs /\ codec.fmt \in Nat /\ codec.gotKey \in BOOLEAN
      /\ inQ \in Seq(Inputs) /\ DOMAIN inQ = 1..Len(inQ) /\ Len(inQ) \in Nat
      /\ \A n \in DOMAIN inQ : inQ[n].fmt \in Nat
    <2>1. inQ \in Seq(Inputs) /\ DOMAIN inQ = 1..Len(inQ) /\ Len(inQ) \in Nat /\ codec \in Codecs
        BY LenProperties DEF CodecTyped
    <2>2. \A n \in DOMAIN inQ : inQ[n].fmt \in Nat
        <3>1. \A n \in DOMAIN inQ : inQ[n] \in Inputs
            BY <2>1, ElementOfSeq
        <3>2. \A e \in Inputs : e.fmt \in Nat
            BY DecoderNumbers DEF Inputs
        <3>3. QED
            BY <3>1, <3>2
    <2>3. codec.fmt \in Nat /\ codec.gotKey \in BOOLEAN
        BY <2>1, DecoderNumbers DEF Codecs
    <2>4. QED
        BY <2>1, <2>2, <2>3
<1>2. ASSUME inQ' = inQ, codec'.fmt = codec.fmt, codec'.cfg = codec.cfg,
             codec'.gotKey = codec.gotKey, step' = step \/ step' \notin {"noSurface", "consume"}
      PROVE  InputFormats'
    BY <1>2 DEF InputFormats
<1>3. CASE \/ RunJob \/ FreeBuffers \/ RequestBuffers \/ NoInput \/ FormatChange \/ NoSurface
           \/ OutputEmpty \/ OutputPut \/ OutputDrop
    BY <1>2, <1>3 DEF RunJob, FreeBuffers, RequestBuffers, NoInput, FormatChange, NoSurface,
       OutputEmpty, OutputPut, OutputDrop
<1>4. CASE \/ StreamOnInput \/ QueueInputPost \/ DequeInput
           \/ QueueNewBuffer \/ QueueBuffer \/ QueueBufferGetter \/ QueueBufferPost
           \/ DequeBuffer \/ DequeFreeBuffer \/ StreamOnOutput \/ StreamOffOutput
           \/ StreamOffOutputClear \/ DequeEvent \/ RequestBuffersSend \/ RequestBuffersReturn
           \/ StreamOffInput \/ UNCHANGED vars
    BY <1>2, <1>4 DEF StreamOnInput, QueueInputPost, DequeInput, QueueNewBuffer, QueueBuffer,
       QueueBufferGetter, QueueBufferPost, DequeBuffer, DequeFreeBuffer, StreamOnOutput,
       StreamOffOutput, StreamOffOutputClear, DequeEvent, RequestBuffersSend,
       RequestBuffersReturn, StreamOffInput, vars
<1>5. CASE StartDecoder
    BY <1>1, <1>2, <1>5 DEF StartDecoder, Codecs
<1>6. CASE FlushDecoder
    <2>1. inQ' = inQ /\ step' = "none"
        BY <1>6 DEF FlushDecoder
    <2>2. codec'.fmt = codec.fmt /\ codec'.gotKey = FALSE
        <3>1. CASE codec.made
            BY <1>1, <1>6, <3>1 DEF FlushDecoder, CodecFlushed, Codecs
        <3>2. CASE ~codec.made
            BY <1>1, <1>6, <3>2 DEF FlushDecoder, Clean, CodecClean
        <3>3. QED
            BY <3>1, <3>2
    <2>3. QED
        BY <2>1, <2>2 DEF InputFormats
<1>7. CASE OutputHold
    BY <1>1, <1>2, <1>7 DEF OutputHold, Codecs
<1>8. CASE DecodeEOS \/ DecodeFails \/ DecodeNoSurface \/ DecodePicture
    <2>1. inQ' = inQ /\ inQ # <<>>
        BY <1>8 DEF DecodeEOS, DecodeFails, DecodeNoSurface, DecodePicture, Decoded, CanDecode,
           CannotDecode, Peek
    <2>2. /\ codec'.fmt = codec.fmt /\ (step' = "noSurface" => codec'.gotKey)
          /\ codec'.gotKey => codec'.cfg = codec.fmt /\ codec.fmt # 0
        BY <1>8, DecodeFormats
    <2>3. QED
        BY <2>1, <2>2 DEF InputFormats
<1>9. CASE DecodeFormatChange
    <2>1. /\ inQ' = inQ /\ inQ # <<>> /\ Head(inQ).kind = "key" /\ step' = "formatChange"
          /\ codec'.fmt = Head(inQ).fmt /\ codec'.gotKey = codec.gotKey
        BY <1>1, <1>9 DEF DecodeFormatChange, Decoded, Peek, Codecs
    <2>2. 1 \in DOMAIN inQ /\ inQ[1] = Head(inQ)
        BY <2>1, HeadTyped
    <2>3. \A n \in DOMAIN inQ : inQ[n].kind = "key" => inQ[n].fmt >= codec'.fmt
        <3>1. \A n \in DOMAIN inQ : n = 1 \/ 1 < n
            BY <1>1
        <3>2. QED
            BY <1>1, <2>1, <2>2, <3>1 DEF InputFormats
    <2>4. codec'.fmt # 0
        BY <2>1, <2>2 DEF InputFormats
    <2>5. QED
        BY <2>1, <2>3, <2>4 DEF InputFormats
<1>10. CASE Consume
    <2>1. /\ inQ # <<>> /\ inQ' = Tail(inQ) /\ codec' = codec /\ step = "consume" /\ step' = "none"
        BY <1>10 DEF Consume, InputFormats
    <2>2. codec.gotKey => codec.cfg = codec.fmt
        BY <2>1 DEF InputFormats
    <2>3. Len(inQ) > 0
        BY <1>1, <2>1, EmptySeq
    <2>4. /\ inQ' \in Seq(Inputs) /\ Len(inQ') = Len(inQ) - 1
          /\ \A n \in 1..Len(inQ') : inQ'[n] = inQ[n + 1]
        BY <1>1, <2>1, HeadTailProperties
    <2>5. DOMAIN inQ' = 1..(Len(inQ) - 1)
        BY <2>4, LenProperties
    <2>6. \A n \in DOMAIN inQ' : inQ'[n] = inQ[n + 1] /\ n + 1 \in DOMAIN inQ
        BY <1>1, <2>3, <2>4, <2>5
    <2>7. \A m, n \in DOMAIN inQ' : m < n => m + 1 < n + 1
        BY <1>1, <2>5
    <2>8. /\ \A n \in DOMAIN inQ' : /\ inQ'[n].kind = "key" <=> inQ'[n].fmt # 0
                                    /\ inQ'[n].kind = "key" => inQ'[n].fmt >= codec.fmt
        BY <2>6 DEF InputFormats
    <2>9. \A m, n \in DOMAIN inQ' :
             m < n /\ inQ'[m].kind = "key" /\ inQ'[n].kind = "key" => inQ'[m].fmt <= inQ'[n].fmt
        BY <2>6, <2>7 DEF InputFormats
    <2>10. QED
        BY <2>1, <2>2, <2>8, <2>9 DEF InputFormats
<1>11. CASE QueueInput
    <2>1. UNCHANGED <<codec, step>>
        BY <1>11 DEF QueueInput
    <2>2. PICK e : /\ inQ' = Append(inQ, e) /\ e.fmt \in Nat /\ e \in Inputs
                   /\ e.kind = "key" <=> e.fmt # 0
                   /\ e.kind = "key" => e.fmt >= codec.fmt /\ \A n \in DOMAIN inQ : inQ[n].fmt <= e.fmt
        <3>1. CASE \E kind \in {"other", "eos"} :
                      inQ' = Append(inQ, [kind |-> kind, fmt |-> 0, ts |-> sent + 1])
            <4>1. PICK kind \in {"other", "eos"} :
                      inQ' = Append(inQ, [kind |-> kind, fmt |-> 0, ts |-> sent + 1])
                BY <3>1
            <4> DEFINE e == [kind |-> kind, fmt |-> 0, ts |-> sent + 1]
            <4>2. e \in Inputs /\ e.fmt = 0 /\ e.kind # "key"
                BY DecoderNumbers DEF Inputs, CodecTyped
            <4> HIDE DEF e
            <4>3. inQ' = Append(inQ, e)
                BY <4>1 DEF e
            <4>4. QED
                BY <4>2, <4>3
        <3>2. CASE \E fmt \in Formats :
                      /\ Shrinks \/ \A g \in {codec.fmt} \cup {inQ[i].fmt : i \in 1..Len(inQ)} : fmt >= g
                      /\ inQ' = Append(inQ, [kind |-> "key", fmt |-> fmt, ts |-> sent + 1])
            <4>1. PICK fmt \in Formats :
                      /\ \A g \in {codec.fmt} \cup {inQ[i].fmt : i \in 1..Len(inQ)} : fmt >= g
                      /\ inQ' = Append(inQ, [kind |-> "key", fmt |-> fmt, ts |-> sent + 1])
                BY <3>2 DEF Calm
            <4> DEFINE e == [kind |-> "key", fmt |-> fmt, ts |-> sent + 1]
            <4>2. e \in Inputs /\ e.fmt = fmt /\ e.kind = "key" /\ fmt \in Nat /\ fmt # 0
                BY DecoderNumbers DEF Inputs, CodecTyped, Formats
            <4>3. fmt >= codec.fmt /\ \A n \in DOMAIN inQ : inQ[n].fmt <= fmt
                BY <1>1, <4>1, <4>2
            <4> HIDE DEF e
            <4>4. inQ' = Append(inQ, e)
                BY <4>1 DEF e
            <4>5. QED
                BY <4>2, <4>3, <4>4
        <3>3. QED
            BY <1>11, <3>1, <3>2 DEF QueueInput
    <2>3. /\ Len(inQ') = Len(inQ) + 1 /\ inQ' \in Seq(Inputs)
          /\ \A n \in 1..Len(inQ) : inQ'[n] = inQ[n]
          /\ inQ'[Len(inQ) + 1] = e
        BY <1>1, <2>2, AppendProperties
    <2>4. DOMAIN inQ' = 1..(Len(inQ) + 1)
        BY <2>3, LenProperties
    <2>5. \A n \in DOMAIN inQ' : (n \in DOMAIN inQ /\ inQ'[n] = inQ[n]) \/ (n = Len(inQ) + 1 /\ inQ'[n] = e)
        BY <1>1, <2>3, <2>4
    <2>6. \A m, n \in DOMAIN inQ' : m < n => m \in DOMAIN inQ
        BY <1>1, <2>4
    <2>7. \A n \in DOMAIN inQ' : /\ inQ'[n].kind = "key" <=> inQ'[n].fmt # 0
                                 /\ inQ'[n].kind = "key" => inQ'[n].fmt >= codec.fmt
        BY <2>2, <2>5 DEF InputFormats
    <2>8. \A m, n \in DOMAIN inQ' :
             m < n /\ inQ'[m].kind = "key" /\ inQ'[n].kind = "key" => inQ'[m].fmt <= inQ'[n].fmt
        BY <1>1, <2>2, <2>3, <2>5, <2>6 DEF InputFormats
    <2>9. inQ' # <<>> /\ (inQ # <<>> => Head(inQ') = Head(inQ))
        <3>1. inQ' # <<>> /\ Head(inQ') = inQ'[1]
            BY <1>1, <2>3, EmptySeq, HeadTailProperties
        <3>2. inQ # <<>> => Head(inQ) = inQ[1] /\ 1 \in 1..Len(inQ)
            BY <1>1, EmptySeq, HeadTailProperties
        <3>3. QED
            BY <2>3, <3>1, <3>2
    <2>10. QED
        BY <2>1, <2>7, <2>8, <2>9 DEF InputFormats
<1>12. CASE StreamOffInputDone
    <2>1. UNCHANGED <<codec, step>> /\ DOMAIN inQ' = {} /\ step = "none" /\ call = "stop" /\ jobs = <<>>
        BY <1>12 DEF StreamOffInputDone
    <2>2. state = "kStopped"
        BY <2>1, ListEmpty DEF Protocol, Handshake, Queued
    <2>3. codec.gotKey = FALSE
        BY <1>1, <2>2 DEF Clean, CodecClean
    <2>4. QED
        BY <2>1, <2>3 DEF InputFormats
<1>13. QED
    BY <1>3, <1>4, <1>5, <1>6, <1>7, <1>8, <1>9, <1>10, <1>11, <1>12 DEF Next, ThreadStep, ClientStep

-----------------------------------------------------------------------------
(* The buffers of an allocation *)

\* What the states of the thread and of the client say of each other.
LEMMA ThreadFacts ==
    ASSUME Protocol, Change
    PROVE  /\ jobs \in Seq(Job) /\ started \in BOOLEAN /\ step \in Steps /\ state \in States
           /\ phase \in Phases /\ call \in Calls /\ then \in {"none", "kWaitSurface"}
           /\ inputOn \in BOOLEAN /\ outputOn \in BOOLEAN /\ event \in BOOLEAN
           /\ step \in {"getInput", "formatChange", "noSurface", "consume"} => state = "kGetInput"
           /\ step \in {"getOutput", "put", "drop"} => state \in {"kGetOutput", "kFormatChanged"}
           /\ state = "kFormatChanged" => step \in {"getOutput", "put", "drop"}
           /\ then = "kWaitSurface" => step \in {"getOutput", "put", "drop"} /\ state = "kGetOutput"
           /\ phase \in {"event", "free", "request", "fill"} => state = "kWaitAllocation"
           /\ started <=> phase \in {"run", "event", "free", "request", "fill"}
           /\ started \/ call = "stop" <=> inputOn
           /\ ~inputOn => jobs = <<>> /\ step = "none" /\ state = "kUnStarted"
           /\ "flush" \in Queued \/ step = "flush" \/ state = "kStopped" => call = "stop"
           /\ call = "stop" => phase \in {"seek", "restart"}
           /\ "start" \in Queued \/ step = "start" => state = "kUnStarted"
           /\ \A job \in {"free", "request"} : job \in Queued \/ step = job => call = "send" /\ phase = job
           /\ call = "send" => phase \in {"free", "request"}
           /\ call = "capAdd" => phase = "fill"
           /\ call = "capFree" => phase = "run"
           /\ call = "clearOut" => phase \in {"seek", "event"} /\ ~outputOn
           /\ pending # 0 => state \in {"kFormatChanged", "kWaitAllocation"}
    BY DEF Protocol, StepState, Handshake, ThreadTyped, StartFirst, Change

\* m_thread works on its streams only while it is not waiting for an allocation.
LEMMA ThreadAtWork ==
    ASSUME Protocol, Change,
           \/ StartDecoder \/ FlushDecoder \/ NoInput \/ DecodeEOS \/ DecodeFormatChange
           \/ DecodeFails \/ DecodeNoSurface \/ DecodePicture \/ FormatChange \/ NoSurface
           \/ Consume \/ OutputEmpty \/ OutputHold \/ OutputPut \/ OutputDrop
    PROVE  /\ phase \in {"run", "seek", "resume", "restart"}
           /\ UNCHANGED <<last, count, surfaces, smap, phase, call, buf, mine, seen, sent, started, inputOn,
                          outputOn, vaVars>>
<1>1. \/ step \in {"getInput", "formatChange", "noSurface", "consume", "getOutput", "put", "drop", "flush"}
      \/ state = "kUnStarted"
    BY DEF StartDecoder, FlushDecoder, NoInput, DecodeEOS, DecodeFormatChange, DecodeFails,
       DecodeNoSurface, DecodePicture, FormatChange, NoSurface, Consume, OutputEmpty, OutputHold,
       OutputPut, OutputDrop, Peek, CanDecode, CannotDecode
<1>2. phase \in {"run", "seek", "resume", "restart"}
    BY <1>1, ThreadFacts DEF Phases
<1>3. UNCHANGED <<last, count, surfaces, smap, phase, call, buf, mine, seen, sent, started, inputOn,
                  outputOn, vaVars>>
    BY DEF StartDecoder, FlushDecoder, NoInput, DecodeEOS, DecodeFormatChange, DecodeFails,
       DecodeNoSurface, DecodePicture, FormatChange, NoSurface, Consume, OutputEmpty, OutputHold,
       OutputPut, OutputDrop, Decoded, userVars, outVars, flagVars, pipeVars, vaVars
<1>4. QED
    BY <1>2, <1>3

\* The getter knows surfaces of the present allocation, and lists known ones.
GetterKnows ==
    /\ DOMAIN getter.used \subseteq DOMAIN smap \cap Range(surfaces)
    /\ Range(getter.freed) \subseteq DOMAIN getter.used

\* Every step keeps GetterKnows.
LEMMA GetterKnowsStep ==
    ASSUME CodecTyped, BufferTyped, Protocol, Change, Allocated, [Next]_vars
    PROVE  GetterKnows'
<1> USE DEF codecVars, pipeVars, outVars, vaVars, flagVars, userVars, threadVars
<1>1. /\ getter \in Getters /\ getter.freed \in Seq(Ids) /\ DOMAIN getter.used \subseteq Ids
      /\ DOMAIN getter.used \subseteq DOMAIN smap \cap Range(surfaces)
      /\ Range(getter.freed) \subseteq DOMAIN getter.used
      /\ "renderer" \in Holders /\ "decoder" \in Holders
    BY GetterParts DEF BufferTyped, Allocated, Holders
<1>2. ASSUME UNCHANGED <<surfaces, smap, getter>> PROVE GetterKnows'
    BY <1>1, <1>2 DEF GetterKnows
<1>3. ASSUME UNCHANGED <<surfaces, smap>>, DOMAIN getter'.used = DOMAIN getter.used,
             Range(getter'.freed) \subseteq DOMAIN getter.used
      PROVE  GetterKnows'
    BY <1>1, <1>3 DEF GetterKnows
<1>4. CASE \/ RunJob \/ StartDecoder \/ NoInput \/ FormatChange \/ NoSurface \/ Consume
           \/ OutputEmpty \/ OutputPut
    BY <1>2, <1>4 DEF RunJob, StartDecoder, NoInput, FormatChange, NoSurface, Consume,
       OutputEmpty, OutputPut
<1>5. CASE \/ StreamOnInput \/ QueueInput \/ QueueInputPost \/ DequeInput \/ QueueBuffer
           \/ QueueBufferPost \/ DequeBuffer \/ StreamOnOutput \/ StreamOffOutputClear
           \/ DequeEvent \/ RequestBuffersSend \/ RequestBuffersReturn
           \/ StreamOffInput \/ StreamOffInputDone \/ UNCHANGED vars
    BY <1>2, <1>5 DEF StreamOnInput, QueueInput, QueueInputPost, DequeInput, QueueBuffer,
       QueueBufferPost, DequeBuffer, StreamOnOutput, StreamOffOutputClear, DequeEvent,
       RequestBuffersSend, RequestBuffersReturn, StreamOffInput, StreamOffInputDone, vars
<1>6. CASE \/ FlushDecoder \/ DecodeEOS \/ DecodeFormatChange \/ DecodeFails \/ DecodeNoSurface
           \/ DecodePicture
    <2>1. UNCHANGED <<surfaces, smap>>
        BY <1>6 DEF FlushDecoder, DecodeEOS, DecodeFormatChange, DecodeFails, DecodeNoSurface,
           DecodePicture, Decoded
    <2>2. DOMAIN getter'.used = DOMAIN getter.used /\ Range(getter'.freed) \subseteq DOMAIN getter.used
        BY <1>6, GetterStep
    <2>3. QED
        BY <1>3, <2>1, <2>2
<1>7. CASE FreeBuffers
    <2>1. getter' = EmptyGetter
        BY <1>7 DEF FreeBuffers
    <2>2. QED
        BY <2>1, GetterEmpty, ListEmpty DEF GetterKnows
<1>8. CASE RequestBuffers
    <2>1. phase = "request" /\ getter' = getter
        BY <1>8, ThreadFacts DEF RequestBuffers
    <2>2. getter' = EmptyGetter
        BY <2>1 DEF Allocated
    <2>3. QED
        BY <2>2, GetterEmpty, ListEmpty DEF GetterKnows
<1>9. CASE OutputHold
    <2>1. UNCHANGED <<surfaces, smap>> /\ getter' = SetFlag(getter, frame'.id, "renderer")
        BY <1>9 DEF OutputHold
    <2>2. getter'.freed = getter.freed /\ DOMAIN getter'.used = DOMAIN getter.used
        BY <1>1, <2>1, GetterSet
    <2>3. QED
        BY <1>1, <1>3, <2>1, <2>2
<1>10. ASSUME NEW s, NEW h \in Holders, UNCHANGED <<surfaces, smap>>, getter' = ClearFlag(getter, s, h)
       PROVE  GetterKnows'
    <2>1. /\ DOMAIN getter'.used = DOMAIN getter.used
          /\ \/ getter'.freed = getter.freed
             \/ s \in DOMAIN getter.used /\ getter'.freed = Append(getter.freed, s)
        BY <1>1, <1>10, GetterClear
    <2>2. Range(getter'.freed) \subseteq DOMAIN getter.used
        <3>1. CASE getter'.freed = getter.freed
            BY <1>1, <3>1
        <3>2. CASE s \in DOMAIN getter.used /\ getter'.freed = Append(getter.freed, s)
            <4>1. s \in Ids
                BY <1>1, <3>2
            <4>2. Range(Append(getter.freed, s)) = Range(getter.freed) \cup {s}
                BY <1>1, <4>1, ListAppend
            <4>3. QED
                BY <1>1, <3>2, <4>2
        <3>3. QED
            BY <2>1, <3>1, <3>2
    <2>3. QED
        BY <1>3, <1>10, <2>1, <2>2
<1>11. CASE OutputDrop
    BY <1>1, <1>2, <1>10, <1>11 DEF OutputDrop
<1>12. CASE QueueNewBuffer
    <2>1. PICK i \in mine, s \in Ids :
             /\ surfaces' = [surfaces EXCEPT ![i] = s] /\ surfaces[i] = 0
             /\ smap' = [t \in DOMAIN smap \cup {s} |-> IF t = s THEN i ELSE smap[t]]
        BY <1>12 DEF QueueNewBuffer
    <2>2. getter' = getter /\ DOMAIN smap' = DOMAIN smap \cup {s}
        BY <1>12, <2>1 DEF QueueNewBuffer
    <2>3. ASSUME NEW t \in DOMAIN getter.used PROVE t \in Range(surfaces')
        <3>1. PICK j \in DOMAIN surfaces : surfaces[j] = t
            BY <1>1, <2>3 DEF Range
        <3>2. t # 0
            BY <1>1, <2>3, DecoderNumbers
        <3>3. j # i
            BY <2>1, <3>1, <3>2
        <3>4. j \in DOMAIN surfaces' /\ surfaces'[j] = t
            BY <2>1, <3>1, <3>3
        <3>5. QED
            BY <3>4 DEF Range
    <2>4. QED
        BY <1>1, <2>2, <2>3 DEF GetterKnows
<1>13. CASE QueueBufferGetter
    <2>1. UNCHANGED <<surfaces, smap>>
        BY <1>13 DEF QueueBufferGetter
    <2>2. CASE call = "capAdd"
        <3>1. PICK s \in Ids : s = surfaces[buf] /\ s \in DOMAIN smap /\ s \in Range(surfaces)
            BY <2>2 DEF Allocated, BufferTyped, Range
        <3>2. getter' = AddNewSurface(getter, s)
            BY <1>13, <2>2, <3>1 DEF QueueBufferGetter
        <3>3. /\ getter'.freed = Append(getter.freed, s) /\ DOMAIN getter'.used = DOMAIN getter.used \cup {s}
            <4>1. getter \in Getters /\ s \in Ids
                BY <1>1, <3>1
            <4>2. QED
                BY <3>2, <4>1, GetterAdd
        <3>4. Range(getter'.freed) = Range(getter.freed) \cup {s}
            BY <1>1, <3>3, ListAppend
        <3>5. QED
            BY <1>1, <2>1, <3>1, <3>3, <3>4 DEF GetterKnows
    <2>3. CASE call # "capAdd"
        BY <1>1, <1>10, <1>13, <2>1, <2>3 DEF QueueBufferGetter
    <2>4. QED
        BY <2>2, <2>3
<1>14. CASE DequeFreeBuffer
    <2>1. UNCHANGED <<surfaces, smap>> /\ HasFree(getter) /\ getter' = TakeOneFree(getter, "renderer")
        BY <1>14 DEF DequeFreeBuffer
    <2>2. Head(getter.freed) \in DOMAIN getter.used
        BY <1>1, <2>1, ListTail DEF HasFree
    <2>3. getter'.freed = Tail(getter.freed) /\ DOMAIN getter'.used = DOMAIN getter.used
        BY <1>1, <2>1, <2>2, GetterTake
    <2>4. Range(getter'.freed) \subseteq DOMAIN getter.used
        BY <1>1, <2>1, <2>3, ListTail DEF HasFree
    <2>5. QED
        BY <1>3, <2>1, <2>3, <2>4
<1>15. CASE StreamOffOutput
    <2>1. UNCHANGED <<surfaces, smap>> /\ getter' = HoldAllByRenderer(getter)
        BY <1>15 DEF StreamOffOutput
    <2>2. getter'.freed = <<>> /\ DOMAIN getter'.used = DOMAIN getter.used
        BY <1>1, <2>1, GetterHoldAll
    <2>3. QED
        BY <1>3, <2>1, <2>2, ListEmpty
<1>16. QED
    BY <1>4, <1>5, <1>6, <1>7, <1>8, <1>9, <1>11, <1>12, <1>13, <1>14, <1>15
       DEF Next, ThreadStep, ClientStep

\* Initially Allocated holds.
LEMMA AllocatedInit == Init => Allocated
<1> SUFFICES ASSUME Init PROVE Allocated
    OBVIOUS
<1>1. getter = EmptyGetter /\ last = 0 /\ phase = "restart" /\ call = "none"
    BY DEF Init
<1>2. QED
    BY <1>1, GetterEmpty, ListEmpty DEF Allocated

\* Every step keeps Allocated.
LEMMA AllocatedStep ==
    ASSUME CodecTyped, BufferTyped, Protocol, Change, Allocated, Clean, [Next]_vars
    PROVE  Allocated'
<1> USE DEF codecVars, pipeVars, outVars, vaVars, flagVars, userVars, threadVars
<1>1. GetterKnows'
    BY GetterKnowsStep
\* Steps of the thread at work, or of a client that does not allocate.
<1>2. ASSUME UNCHANGED <<last, count, surfaces, smap>>, stamp' \in Seq(Nat), Len(stamp') = Len(stamp),
             phase \notin {"free", "request", "fill"}, phase' \notin {"free", "request", "fill"},
             call' # "capAdd"
      PROVE  Allocated'
    BY <1>1, <1>2 DEF Allocated, GetterKnows, Complete
<1>3. CASE \/ StartDecoder \/ FlushDecoder \/ NoInput \/ DecodeEOS \/ DecodeFormatChange
           \/ DecodeFails \/ DecodeNoSurface \/ DecodePicture \/ FormatChange \/ NoSurface
           \/ Consume \/ OutputEmpty \/ OutputHold \/ OutputPut \/ OutputDrop
    <2>1. /\ phase \in {"run", "seek", "resume", "restart"}
          /\ UNCHANGED <<last, count, surfaces, smap, phase, call>>
        BY <1>3, ThreadAtWork
    <2>2. call # "capAdd"
        BY <2>1, ThreadFacts
    <2>3. stamp' \in Seq(Nat) /\ Len(stamp') = Len(stamp)
        <3>1. CASE OutputPut
            <4>1. stamp \in Seq(Nat) /\ frame.ts \in Nat
                BY DEF BufferTyped, CodecTyped, Pictures
            <4>2. stamp' = [stamp EXCEPT ![smap[frame.id]] = frame.ts]
                BY <3>1 DEF OutputPut
            <4>3. stamp' \in [DOMAIN stamp -> Nat]
                <5>1. \A n \in DOMAIN stamp : stamp[n] \in Nat
                    BY <4>1, ElementOfSeq, LenProperties
                <5>2. QED
                    BY <4>1, <4>2, <5>1
            <4>4. QED
                BY <4>1, <4>3, ListSameLength
        <3>2. CASE ~OutputPut
            <4>1. stamp' = stamp
                BY <1>3, <3>2 DEF StartDecoder, FlushDecoder, NoInput, DecodeEOS, DecodeFormatChange,
                   DecodeFails, DecodeNoSurface, DecodePicture, FormatChange, NoSurface, Consume,
                   OutputEmpty, OutputHold, OutputDrop, Decoded
            <4>2. QED
                BY <4>1 DEF BufferTyped
        <3>3. QED
            BY <3>1, <3>2
    <2>4. QED
        BY <1>2, <2>1, <2>2, <2>3
<1>4. CASE RunJob
    <2>1. UNCHANGED <<last, pending, count, surfaces, smap, stamp, getter, phase, call, buf>>
        BY <1>4 DEF RunJob
    <2>2. PICK job \in Job : /\ Queued = {job} \cup Queued'
                             /\ job \in {"start", "flush", "free", "request"} => step' = job
        <3>1. /\ jobs # <<>> /\ jobs \in Seq(Job) /\ Once(jobs)
              /\ "start" \in Range(jobs) => Head(jobs) = "start"
            BY <1>4 DEF RunJob, Protocol, ThreadTyped, StartFirst, Queued
        <3>2. Head(jobs) \in Job /\ Queued = {Head(jobs)} \cup Queued'
            BY <1>4, <3>1, JobTaken DEF RunJob, Queued
        <3>3. Head(jobs) \in {"start", "flush", "free", "request"} => step' = Head(jobs)
            BY <1>4 DEF RunJob
        <3>4. QED
            BY <3>2, <3>3
    <2>3. \A j \in {"free", "request"} : j \notin Queued' /\ step' # j => j \notin Queued /\ step # j
        BY <1>4, <2>2 DEF RunJob
    <2>4. QED
        BY <1>1, <2>1, <2>3 DEF Allocated, GetterKnows, Complete, NoSurfaces, Room
<1>5. CASE FreeBuffers
    <2>1. /\ phase = "free" /\ call = "send" /\ UNCHANGED <<last, pending, phase, call, buf>>
          /\ surfaces' = <<>> /\ smap' = <<>> /\ stamp' = <<>> /\ getter' = EmptyGetter
        BY <1>5, ThreadFacts DEF FreeBuffers
    <2>2. DOMAIN smap' = {}
        BY <2>1
    <2>3. QED
        BY <1>1, <2>1, <2>2 DEF Allocated, GetterKnows, NoSurfaces
<1>6. CASE RequestBuffers
    <2>1. /\ phase = "request" /\ call = "send" /\ UNCHANGED <<phase, call, buf, smap, getter>>
          /\ pending' = 0 /\ count' = NBuf
        BY <1>6, ThreadFacts DEF RequestBuffers
    <2>2. Len(surfaces') = NBuf /\ Len(stamp') = NBuf
        <3>1. DOMAIN surfaces' = 1..NBuf /\ DOMAIN stamp' = 1..NBuf
            BY <1>6 DEF RequestBuffers, Indices
        <3>2. surfaces' \in Seq(0..NIds) /\ stamp' \in Seq(Nat)
            BY BufferTypedStep DEF BufferTyped
        <3>3. QED
            BY <3>1, <3>2, LenProperties, DecoderNumbers
    <2>3. QED
        BY <1>1, <2>1, <2>2 DEF Allocated, GetterKnows, Room
<1>7. CASE \/ StreamOnInput \/ StreamOffInput \/ QueueBuffer \/ StreamOffOutput
    <2>1. /\ UNCHANGED <<last, count, surfaces, smap, stamp>> /\ call' # "capAdd"
          /\ phase \notin {"free", "request", "fill"} /\ phase' \notin {"free", "request", "fill"}
        BY <1>7 DEF StreamOnInput, StreamOffInput, QueueBuffer, StreamOffOutput
    <2>2. QED
        BY <1>2, <2>1 DEF BufferTyped
<1>8. CASE \/ QueueInput \/ QueueInputPost \/ DequeInput \/ QueueBufferPost \/ DequeBuffer
           \/ StreamOffInputDone \/ UNCHANGED vars
    <2>1. UNCHANGED <<last, pending, count, surfaces, smap, stamp, getter, phase, step>>
        BY <1>8 DEF QueueInput, QueueInputPost, DequeInput, QueueBufferPost, DequeBuffer,
           StreamOffInputDone, vars
    <2>2. \/ call' \in {"none", "inPost"}
          \/ UNCHANGED <<call, jobs, buf>>
        BY <1>8 DEF QueueInput, QueueInputPost, DequeInput, QueueBufferPost, DequeBuffer,
           StreamOffInputDone, vars
    <2>3. QED
        BY <1>1, <2>1, <2>2 DEF Allocated, GetterKnows, Complete, NoSurfaces, Room, Queued
<1>9. CASE QueueNewBuffer
    <2>1. PICK i \in mine, s \in Ids :
             /\ surfaces' = [surfaces EXCEPT ![i] = s] /\ buf' = i
             /\ smap' = [t \in DOMAIN smap \cup {s} |-> IF t = s THEN i ELSE smap[t]]
        BY <1>9 DEF QueueNewBuffer
    <2>2. /\ UNCHANGED <<last, pending, count, stamp, getter, phase>> /\ call' = "capAdd" /\ phase = "fill"
        BY <1>9 DEF QueueNewBuffer
    <2>3. Room
        BY <2>2 DEF Allocated
    <2>4. surfaces \in Seq(0..NIds) /\ i \in Indices /\ s \in 0..NIds
        BY DecoderNumbers DEF BufferTyped
    <2>5. DOMAIN surfaces = 1..NBuf /\ Len(surfaces') = Len(surfaces) /\ DOMAIN surfaces' = DOMAIN surfaces
        BY <2>1, <2>3, <2>4, LenProperties, ListExcept DEF Room
    <2>6. buf' \in DOMAIN surfaces' /\ surfaces'[buf'] = s /\ s \in DOMAIN smap'
        BY <2>1, <2>4, <2>5 DEF Indices
    <2>7. QED
        BY <1>1, <2>2, <2>3, <2>5, <2>6 DEF Allocated, GetterKnows, Room
<1>10. CASE QueueBufferGetter \/ DequeFreeBuffer
    <2>1. /\ UNCHANGED <<last, pending, count, surfaces, smap, stamp, phase, jobs, step, buf>>
          /\ phase \notin {"free", "request"} /\ call' \in {"none", "capPost"}
        BY <1>10, ThreadFacts DEF QueueBufferGetter, DequeFreeBuffer
    <2>2. QED
        BY <1>1, <2>1 DEF Allocated, GetterKnows, Complete, Room, Queued
<1>11. CASE StreamOnOutput
    <2>1. /\ UNCHANGED <<last, pending, count, surfaces, smap, stamp>>
          /\ call = "none" /\ call' = "none"
          /\ \/ phase = "fill" /\ Cardinality(DOMAIN smap) = NBuf /\ phase' = "run"
             \/ phase = "resume" /\ phase' = "restart"
        BY <1>11 DEF StreamOnOutput
    <2>2. CASE phase = "fill"
        <3>1. Complete'
            BY <2>1, <2>2 DEF Allocated, Room, Complete
        <3>2. QED
            BY <1>1, <2>1, <2>2, <3>1 DEF Allocated, GetterKnows
    <2>3. CASE phase = "resume"
        BY <1>2, <2>1, <2>3 DEF BufferTyped
    <2>4. QED
        BY <2>1, <2>2, <2>3
<1>12. CASE StreamOffOutputClear \/ DequeEvent
    <2>1. /\ UNCHANGED <<last, pending, count, surfaces, smap, stamp>>
          /\ call' = "none" /\ phase' \in {"free", "event", "resume"} /\ phase \in {"event", "seek", "run"}
        BY <1>12, ThreadFacts DEF StreamOffOutputClear, DequeEvent
    <2>2. QED
        BY <1>1, <2>1 DEF Allocated, GetterKnows, Complete
<1>13. CASE RequestBuffersSend
    <2>1. /\ UNCHANGED <<last, pending, count, surfaces, smap, stamp, getter, phase, buf>>
          /\ call' = "send" /\ phase \in {"free", "request"} /\ jobs' = Append(jobs, phase)
        BY <1>13 DEF RequestBuffersSend
    <2>2. phase \in Queued'
        <3>1. phase \in Job /\ jobs \in Seq(Job)
            BY <2>1, ThreadFacts DEF Job
        <3>2. QED
            BY <2>1, <3>1, ListAppend DEF Queued
    <2>3. QED
        BY <1>1, <2>1, <2>2 DEF Allocated, GetterKnows, NoSurfaces, Room
<1>14. CASE RequestBuffersReturn
    <2>1. /\ UNCHANGED <<last, pending, count, surfaces, smap, stamp, getter, buf>>
          /\ call = "send" /\ call' = "none" /\ step # phase /\ phase \in {"free", "request"}
          /\ phase' = IF phase = "free" THEN "request" ELSE "fill"
          /\ ~\E i \in 1..Len(jobs) : jobs[i] = phase
        BY <1>14, ThreadFacts DEF RequestBuffersReturn
    <2>2. phase \notin Queued
        <3>1. DOMAIN jobs = 1..Len(jobs)
            BY LenProperties, ThreadFacts
        <3>2. QED
            BY <2>1, <3>1 DEF Queued, Range
    <2>3. CASE phase = "free"
        <3>1. NoSurfaces /\ pending # 0
            BY <2>1, <2>2, <2>3 DEF Allocated, Change
        <3>2. QED
            BY <1>1, <2>1, <2>3, <3>1 DEF Allocated, GetterKnows, NoSurfaces
    <2>4. CASE phase = "request"
        <3>1. pending = 0
            BY <2>1, <2>2, <2>4 DEF Allocated
        <3>2. Room
            BY <2>4, <3>1 DEF Allocated
        <3>3. QED
            BY <1>1, <2>1, <2>4, <3>2 DEF Allocated, GetterKnows, Room
    <2>5. QED
        BY <2>1, <2>3, <2>4
<1>15. QED
    BY <1>3, <1>4, <1>5, <1>6, <1>7, <1>8, <1>9, <1>10, <1>11, <1>12, <1>13, <1>14
       DEF Next, ThreadStep, ClientStep

\* Initially PoolKept holds.
LEMMA PoolKeptInit == Init => PoolKept
    BY DEF Init, PoolKept

\* Every step keeps PoolKept.
LEMMA PoolKeptStep ==
    ASSUME CodecTyped, BufferTyped, Protocol, Change, InputFormats, Allocated, PoolKept, [Next]_vars
    PROVE  PoolKept'
<1> USE DEF codecVars, pipeVars, outVars, vaVars, flagVars, userVars, threadVars
<1>1. codec \in Codecs /\ codec.cfg \in Nat /\ codec.fmt \in Nat /\ last \in Nat
    BY DecoderNumbers DEF CodecTyped, Codecs
<1>2. ASSUME surfaces' = surfaces, codec'.cfg = codec.cfg, codec'.fmt = codec.fmt, codec'.pool = codec.pool
      PROVE  PoolKept'
    BY <1>2 DEF PoolKept
\* While the client allocates, the codec has not looked at its surfaces.
<1>3. ASSUME codec' = codec, phase \in {"free", "request", "fill"} PROVE PoolKept'
    <2>1. codec.cfg < codec.fmt
        BY <1>3, ThreadFacts DEF Change
    <2>2. QED
        BY <1>1, <1>3, <2>1 DEF PoolKept
<1>4. CASE FreeBuffers \/ RequestBuffers \/ QueueNewBuffer
    <2>1. codec' = codec /\ phase \in {"free", "request", "fill"}
        BY <1>4, ThreadFacts DEF FreeBuffers, RequestBuffers, QueueNewBuffer
    <2>2. QED
        BY <1>3, <2>1
<1>5. CASE \/ RunJob \/ NoInput \/ FormatChange \/ NoSurface \/ Consume
           \/ OutputEmpty \/ OutputPut \/ OutputDrop
    BY <1>2, <1>5 DEF RunJob, NoInput, FormatChange, NoSurface, Consume, OutputEmpty, OutputPut,
       OutputDrop
<1>6. CASE \/ StreamOnInput \/ QueueInput \/ QueueInputPost \/ DequeInput \/ QueueBuffer
           \/ QueueBufferGetter \/ QueueBufferPost \/ DequeBuffer \/ DequeFreeBuffer
           \/ StreamOnOutput \/ StreamOffOutput \/ StreamOffOutputClear
           \/ DequeEvent \/ RequestBuffersSend \/ RequestBuffersReturn
           \/ StreamOffInput \/ StreamOffInputDone \/ UNCHANGED vars
    BY <1>2, <1>6 DEF StreamOnInput, QueueInput, QueueInputPost, DequeInput, QueueBuffer,
       QueueBufferGetter, QueueBufferPost, DequeBuffer, DequeFreeBuffer, StreamOnOutput,
       StreamOffOutput, StreamOffOutputClear, DequeEvent, RequestBuffersSend,
       RequestBuffersReturn, StreamOffInput, StreamOffInputDone, vars
<1>7. CASE StartDecoder \/ OutputHold
    BY <1>1, <1>2, <1>7 DEF StartDecoder, OutputHold, Codecs
<1>8. CASE FlushDecoder
    BY <1>1, <1>2, <1>8 DEF FlushDecoder, CodecFlushed, Codecs
<1>9. CASE DecodeEOS \/ DecodeFails \/ DecodeNoSurface \/ DecodePicture
    <2>1. /\ codec'.fmt = codec.fmt
          /\ \/ codec'.cfg = codec.cfg /\ codec'.pool = codec.pool
             \/ /\ codec.cfg < codec.fmt /\ codec'.cfg = codec.fmt
                /\ codec'.pool = IF Len(surfaces) = Cardinality(DOMAIN smap)
                                 THEN Range(surfaces) ELSE NoPool
        BY <1>9, DecodeFormats
    <2>2. surfaces' = surfaces /\ step = "getInput"
          /\ phase \in {"run", "seek", "resume", "restart"}
        BY <1>9, ThreadAtWork DEF DecodeEOS, DecodeFails, DecodeNoSurface, DecodePicture,
           CanDecode, CannotDecode, Peek
    <2>3. pending = 0 /\ step # "formatChange"
        BY <2>2, ThreadFacts
    <2>4. codec.cfg < codec.fmt => Len(surfaces) = Cardinality(DOMAIN smap)
        <3>1. codec.cfg < codec.fmt => codec.fmt # 0
            BY <1>1
        <3>2. codec.fmt # 0 => Complete
            BY <2>2, <2>3, BuffersReady
        <3>3. QED
            BY <3>1, <3>2 DEF Complete
    <2>5. QED
        BY <1>2, <2>1, <2>2, <2>4 DEF PoolKept
<1>10. CASE DecodeFormatChange
    <2>1. /\ inQ # <<>> /\ Head(inQ).kind = "key" /\ Head(inQ).fmt # codec.fmt
          /\ codec'.fmt = Head(inQ).fmt /\ codec'.cfg = codec.cfg
        BY <1>1, <1>10 DEF DecodeFormatChange, Decoded, Peek, Codecs
    <2>2. Head(inQ).fmt \in Nat /\ Head(inQ).fmt >= codec.fmt
        BY <2>1, HeadTyped, DecoderNumbers DEF InputFormats
    <2>3. codec.cfg <= codec.fmt
        BY <1>1 DEF Change
    <2>4. codec'.cfg # codec'.fmt
        BY <1>1, <2>1, <2>2, <2>3
    <2>5. QED
        BY <2>4 DEF PoolKept
<1>11. QED
    BY <1>4, <1>5, <1>6, <1>7, <1>8, <1>9, <1>10 DEF Next, ThreadStep, ClientStep

-----------------------------------------------------------------------------
(* What a seek forgets *)

\* Initially Clean holds.
LEMMA CleanInit == Init => Clean
<1> SUFFICES ASSUME Init PROVE Clean
    OBVIOUS
<1>1. CodecClean
    BY DEF Init, CodecClean
<1>2. QED
    BY <1>1 DEF Init, Clean

\* Every step keeps Clean.
LEMMA CleanStep ==
    ASSUME CodecTyped, BufferTyped, Protocol, Change, InputFormats, Allocated, Clean, [Next]_vars
    PROVE  Clean'
<1> USE DEF codecVars, pipeVars, outVars, vaVars, flagVars, userVars, threadVars
<1>1. /\ codec \in Codecs /\ codec.fmt \in Nat /\ last \in Nat /\ pending \in Nat
      /\ codec.gotKey \in BOOLEAN /\ codec.made \in BOOLEAN
    BY DecoderNumbers DEF CodecTyped, Codecs
<1>2. ASSUME UNCHANGED <<codec, frame, inQ, outQ, last, phase, outputOn>>,
             inputOn' = inputOn, call' = "stop" => call = "stop",
             step \notin {"put", "drop"} \/ step' \in {"put", "drop"},
             \/ state' = state
             \/ state \notin {"kUnStarted", "kStopped"} /\ state' \notin {"kUnStarted", "kStopped"}
      PROVE  Clean'
    BY <1>1, <1>2 DEF Clean, CodecClean
<1>3. CASE RunJob
    <2>1. UNCHANGED <<codec, frame, inQ, outQ, last, phase, outputOn, inputOn, call>> /\ step = "none"
        BY <1>3 DEF RunJob
    <2>2. \/ state' = state
          \/ state \notin {"kUnStarted", "kStopped"} /\ state' \notin {"kUnStarted", "kStopped"}
        BY <1>3 DEF RunJob
    <2>3. QED
        BY <1>2, <2>1, <2>2
<1>4. CASE FreeBuffers \/ NoInput \/ FormatChange \/ NoSurface \/ OutputEmpty
    <2>1. UNCHANGED <<codec, frame, inQ, outQ, last, phase, outputOn, inputOn, call>>
        BY <1>4 DEF FreeBuffers, NoInput, FormatChange, NoSurface, OutputEmpty
    <2>2. step \notin {"put", "drop"}
        BY <1>4 DEF FreeBuffers, NoInput, FormatChange, NoSurface, OutputEmpty
    <2>3. \/ state' = state
          \/ state \notin {"kUnStarted", "kStopped"} /\ state' \notin {"kUnStarted", "kStopped"}
        BY <1>4, ThreadFacts DEF FreeBuffers, NoInput, FormatChange, NoSurface, OutputEmpty
    <2>4. QED
        BY <1>2, <2>1, <2>2, <2>3
<1>5. CASE \/ QueueInputPost \/ DequeInput \/ QueueNewBuffer \/ QueueBuffer \/ QueueBufferGetter
           \/ QueueBufferPost \/ DequeFreeBuffer \/ RequestBuffersSend \/ UNCHANGED vars
    <2>1. /\ UNCHANGED <<codec, frame, inQ, outQ, last, phase, outputOn, inputOn, step, state>>
          /\ call' = "stop" => call = "stop"
        BY <1>5 DEF QueueInputPost, DequeInput, QueueNewBuffer, QueueBuffer, QueueBufferGetter,
           QueueBufferPost, DequeFreeBuffer, RequestBuffersSend, vars
    <2>2. QED
        BY <1>2, <2>1
<1>6. CASE StartDecoder
    <2>1. /\ UNCHANGED <<frame, inQ, outQ, last, phase, outputOn, inputOn, call>>
          /\ step = "start" /\ step' = "getInput" /\ state = "kUnStarted" /\ state' = "kGetInput"
          /\ codec'.made = TRUE /\ codec'.cur = codec.cur /\ codec'.refs = codec.refs
          /\ codec'.outs = codec.outs /\ codec'.gotKey = codec.gotKey
        BY <1>1, <1>6 DEF StartDecoder, Codecs
    <2>2. QED
        BY <1>1, <2>1 DEF Clean, CodecClean
<1>7. CASE FlushDecoder
    <2>1. /\ UNCHANGED <<frame, inQ, outQ, last, phase, outputOn, inputOn, call>>
          /\ step = "flush" /\ step' = "none" /\ state' = "kStopped"
        BY <1>7 DEF FlushDecoder
    <2>2. CodecClean' /\ codec'.made = codec.made
        <3>1. CASE codec.made
            BY <1>1, <1>7, <3>1 DEF FlushDecoder, CodecFlushed, Codecs, CodecClean
        <3>2. CASE ~codec.made
            BY <1>1, <1>7, <3>2 DEF FlushDecoder, Clean, CodecClean
        <3>3. QED
            BY <3>1, <3>2
    <2>3. QED
        BY <1>1, <2>1, <2>2 DEF Clean, CodecClean
<1>8. CASE RequestBuffers
    <2>1. /\ UNCHANGED <<codec, frame, inQ, outQ, phase, outputOn, inputOn, call, state>>
          /\ step = "request" /\ step' = "none"
          /\ last' = IF pending # 0 THEN pending ELSE last
        BY <1>8 DEF RequestBuffers
    <2>2. phase = "request" /\ (last' = 0 => last = 0)
        BY <2>1, ThreadFacts
    <2>3. QED
        BY <1>1, <2>1, <2>2 DEF Clean, CodecClean
<1>9. ASSUME UNCHANGED <<frame, inQ, outQ, last, phase, outputOn, inputOn, call, state>>,
             step = "getInput", step' \notin {"put", "drop"}, codec'.made = codec.made,
             last = 0 => codec'.outs = codec.outs /\ ~codec'.gotKey
      PROVE  Clean'
    <2>1. state = "kGetInput"
        BY <1>9, ThreadFacts
    <2>2. QED
        BY <1>1, <1>9, <2>1 DEF Clean, CodecClean
<1>10. CASE DecodeEOS \/ DecodeFails \/ DecodeNoSurface \/ DecodePicture
    <2>1. /\ UNCHANGED <<frame, inQ, outQ, last, phase, outputOn, inputOn, call, state>> /\ step = "getInput"
        BY <1>10 DEF DecodeEOS, DecodeFails, DecodeNoSurface, DecodePicture, Decoded, CanDecode,
           CannotDecode, Peek
    <2>2. /\ codec'.made = codec.made /\ step' \in {"consume", "noSurface"}
          /\ codec'.gotKey => codec.fmt # 0
          /\ ~codec'.gotKey => codec'.outs = codec.outs
        BY <1>10, DecodeFormats
    <2>3. codec.fmt = last
        BY <2>1, ThreadFacts DEF Change
    <2>4. QED
        BY <1>9, <2>1, <2>2, <2>3
<1>11. CASE DecodeFormatChange
    <2>1. /\ UNCHANGED <<frame, inQ, outQ, last, phase, outputOn, inputOn, call, state>> /\ step = "getInput"
          /\ step' = "formatChange" /\ codec'.made = codec.made
          /\ codec'.gotKey = codec.gotKey /\ codec'.outs = codec.outs
        BY <1>1, <1>11 DEF DecodeFormatChange, Decoded, Peek, Codecs
    <2>2. last = 0 => ~codec'.gotKey
        BY <1>1, <2>1 DEF Clean
    <2>3. QED
        BY <1>9, <2>1, <2>2
<1>12. CASE Consume
    <2>1. /\ UNCHANGED <<codec, frame, outQ, last, phase, outputOn, inputOn, call>>
          /\ step = "consume" /\ step' = "none" /\ state' \in {state, "kGetOutput"}
        BY <1>12 DEF Consume
    <2>2. inputOn /\ state = "kGetInput"
        BY <2>1, ThreadFacts
    <2>3. QED
        BY <1>1, <2>1, <2>2 DEF Clean, CodecClean
<1>13. CASE OutputHold
    <2>1. /\ UNCHANGED <<inQ, outQ, last, phase, outputOn, inputOn, call, state>>
          /\ step = "getOutput" /\ step' = "put" /\ codec'.made = codec.made /\ codec.outs # <<>>
        BY <1>1, <1>13 DEF OutputHold, Codecs
    <2>2. state \in {"kGetOutput", "kFormatChanged"} /\ last # 0
        BY <2>1, ThreadFacts DEF Clean
    <2>3. QED
        BY <1>1, <2>1, <2>2 DEF Clean, CodecClean
<1>14. CASE OutputPut
    <2>1. /\ UNCHANGED <<codec, frame, inQ, last, phase, outputOn, inputOn, call, state>>
          /\ step = "put" /\ step' = "drop" /\ frame.id \in DOMAIN smap
        BY <1>14 DEF OutputPut
    <2>2. frame # None
        BY <2>1, DecoderNumbers DEF BufferTyped
    <2>3. last # 0
        BY <2>2 DEF Clean
    <2>4. phase \in {"run", "seek"}
        <3>1. phase \in {"run", "seek", "resume", "restart"}
            BY <1>14, ThreadAtWork
        <3>2. inputOn
            BY <2>1, ThreadFacts
        <3>3. QED
            BY <2>3, <3>1, <3>2, ThreadFacts DEF Clean
    <2>5. QED
        BY <1>1, <2>1, <2>3, <2>4 DEF Clean, CodecClean
<1>15. CASE OutputDrop
    <2>1. /\ UNCHANGED <<codec, inQ, outQ, last, phase, outputOn, inputOn, call, state>>
          /\ frame' = None
        BY <1>15 DEF OutputDrop
    <2>2. QED
        BY <1>1, <2>1 DEF Clean, CodecClean
<1>16. CASE StreamOnInput
    <2>1. /\ UNCHANGED <<codec, frame, inQ, outQ, last, outputOn, call, state, step>>
          /\ phase = "restart" /\ phase' = "run" /\ inputOn' = TRUE
        BY <1>16 DEF StreamOnInput
    <2>2. QED
        BY <1>1, <2>1 DEF Clean, CodecClean
<1>17. CASE QueueInput
    <2>1. /\ UNCHANGED <<codec, frame, outQ, last, outputOn, inputOn, state, step, phase>>
          /\ inputOn /\ call' = "inPost"
        BY <1>17 DEF QueueInput
    <2>2. QED
        BY <1>1, <2>1 DEF Clean, CodecClean
<1>18. CASE DequeBuffer
    <2>1. /\ UNCHANGED <<codec, frame, inQ, last, outputOn, inputOn, state, step, phase, call>>
          /\ outQ # <<>> /\ phase \in {"run", "event"}
        BY <1>18 DEF DequeBuffer
    <2>2. last # 0
        BY <2>1 DEF Clean
    <2>3. QED
        BY <1>1, <2>1, <2>2 DEF Clean, CodecClean
<1>19. CASE StreamOnOutput
    <2>1. /\ UNCHANGED <<codec, frame, inQ, outQ, last, inputOn, state, step, call>>
          /\ call = "none" /\ outputOn' = TRUE
          /\ \/ phase = "fill" /\ phase' = "run"
             \/ phase = "resume" /\ phase' = "restart"
        BY <1>19 DEF StreamOnOutput
    <2>2. QED
        BY <1>1, <2>1 DEF Clean, CodecClean
<1>20. CASE StreamOffOutput
    <2>1. /\ UNCHANGED <<codec, frame, inQ, outQ, last, inputOn, state, step, phase>>
          /\ call' = "clearOut" /\ phase \in {"seek", "event"}
        BY <1>20 DEF StreamOffOutput
    <2>2. QED
        BY <1>1, <2>1 DEF Clean, CodecClean
<1>21. CASE StreamOffOutputClear
    <2>1. /\ UNCHANGED <<codec, frame, inQ, last, inputOn, outputOn, state, step>>
          /\ outQ' = <<>> /\ call' = "none" /\ phase' \in {"free", "resume"}
        BY <1>21 DEF StreamOffOutputClear
    <2>2. QED
        BY <1>1, <2>1 DEF Clean, CodecClean
<1>22. CASE DequeEvent
    <2>1. /\ UNCHANGED <<codec, frame, inQ, outQ, last, inputOn, outputOn, state, step, call>>
          /\ phase = "run" /\ phase' = IF outputOn THEN "event" ELSE "free"
        BY <1>22 DEF DequeEvent
    <2>2. ~outputOn => outQ = <<>>
        BY <2>1 DEF Clean
    <2>3. QED
        BY <1>1, <2>1, <2>2 DEF Clean, CodecClean
<1>23. CASE RequestBuffersReturn
    <2>1. /\ UNCHANGED <<codec, frame, inQ, outQ, last, inputOn, outputOn, state, step>>
          /\ phase \in {"free", "request"} /\ phase' \in {"request", "fill"} /\ call' = "none"
        BY <1>23, ThreadFacts DEF RequestBuffersReturn
    <2>2. QED
        BY <1>1, <2>1 DEF Clean, CodecClean
<1>24. CASE StreamOffInput
    <2>1. /\ UNCHANGED <<codec, frame, inQ, outQ, last, inputOn, outputOn, state, step>>
          /\ phase = "run" /\ phase' = IF outputOn THEN "seek" ELSE "restart"
        BY <1>24 DEF StreamOffInput
    <2>2. ~outputOn => last = 0 /\ outQ = <<>>
        BY <2>1 DEF Clean
    <2>3. QED
        BY <1>1, <2>1, <2>2 DEF Clean, CodecClean
<1>25. CASE StreamOffInputDone
    <2>1. /\ UNCHANGED <<codec, frame, outQ, last, outputOn, step, phase>>
          /\ inQ' = <<>> /\ state' = "kUnStarted" /\ call = "stop" /\ call' = "none"
          /\ jobs = <<>> /\ step = "none"
        BY <1>25 DEF StreamOffInputDone
    <2>2. state = "kStopped"
        BY <2>1, ListEmpty DEF Protocol, Handshake, Queued
    <2>3. QED
        BY <1>1, <2>1, <2>2 DEF Clean, CodecClean
<1>26. QED
    BY <1>3, <1>4, <1>5, <1>6, <1>7, <1>8, <1>10, <1>11, <1>12, <1>13, <1>14, <1>15, <1>16, <1>17,
       <1>18, <1>19, <1>20, <1>21, <1>22, <1>23, <1>24, <1>25 DEF Next, ThreadStep, ClientStep

-----------------------------------------------------------------------------
(* Wake-ups *)

\* A codec that decodes has the surfaces of its buffers in its pool.
LEMMA PoolKnows ==
    ASSUME CodecTyped, BufferTyped, Protocol, Change, InputFormats, Allocated, PoolKept
    PROVE  PoolKnowsSurface
<1> SUFFICES ASSUME CanDecode, HasFree(getter) PROVE Head(getter.freed) \in Ready.pool
    BY DEF PoolKnowsSurface
<1>1. /\ codec \in Codecs /\ codec.cfg \in Nat /\ codec.fmt \in Nat /\ codec.cfg <= codec.fmt
      /\ inQ # <<>> /\ Head(inQ).kind \in {"key", "other", "eos"} /\ step = "getInput"
    <2>1. inQ # <<>> /\ step = "getInput"
        BY DEF CanDecode, Peek
    <2>2. codec \in Codecs /\ codec.cfg \in Nat /\ codec.fmt \in Nat /\ last \in Nat
        BY DecoderNumbers DEF CodecTyped, Codecs
    <2>3. QED
        BY <2>1, <2>2, HeadTyped DEF Change
<1>2. /\ Head(inQ).kind = "key" <=> Head(inQ).fmt # 0
      /\ codec.gotKey => codec.fmt # 0
      /\ codec.gotKey /\ codec.cfg # codec.fmt => Head(inQ).kind = "key"
    BY <1>1, HeadTyped DEF InputFormats
<1>3. PICK c \in Codecs : c = Ready
    BY ReadyTyped
<1>4. /\ \/ c.cfg = codec.cfg /\ c.pool = codec.pool
         \/ /\ codec.cfg < codec.fmt /\ c.cfg = codec.fmt
            /\ c.pool = IF Len(surfaces) = Cardinality(DOMAIN smap) THEN Range(surfaces) ELSE NoPool
      /\ Head(inQ).kind = "key" => c.cfg >= codec.fmt
    BY <1>3, ReadyFormats
<1>5. codec.fmt # 0 /\ (Head(inQ).kind # "key" => codec.cfg = codec.fmt)
    BY <1>1, <1>2 DEF CanDecode, Peek
<1>6. c.cfg = codec.fmt
    <2>1. c.cfg \in Nat /\ c.cfg <= codec.fmt
        BY <1>1, <1>4
    <2>2. QED
        BY <1>1, <1>4, <1>5, <2>1
<1>7. Len(surfaces) = Cardinality(DOMAIN smap)
    <2>1. pending = 0 /\ phase \notin {"free", "request", "fill"}
        BY <1>1, ThreadFacts
    <2>2. QED
        BY <1>1, <1>5, <2>1, BuffersReady DEF Complete
<1>8. c.pool = Range(surfaces)
    BY <1>1, <1>4, <1>5, <1>6, <1>7 DEF PoolKept
<1>9. Head(getter.freed) \in Range(getter.freed)
    <2>1. getter.freed \in Seq(Ids) /\ getter.freed # <<>>
        BY GetterParts DEF BufferTyped, HasFree
    <2>2. QED
        BY <2>1, ListTail
<1>10. QED
    BY <1>3, <1>8, <1>9 DEF Allocated

\* A decode() that has no surface leaves the getter alone.
LEMMA NoSurfaceGetter ==
    ASSUME CodecTyped, BufferTyped, Protocol, Change, InputFormats, Allocated, PoolKept, DecodeNoSurface
    PROVE  getter' = getter /\ ~HasFree(getter)
<1>1. ~HasFree(getter) /\ codec' = Ready /\ getter' \in Released(codec, Ready, getter)
    BY PoolKnows DEF DecodeNoSurface, PoolKnowsSurface, Decoded
<1>2. Held(Ready) = Held(codec)
    <2>1. Ready.cur = codec.cur /\ Ready.refs = codec.refs /\ Ready.outs = codec.outs
        <3>1. PICK d : d = Ready
            OBVIOUS
        <3>2. d.cur = codec.cur /\ d.refs = codec.refs /\ d.outs = codec.outs
            BY <3>1, ReadyFormats
        <3>3. QED
            BY <3>1, <3>2
    <2>2. QED
        BY <2>1 DEF Held
<1>3. PICK S : S = {} /\ getter' \in PutSurfaces(getter, S)
    <2>1. {h.id : h \in Held(codec) \ Held(Ready)} = {}
        BY <1>2
    <2>2. QED
        BY <1>1, <2>1 DEF Released
<1>4. QED
    BY <1>1, <1>3, GetterPut DEF BufferTyped

\* Initially Wake holds.
LEMMA WakeInit == Init => Wake
    BY DEF Init, Wake

\* Every step keeps Wake.
LEMMA WakeStep ==
    ASSUME CodecTyped, BufferTyped, Protocol, Change, InputFormats, Allocated, PoolKept, Clean, Wake,
           [Next]_vars
    PROVE  Wake'
<1> USE DEF codecVars, pipeVars, outVars, vaVars, flagVars, userVars, threadVars
<1>1. /\ getter \in Getters /\ "renderer" \in Holders /\ "decoder" \in Holders
      /\ \A q \in Seq(Job), j \in Job : Range(Append(q, j)) = Range(q) \cup {j}
      /\ jobs \in Seq(Job)
    BY ListAppend DEF BufferTyped, Holders, Protocol, ThreadTyped
<1>2. ASSUME UNCHANGED <<started, step, state, then, inQ, frame, getter>>, Queued \subseteq Queued',
             call = "inPost" => call' = "inPost" \/ "inputReady" \in Queued' \/ ~started,
             call = "capPost" => call' = "capPost" \/ "outputReady" \in Queued' \/ ~started
      PROVE  Wake'
    BY <1>2 DEF Wake
\* The middle of a job, where only the surfaces count.
<1>3. ASSUME step' # "none", step' \notin {"noSurface", "put", "drop"},
             state' # "kWaitSurface", then' # "kWaitSurface"
      PROVE  Wake'
    BY <1>3 DEF Wake
<1>4. CASE RunJob
    <2>1. PICK job \in Job : Queued = {job} \cup Queued' /\ job = Head(jobs)
        <3>1. /\ jobs # <<>> /\ Once(jobs)
              /\ "start" \in Range(jobs) => Head(jobs) = "start"
            BY <1>4 DEF RunJob, Protocol, StartFirst, Queued
        <3>2. QED
            BY <1>1, <1>4, <3>1, JobTaken DEF RunJob, Queued
    <2>2. /\ UNCHANGED <<started, then, inQ, frame, getter, call>> /\ step = "none"
          /\ then = "none" /\ step' \notin {"noSurface", "put", "drop"}
        BY <1>4, ThreadFacts DEF RunJob
    <2>3. CASE step' # "none"
        <3>1. job = "outputReady" => state' # "kWaitSurface"
            BY <1>4, <2>1 DEF RunJob
        <3>2. job # "outputReady" /\ state' = "kWaitSurface" => state = "kWaitSurface"
            BY <1>4, <2>1 DEF RunJob
        <3>3. QED
            BY <2>1, <2>2, <2>3, <3>1, <3>2 DEF Wake
    <2>4. CASE step' = "none"
        <3>1. /\ state' = state
              /\ job = "inputReady" => state # "kWaitInput"
              /\ job = "getInput" => state # "kGetInput"
              /\ job = "getOutput" => state # "kGetOutput"
              /\ job = "outputReady" => state # "kWaitSurface"
            BY <1>4, <2>1, <2>4 DEF RunJob
        <3>2. QED
            BY <2>1, <2>2, <2>4, <3>1 DEF Wake
    <2>5. QED
        BY <2>3, <2>4
<1>5. CASE StartDecoder \/ DecodeEOS \/ DecodeFormatChange \/ DecodeFails \/ DecodePicture \/ FormatChange
    <2>1. /\ then' = then /\ step' \in {"getInput", "consume", "formatChange", "getOutput"}
          /\ step \in {"start", "getInput", "formatChange"}
          /\ state' \in {state, "kGetInput", "kFormatChanged"}
        BY <1>5 DEF StartDecoder, DecodeEOS, DecodeFormatChange, DecodeFails, DecodePicture,
           FormatChange, Decoded, Peek, CanDecode, CannotDecode
    <2>2. state \in {"kUnStarted", "kGetInput"} /\ then # "kWaitSurface"
        BY <2>1, ThreadFacts DEF Protocol, StartFirst
    <2>3. QED
        BY <1>3, <2>1, <2>2
<1>6. CASE FlushDecoder
    <2>1. started' = started /\ ~started
        BY <1>6, ThreadFacts DEF FlushDecoder
    <2>2. QED
        BY <2>1 DEF Wake
<1>7. CASE FreeBuffers \/ RequestBuffers
    <2>1. /\ step \in {"free", "request"} /\ step' = "none" /\ UNCHANGED <<state, then>>
        BY <1>7 DEF FreeBuffers, RequestBuffers
    <2>2. state = "kWaitAllocation" /\ then # "kWaitSurface"
        BY <2>1, ThreadFacts
    <2>3. QED
        BY <2>1, <2>2 DEF Wake
<1>8. CASE NoInput
    <2>1. /\ inQ' = <<>> /\ step = "getInput" /\ step' = "none" /\ state' = "kWaitInput" /\ then' = then
        BY <1>8 DEF NoInput
    <2>2. then # "kWaitSurface"
        BY <2>1, ThreadFacts
    <2>3. QED
        BY <2>1, <2>2 DEF Wake
<1>9. CASE DecodeNoSurface
    <2>1. ~HasFree(getter') /\ step' = "noSurface"
        BY <1>9, NoSurfaceGetter DEF DecodeNoSurface, Decoded
    <2>2. QED
        BY <2>1 DEF Wake
<1>10. CASE NoSurface
    <2>1. UNCHANGED <<jobs, getter, call, started>> /\ step = "noSurface" /\ step' \in {"getOutput", "none"}
        BY <1>10 DEF NoSurface
    <2>2. AllocationDone
        <3>1. /\ pending = 0 /\ codec.fmt # 0 /\ phase \notin {"free", "request", "fill"}
            BY <2>1, ThreadFacts DEF InputFormats
        <3>2. QED
            BY <2>1, <3>1, BuffersReady
    <2>3. state' = "kGetOutput" /\ step' = "getOutput"
        BY <1>10, <2>2 DEF NoSurface
    <2>4. QED
        BY <2>1, <2>3 DEF Wake, Queued
<1>11. CASE Consume
    <2>1. /\ step = "consume" /\ step' = "none" /\ UNCHANGED <<started, then>>
          /\ \/ state' = state /\ jobs' = Posted("getInput")
             \/ state' = "kGetOutput" /\ jobs' = Posted("getOutput")
        BY <1>11 DEF Consume
    <2>2. state = "kGetInput" /\ then # "kWaitSurface"
        BY <2>1, ThreadFacts
    <2>3. /\ started /\ jobs' = Posted("getInput") => "getInput" \in Queued'
          /\ started /\ jobs' = Posted("getOutput") => "getOutput" \in Queued'
        BY <1>1 DEF Posted, Queued, Job
    <2>4. QED
        BY <2>1, <2>2, <2>3 DEF Wake
<1>12. CASE OutputEmpty
    <2>1. /\ step = "getOutput" /\ step' = "none" /\ then' = "none" /\ UNCHANGED <<started, getter, call>>
          /\ \/ state' = "kWaitAllocation"
             \/ state' = "kWaitSurface" /\ then = "kWaitSurface" /\ jobs' = Posted("getInput")
             \/ state' = "kGetInput" /\ jobs' = Posted("getInput")
        BY <1>12, ThreadFacts DEF OutputEmpty
    <2>2. jobs' = Posted("getInput") =>
             (started => "getInput" \in Queued') /\ Queued \subseteq Queued'
        BY <1>1 DEF Posted, Queued, Job
    <2>3. QED
        BY <2>1, <2>2 DEF Wake
<1>13. CASE OutputHold
    <2>1. /\ UNCHANGED <<started, then, state, jobs, call>> /\ step = "getOutput" /\ step' = "put"
          /\ getter' = SetFlag(getter, frame'.id, "renderer")
        BY <1>13 DEF OutputHold
    <2>2. /\ getter'.freed = getter.freed /\ DOMAIN getter'.used = DOMAIN getter.used
          /\ frame'.id \in DOMAIN getter.used => "renderer" \in getter'.used[frame'.id]
        BY <1>1, <2>1, GetterSet
    <2>3. QED
        BY <2>1, <2>2 DEF Wake, Queued, HasFree
<1>14. CASE OutputPut
    <2>1. /\ UNCHANGED <<started, then, state, jobs, call, frame, getter>> /\ step = "put" /\ step' = "drop"
        BY <1>14 DEF OutputPut
    <2>2. QED
        BY <2>1 DEF Wake, Queued
<1>15. CASE OutputDrop
    <2>1. /\ UNCHANGED <<started, then, state, jobs, call>> /\ step = "drop" /\ step' = "getOutput"
          /\ getter' = getter \/ getter' = ClearFlag(getter, frame.id, "decoder")
        BY <1>15 DEF OutputDrop
    <2>2. \/ getter'.freed = getter.freed
          \/ frame.id \in DOMAIN getter.used /\ getter.used[frame.id] = {"decoder"}
        BY <1>1, <2>1, GetterClear
    <2>3. QED
        BY <2>1, <2>2 DEF Wake, Queued, HasFree
<1>16. CASE StreamOnInput
    <2>1. /\ UNCHANGED <<state, step, then>> /\ ~inputOn
        BY <1>16 DEF StreamOnInput
    <2>2. state = "kUnStarted" /\ step = "none" /\ then # "kWaitSurface"
        BY <2>1, ThreadFacts
    <2>3. QED
        BY <2>1, <2>2 DEF Wake
<1>17. CASE QueueInput
    <2>1. /\ UNCHANGED <<started, step, state, then, frame, getter, jobs>> /\ call = "none" /\ call' = "inPost"
        BY <1>17 DEF QueueInput
    <2>2. QED
        BY <2>1 DEF Wake, Queued
<1>18. CASE QueueInputPost
    <2>1. /\ UNCHANGED <<started, step, state, then, frame, getter, inQ>> /\ call = "inPost"
          /\ jobs' = Posted("inputReady")
        BY <1>18 DEF QueueInputPost
    <2>2. Queued \subseteq Queued' /\ (started => "inputReady" \in Queued')
        BY <1>1, <2>1 DEF Posted, Queued, Job
    <2>3. QED
        BY <1>2, <2>1, <2>2
<1>19. CASE QueueBufferPost
    <2>1. /\ UNCHANGED <<started, step, state, then, frame, getter, inQ>> /\ call = "capPost"
          /\ jobs' = Posted("outputReady")
        BY <1>19 DEF QueueBufferPost
    <2>2. Queued \subseteq Queued' /\ (started => "outputReady" \in Queued')
        BY <1>1, <2>1 DEF Posted, Queued, Job
    <2>3. QED
        BY <1>2, <2>1, <2>2
<1>20. CASE QueueBufferGetter
    <2>1. /\ UNCHANGED <<started, step, state, then, frame, jobs, inQ>>
          /\ call \in {"capAdd", "capFree"} /\ call' = "capPost"
        BY <1>20 DEF QueueBufferGetter
    <2>2. QED
        BY <2>1 DEF Wake, Queued
<1>21. CASE \/ DequeInput \/ QueueNewBuffer \/ QueueBuffer \/ DequeBuffer \/ StreamOnOutput
            \/ StreamOffOutputClear \/ DequeEvent \/ RequestBuffersSend \/ RequestBuffersReturn
            \/ UNCHANGED vars
    <2>1. /\ UNCHANGED <<started, step, state, then, frame, getter, inQ>>
          /\ call \notin {"inPost", "capPost"} \/ call' = call
        BY <1>21 DEF DequeInput, QueueNewBuffer, QueueBuffer, DequeBuffer, StreamOnOutput,
           StreamOffOutputClear, DequeEvent, RequestBuffersSend, RequestBuffersReturn, vars
    <2>2. jobs' = jobs \/ \E j \in Job : jobs' = Append(jobs, j)
        BY <1>21 DEF DequeInput, QueueNewBuffer, QueueBuffer, DequeBuffer, StreamOnOutput,
           StreamOffOutputClear, DequeEvent, RequestBuffersSend, RequestBuffersReturn, vars, Posted, Job
    <2>3. Queued \subseteq Queued'
        BY <1>1, <2>2 DEF Queued
    <2>4. QED
        BY <1>2, <2>1, <2>3
<1>22. CASE DequeFreeBuffer \/ StreamOffOutput
    <2>1. /\ UNCHANGED <<started, step, state, then, frame, inQ, jobs>>
          /\ call = "none" /\ phase \in {"fill", "seek", "event"}
        BY <1>22 DEF DequeFreeBuffer, StreamOffOutput
    <2>2. started => state = "kWaitAllocation"
        BY <2>1, ThreadFacts
    <2>3. state = "kWaitAllocation" => step \notin {"noSurface", "put", "drop"} /\ then # "kWaitSurface"
        BY ThreadFacts
    <2>4. QED
        BY <2>1, <2>2, <2>3 DEF Wake
<1>23. CASE StreamOffInput \/ StreamOffInputDone
    <2>1. ~started'
        BY <1>23, ThreadFacts DEF StreamOffInput, StreamOffInputDone
    <2>2. QED
        BY <2>1 DEF Wake
<1>24. QED
    BY <1>4, <1>5, <1>6, <1>7, <1>8, <1>9, <1>10, <1>11, <1>12, <1>13, <1>14, <1>15, <1>16, <1>17,
       <1>18, <1>19, <1>20, <1>21, <1>22, <1>23 DEF Next, ThreadStep, ClientStep

-----------------------------------------------------------------------------
(* The invariant of the thread, the formats and the allocation *)

Orderly ==
    /\ CodecTyped /\ BufferTyped /\ Protocol /\ Change /\ InputFormats
    /\ Allocated /\ PoolKept /\ Clean /\ Wake

\* The thread, the formats and the allocation stay in order.
LEMMA OrderlyInvariant == ASSUME Calm PROVE Spec => []Orderly
<1>1. Init => Orderly
    BY CodecTypedInit, BufferTypedInit, ProtocolInit, ChangeInit, InputFormatsInit, AllocatedInit,
       PoolKeptInit, CleanInit, WakeInit DEF Orderly
<1>2. Orderly /\ [Next]_vars => Orderly'
    BY CodecTypedStep, BufferTypedStep, ProtocolStep, ChangeStep, InputFormatsStep, AllocatedStep,
       PoolKeptStep, CleanStep, WakeStep DEF Orderly
<1>3. QED
    BY <1>1, <1>2, PTL DEF Spec

\* The pool of the decoder always knows the surfaces it is handed: acquire() in
\* VaapiDecSurfacePool never finds a surface that ensureSurfacePool() did not see,
\* whatever the number of buffers, formats and format changes.
THEOREM PoolIsKnown == ASSUME Calm PROVE Spec => []PoolKnowsSurface
<1>1. Orderly => PoolKnowsSurface
    BY PoolKnows DEF Orderly
<1>2. QED
    BY <1>1, OrderlyInvariant, PTL

\* A thread with nothing to run waits for something that has not come: the jobs that
\* getInputJob(), getOutputJob(), the two ready jobs and checkAllocationJob() post
\* to one another never leave it asleep with its input or a surface at hand.
THEOREM NoLostWakeUp == ASSUME Calm PROVE Spec => []IdleHasReason
<1>1. Orderly => IdleHasReason
    <2> SUFFICES ASSUME Orderly, started, jobs = <<>>, step = "none"
                 PROVE  \/ state = "kWaitInput" /\ (inQ = <<>> \/ call = "inPost")
                        \/ state = "kWaitSurface" /\ (~HasFree(getter) \/ call = "capPost")
                        \/ state = "kWaitAllocation" /\ (event \/ phase # "run")
        BY DEF IdleHasReason
    <2>1. Queued = {}
        BY ListEmpty DEF Queued
    <2>2. state \in {"kWaitInput", "kWaitSurface", "kWaitAllocation"}
        BY <2>1 DEF Orderly, Protocol, ThreadTyped, States, StartFirst, Handshake, StepState, Wake
    <2>3. state = "kWaitInput" => inQ = <<>> \/ call = "inPost"
        BY <2>1 DEF Orderly, Wake
    <2>4. state = "kWaitSurface" => ~HasFree(getter) \/ call = "capPost"
        BY <2>1 DEF Orderly, Wake
    <2>5. state = "kWaitAllocation" => event \/ phase # "run"
        BY <2>1 DEF Orderly, Change
    <2>6. QED
        BY <2>2, <2>3, <2>4, <2>5
<1>2. QED
    BY <1>1, OrderlyInvariant, PTL

\* When STREAMOFF of the input is over, no input buffer, picture or frame from before
\* the seek is left in the queues, the codec or getOutputJob().
THEOREM SeekForgetsAll == ASSUME Calm PROVE Spec => []SeekForgets
<1>1. Orderly => SeekForgets
    <2> SUFFICES ASSUME Orderly, phase \in {"resume", "restart"}, ~inputOn
                 PROVE  inQ = <<>> /\ outQ = <<>> /\ Held(codec) = {} /\ frame = None
        BY DEF SeekForgets
    <2>1. state = "kUnStarted" /\ step = "none"
        BY DEF Orderly, Protocol, Handshake
    <2>2. codec.cur = None /\ codec.refs = {} /\ codec.outs = <<>>
        BY <2>1 DEF Orderly, Clean, CodecClean
    <2>3. Held(codec) = {}
        BY <2>2, ListEmpty DEF Held
    <2>4. QED
        BY <2>1, <2>3 DEF Orderly, Clean
<1>2. QED
    BY <1>1, OrderlyInvariant, PTL

-----------------------------------------------------------------------------
(* Who has which surface *)

Pics == (Held(codec) \cup {frame}) \ {None}

\* m_surfaces and m_surfaceMap agree, and the getter knows the surfaces but the one
\* that is being added.
Mapped ==
    /\ \A s \in DOMAIN smap : s \in alive /\ birth[s] # 0
    /\ \A s \in DOMAIN smap : smap[s] \in DOMAIN surfaces /\ surfaces[smap[s]] = s
    /\ \A i \in DOMAIN surfaces :
          surfaces[i] # 0 => surfaces[i] \in DOMAIN smap /\ smap[surfaces[i]] = i
    /\ \A s \in DOMAIN smap : s \in DOMAIN getter.used \/ (call = "capAdd" /\ s = surfaces[buf])
    /\ phase = "fill" \/ (phase = "request" /\ pending = 0) => epoch # 0

\* A picture of the codec is one acquisition of a surface, the only one of its id.
Pictured ==
    /\ \A h \in Pics : h.id \in Ids /\ birth[h.id] # 0 /\ h.birth = birth[h.id]
    /\ \A h, k \in Pics : h.id = k.id => h = k
    /\ state = "kWaitAllocation" => codec.outs = <<>>

\* holdAllByRenderer() took the surfaces from the decoder, for a new allocation.
Dropped == getter.freed = <<>> /\ ~outputOn /\ (phase = "free" \/ call = "clearOut")

\* "if no flag is set, the buffer/surface can be reused": the surfaces in m_freed are
\* known, once each, and without a holder.
FreedIsUnused(g) ==
    /\ IsInjective(g.freed) /\ Range(g.freed) \subseteq DOMAIN g.used
    /\ \A s \in Range(g.freed) : g.used[s] = {}

\* The surfaces in m_freed are held by nobody, those of the codec by the decoder.
Accounted ==
    /\ FreedIsUnused(getter)
    /\ \A h \in Pics : h.id \in DOMAIN getter.used => "decoder" \in getter.used[h.id] \/ Dropped
    /\ call = "capAdd" => /\ surfaces[buf] \notin DOMAIN getter.used
                          /\ \A h \in Pics : h.id # surfaces[buf]
    /\ call = "clearOut" => \A s \in DOMAIN getter.used : getter.used[s] = {"renderer"}

-----------------------------------------------------------------------------
(* Where the buffers are *)

Placed == mine \cup Range(outQ)

\* A buffer in m_out or with the client is held by the renderer, and is in one place.
Buffers ==
    /\ \A s \in DOMAIN getter.used : smap[s] \in Placed => "renderer" \in getter.used[s]
    /\ IsInjective(outQ) /\ Range(outQ) \cap mine = {}
    /\ call \in {"capAdd", "capFree"} => buf \notin Placed
    /\ call = "capFree" => /\ buf \in DOMAIN surfaces /\ surfaces[buf] \in DOMAIN getter.used
                           /\ "renderer" \in getter.used[surfaces[buf]]
    /\ outputOn \/ phase \in {"seek", "resume"} => last # 0

\* A picture that is to be put out is held by the decoder only, until output() hands
\* its surface, which has a buffer, over to the renderer.
PutOut ==
    /\ \A n \in DOMAIN codec.outs : /\ codec.outs[n] # None
                                    /\ codec.outs[n].id \in DOMAIN getter.used
                                    /\ getter.used[codec.outs[n].id] = {"decoder"}
    /\ \A m, n \in DOMAIN codec.outs : codec.outs[m].id = codec.outs[n].id => m = n
    /\ step \in {"put", "drop"} => frame # None
    /\ step = "put" =>
          /\ frame.id \in DOMAIN getter.used /\ "renderer" \in getter.used[frame.id]
          /\ smap[frame.id] \notin Placed
          /\ call = "capFree" => buf # smap[frame.id]
          /\ \A n \in DOMAIN codec.outs : codec.outs[n].id # frame.id

-----------------------------------------------------------------------------
(* The order of the frames *)

\* From the client back to m_in, the timestamps grow: the last one it got, those in
\* m_out, the frame being handed over, those in the codec, those in m_in.  The first
\* input may already be the last picture of the codec, until it is consumed.
Order ==
    /\ seen <= sent
    /\ \A n \in DOMAIN outQ : seen < stamp[outQ[n]] /\ stamp[outQ[n]] <= sent
    /\ \A n \in DOMAIN codec.outs : seen < codec.outs[n].ts /\ codec.outs[n].ts <= sent
    /\ \A n \in DOMAIN inQ : seen < inQ[n].ts /\ inQ[n].ts <= sent
    /\ \A m, n \in DOMAIN outQ : m < n => stamp[outQ[m]] < stamp[outQ[n]]
    /\ \A m, n \in DOMAIN codec.outs : m < n => codec.outs[m].ts < codec.outs[n].ts
    /\ \A m, n \in DOMAIN inQ : m < n => inQ[m].ts < inQ[n].ts
    /\ \A m \in DOMAIN outQ, n \in DOMAIN codec.outs : stamp[outQ[m]] < codec.outs[n].ts
    /\ \A m \in DOMAIN outQ, n \in DOMAIN inQ : stamp[outQ[m]] < inQ[n].ts
    /\ \A m \in DOMAIN codec.outs, n \in DOMAIN inQ :
          codec.outs[m].ts < inQ[n].ts \/ (step = "consume" /\ n = 1 /\ codec.outs[m].ts = inQ[n].ts)
    /\ step = "put" =>
          /\ seen < frame.ts /\ frame.ts <= sent
          /\ \A n \in DOMAIN outQ : stamp[outQ[n]] < frame.ts
          /\ \A n \in DOMAIN codec.outs : frame.ts < codec.outs[n].ts
          /\ \A n \in DOMAIN inQ : frame.ts < inQ[n].ts

\* The holders of the surfaces while the thread decodes, flushes or puts out: no
\* surface comes or goes.
LEMMA WorkGetter ==
    ASSUME BufferTyped, CodecTyped, Allocated,
           \/ StartDecoder \/ FlushDecoder \/ NoInput \/ DecodeEOS \/ DecodeFormatChange
           \/ DecodeFails \/ DecodeNoSurface \/ DecodePicture \/ FormatChange \/ NoSurface
           \/ Consume \/ OutputEmpty \/ OutputHold \/ OutputPut \/ OutputDrop
    PROVE  getter' \in Getters /\ DOMAIN getter'.used = DOMAIN getter.used
<1>1. getter \in Getters /\ "renderer" \in Holders /\ "decoder" \in Holders
    BY DEF BufferTyped, Holders
<1>2. CASE \/ StartDecoder \/ NoInput \/ FormatChange \/ NoSurface \/ Consume
           \/ OutputEmpty \/ OutputPut
    BY <1>1, <1>2 DEF StartDecoder, NoInput, FormatChange, NoSurface, Consume, OutputEmpty, OutputPut
<1>3. CASE \/ FlushDecoder \/ DecodeEOS \/ DecodeFormatChange \/ DecodeFails \/ DecodeNoSurface
           \/ DecodePicture
    BY <1>3, GetterStep DEF Next, ThreadStep
<1>4. CASE OutputHold
    BY <1>1, <1>4, GetterSet DEF OutputHold
<1>5. CASE OutputDrop
    BY <1>1, <1>5, GetterClear DEF OutputDrop
<1>6. QED
    BY <1>2, <1>3, <1>4, <1>5

\* Initially Mapped holds.
LEMMA MappedInit == Init => Mapped
    BY DEF Init, Mapped

\* Every step keeps Mapped.
LEMMA MappedStep ==
    ASSUME CodecTyped, BufferTyped, Protocol, Change, InputFormats, Allocated, Mapped,
           [Next]_vars
    PROVE  Mapped'
<1> USE DEF codecVars, pipeVars, outVars, vaVars, flagVars, userVars, threadVars
<1>1. /\ getter \in Getters /\ epoch \in Nat /\ epoch' \in Nat
      /\ "renderer" \in Holders /\ "decoder" \in Holders
    BY CodecTypedStep DEF BufferTyped, CodecTyped, Holders
\* Steps that change no surface and no map.
<1>2. ASSUME UNCHANGED <<smap, surfaces, alive, birth, epoch>>,
             DOMAIN getter'.used = DOMAIN getter.used,
             call # "capAdd" \/ UNCHANGED <<call, buf>>,
             (phase' = "fill" \/ (phase' = "request" /\ pending' = 0)) =>
                (phase = "fill" \/ (phase = "request" /\ pending = 0))
      PROVE  Mapped'
    BY <1>2 DEF Mapped
<1>3. CASE \/ StartDecoder \/ FlushDecoder \/ NoInput \/ DecodeEOS \/ DecodeFormatChange
           \/ DecodeFails \/ DecodeNoSurface \/ DecodePicture \/ FormatChange \/ NoSurface
           \/ Consume \/ OutputEmpty \/ OutputHold \/ OutputPut \/ OutputDrop
    <2>1. /\ phase \in {"run", "seek", "resume", "restart"}
          /\ UNCHANGED <<surfaces, smap, phase, call, buf, alive, birth, epoch>>
        BY <1>3, ThreadAtWork
    <2>2. DOMAIN getter'.used = DOMAIN getter.used
        BY <1>3, WorkGetter
    <2>3. QED
        BY <1>2, <2>1, <2>2
<1>4. CASE \/ RunJob \/ QueueInput \/ QueueInputPost \/ DequeInput \/ QueueBufferPost
           \/ DequeBuffer \/ StreamOffInputDone \/ RequestBuffersSend \/ QueueBuffer
           \/ UNCHANGED vars
    <2>1. /\ UNCHANGED <<surfaces, smap, phase, alive, birth, epoch, getter, pending>>
          /\ call # "capAdd" \/ UNCHANGED <<call, buf>>
        BY <1>4 DEF RunJob, QueueInput, QueueInputPost, DequeInput, QueueBufferPost,
           DequeBuffer, StreamOffInputDone, RequestBuffersSend, QueueBuffer, vars
    <2>2. QED
        BY <1>2, <2>1
<1>5. CASE \/ StreamOnInput \/ StreamOnOutput \/ StreamOffOutputClear \/ DequeEvent
           \/ StreamOffInput
    <2>1. /\ UNCHANGED <<surfaces, smap, alive, birth, epoch, getter, pending>>
          /\ call # "capAdd" /\ phase' \notin {"fill", "request"}
        BY <1>5 DEF StreamOnInput, StreamOnOutput, StreamOffOutputClear, DequeEvent, StreamOffInput
    <2>2. QED
        BY <1>2, <2>1
<1>6. CASE RequestBuffersReturn
    <2>1. /\ UNCHANGED <<surfaces, smap, alive, birth, epoch, getter, pending>>
          /\ call = "send" /\ phase \in {"free", "request"} /\ step # phase
          /\ phase' = IF phase = "free" THEN "request" ELSE "fill"
          /\ ~\E i \in 1..Len(jobs) : jobs[i] = phase
        BY <1>6, ThreadFacts DEF RequestBuffersReturn
    <2>2. phase \notin Queued
        <3>1. DOMAIN jobs = 1..Len(jobs)
            BY LenProperties, ThreadFacts
        <3>2. QED
            BY <2>1, <3>1 DEF Queued, Range
    <2>3. phase = "request" => pending = 0
        BY <2>1, <2>2 DEF Allocated
    <2>4. phase = "free" => pending # 0
        BY DEF Change
    <2>5. QED
        BY <1>2, <2>1, <2>3, <2>4
<1>7. CASE FreeBuffers
    <2>1. /\ phase = "free" /\ phase' = phase /\ surfaces' = <<>> /\ smap' = <<>>
        BY <1>7, ThreadFacts DEF FreeBuffers
    <2>2. DOMAIN surfaces' = {} /\ DOMAIN smap' = {}
        BY <2>1
    <2>3. QED
        BY <2>1, <2>2 DEF Mapped
<1>8. CASE RequestBuffers
    <2>1. /\ phase = "request" /\ smap' = smap /\ epoch' = epoch + 1
          /\ surfaces' = [i \in Indices |-> IF i <= Len(surfaces) THEN surfaces[i] ELSE 0]
        BY <1>8, ThreadFacts DEF RequestBuffers
    <2>2. DOMAIN smap = {}
        BY <2>1 DEF Allocated
    <2>3. \A i \in DOMAIN surfaces : surfaces[i] = 0
        BY <2>2 DEF Mapped
    <2>4. \A i \in DOMAIN surfaces' : surfaces'[i] = 0
        <3>1. DOMAIN surfaces = 1..Len(surfaces) /\ Len(surfaces) \in Nat
            BY LenProperties DEF BufferTyped
        <3>2. \A i \in Indices : i <= Len(surfaces) => i \in DOMAIN surfaces
            BY <3>1 DEF Indices
        <3>3. QED
            BY <2>1, <2>3, <3>2
    <2>5. epoch' # 0
        BY <1>1, <2>1
    <2>6. QED
        BY <2>1, <2>2, <2>4, <2>5 DEF Mapped
<1>9. CASE QueueNewBuffer
    <2>1. PICK i \in mine, s \in Ids :
             /\ surfaces[i] = 0
             /\ s \notin alive /\ alive' = alive \cup {s}
             /\ surfaces' = [surfaces EXCEPT ![i] = s]
             /\ smap' = [t \in DOMAIN smap \cup {s} |-> IF t = s THEN i ELSE smap[t]]
             /\ birth' = [birth EXCEPT ![s] = epoch]
             /\ buf' = i
        BY <1>9 DEF QueueNewBuffer
    <2>2. /\ getter' = getter /\ phase = "fill" /\ UNCHANGED <<phase, pending, epoch>>
          /\ call = "none" /\ call' = "capAdd"
        BY <1>9 DEF QueueNewBuffer
    <2>3. s \notin DOMAIN smap
        BY <2>1 DEF Mapped
    <2>4. epoch # 0
        BY <2>2 DEF Mapped
    <2>5. i \in DOMAIN surfaces /\ surfaces \in Seq(0..NIds) /\ s \in 0..NIds /\ s # 0
        <3>1. Room /\ i \in Indices
            BY <2>1, <2>2 DEF Allocated, BufferTyped
        <3>2. QED
            BY <3>1, LenProperties, DecoderNumbers DEF Room, Indices, BufferTyped
    <2>6. /\ DOMAIN surfaces' = DOMAIN surfaces
          /\ \A j \in DOMAIN surfaces : surfaces'[j] = IF j = i THEN s ELSE surfaces[j]
        BY <2>1, <2>5, ListExcept
    <2>7. /\ DOMAIN smap' = DOMAIN smap \cup {s} /\ smap'[s] = i
          /\ \A t \in DOMAIN smap : smap'[t] = smap[t]
        BY <2>1, <2>3
    <2>8. \A t \in DOMAIN smap' : t \in alive' /\ birth'[t] # 0
        <3>1. birth \in [Ids -> Nat] /\ DOMAIN smap \subseteq Ids
            BY DEF CodecTyped, BufferTyped
        <3>2. QED
            BY <2>1, <2>4, <2>7, <3>1 DEF Mapped
    <2>9. \A t \in DOMAIN smap' : smap'[t] \in DOMAIN surfaces' /\ surfaces'[smap'[t]] = t
        <3>1. \A t \in DOMAIN smap : smap[t] \in DOMAIN surfaces /\ surfaces[smap[t]] = t /\ t # 0
            BY DecoderNumbers DEF Mapped, BufferTyped
        <3>2. \A t \in DOMAIN smap : smap[t] # i
            BY <2>1, <3>1
        <3>3. QED
            BY <2>5, <2>6, <2>7, <3>1, <3>2
    <2>10. \A j \in DOMAIN surfaces' :
              surfaces'[j] # 0 => surfaces'[j] \in DOMAIN smap' /\ smap'[surfaces'[j]] = j
        BY <2>6, <2>7 DEF Mapped
    <2>11. \A t \in DOMAIN smap' :
              t \in DOMAIN getter'.used \/ (call' = "capAdd" /\ t = surfaces'[buf'])
        BY <2>1, <2>2, <2>5, <2>6, <2>7 DEF Mapped
    <2>12. QED
        BY <2>2, <2>4, <2>8, <2>9, <2>10, <2>11 DEF Mapped
<1>10. CASE QueueBufferGetter
    <2>1. /\ UNCHANGED <<surfaces, smap, alive, birth, epoch, phase, pending, buf>> /\ call' = "capPost"
        BY <1>10 DEF QueueBufferGetter
    <2>2. CASE call = "capAdd"
        <3>1. PICK s \in Ids : s = surfaces[buf]
            BY <2>2 DEF Allocated, BufferTyped
        <3>2. getter' = AddNewSurface(getter, s)
            BY <1>10, <2>2, <3>1 DEF QueueBufferGetter
        <3>3. DOMAIN getter'.used = DOMAIN getter.used \cup {s}
            BY <1>1, <3>1, <3>2, GetterAdd
        <3>4. QED
            BY <2>1, <3>1, <3>3 DEF Mapped
    <2>3. CASE call # "capAdd"
        <3>1. DOMAIN getter'.used = DOMAIN getter.used
            BY <1>1, <1>10, <2>3, GetterClear DEF QueueBufferGetter
        <3>2. QED
            BY <1>2, <2>1, <2>3, <3>1
    <2>4. QED
        BY <2>2, <2>3
<1>11. CASE DequeFreeBuffer
    <2>1. /\ UNCHANGED <<surfaces, smap, alive, birth, epoch, phase, pending, call, buf>>
          /\ HasFree(getter) /\ getter' = TakeOneFree(getter, "renderer")
        BY <1>11 DEF DequeFreeBuffer
    <2>2. Head(getter.freed) \in DOMAIN getter.used
        BY <1>1, <2>1, ListTail, GetterParts DEF HasFree, Allocated
    <2>3. DOMAIN getter'.used = DOMAIN getter.used
        BY <1>1, <2>1, <2>2, GetterTake
    <2>4. QED
        BY <1>2, <2>1, <2>3
<1>12. CASE StreamOffOutput
    <2>1. /\ UNCHANGED <<surfaces, smap, alive, birth, epoch, phase, pending>> /\ call = "none"
          /\ getter' = HoldAllByRenderer(getter)
        BY <1>12 DEF StreamOffOutput
    <2>2. DOMAIN getter'.used = DOMAIN getter.used
        BY <1>1, <2>1, GetterHoldAll
    <2>3. QED
        BY <1>2, <2>1, <2>2
<1>13. QED
    BY <1>3, <1>4, <1>5, <1>6, <1>7, <1>8, <1>9, <1>10, <1>11, <1>12 DEF Next, ThreadStep, ClientStep

-----------------------------------------------------------------------------
(* The pictures of the codec *)

\* What decode() and flush() let go of, with no picture made.
LEMMA CodecLetsGo ==
    ASSUME CodecTyped, BufferTyped,
           FlushDecoder \/ DecodeEOS \/ DecodeFormatChange \/ DecodeFails \/ DecodeNoSurface
    PROVE  /\ Held(codec') \subseteq Held(codec) /\ frame' = frame
           /\ codec'.outs = codec.outs \/ codec'.outs = <<>>
           /\ step \in {"flush", "getInput"}
<1>1. /\ codec \in Codecs /\ frame' = frame /\ step \in {"flush", "getInput"}
    BY DEF CodecTyped, FlushDecoder, DecodeEOS, DecodeFormatChange, DecodeFails, DecodeNoSurface,
       Decoded, CannotDecode, CanDecode, Peek
<1>2. ASSUME codec'.cur \in {codec.cur, None}, codec'.refs \subseteq codec.refs,
             codec'.outs = codec.outs \/ codec'.outs = <<>>
      PROVE  Held(codec') \subseteq Held(codec)
    BY <1>2, ListEmpty DEF Held
<1>3. CASE FlushDecoder \/ DecodeEOS \/ DecodeFormatChange
    <2>1. codec' \in {codec, CodecFlushed(codec), CodecEnded(codec), [codec EXCEPT !.fmt = Head(inQ).fmt]}
        BY <1>3 DEF FlushDecoder, DecodeEOS, DecodeFormatChange, Decoded
    <2>2. /\ codec'.cur \in {codec.cur, None} /\ codec'.refs \subseteq codec.refs
          /\ codec'.outs = codec.outs \/ codec'.outs = <<>>
        BY <1>1, <2>1 DEF CodecFlushed, CodecEnded, Codecs
    <2>3. QED
        BY <1>1, <1>2, <2>2
<1>4. CASE DecodeFails \/ DecodeNoSurface
    <2>1. codec' = codec \/ codec' = ProfileEnsured(PoolEnsured(codec)) \/ codec' = Ready
        BY <1>4 DEF DecodeFails, DecodeNoSurface, Decoded
    <2>2. codec'.cur = codec.cur /\ codec'.refs = codec.refs /\ codec'.outs = codec.outs
        BY <2>1, ReadyFormats
    <2>3. QED
        BY <1>1, <1>2, <2>2
<1>5. QED
    BY <1>3, <1>4

\* decodePicture() takes the first free surface for a new picture, the last to be put
\* out, and lets go of some references.
LEMMA PictureDecoded ==
    ASSUME CodecTyped, BufferTyped, Allocated, DecodePicture
    PROVE  /\ HasFree(getter) /\ Head(getter.freed) \in DOMAIN getter.used
           /\ inQ # <<>> /\ step = "getInput" /\ step' = "consume" /\ frame' = frame
           /\ inQ' = inQ
           /\ \E p \in Pictures :
                 /\ p.id = Head(getter.freed) /\ p.id \in Ids /\ p # None
                 /\ p.birth = birth[p.id] /\ p.ts = Head(inQ).ts
                 /\ codec'.outs = Append(codec.outs, p)
                 /\ Held(codec') \subseteq Held(codec) \cup {p}
           /\ getter' \in Released(codec, codec', TakeOneFree(getter, "decoder"))
<1>1. /\ HasFree(getter) /\ inQ # <<>> /\ step = "getInput" /\ step' = "consume" /\ frame' = frame
      /\ inQ' = inQ
      /\ getter' \in Released(codec, codec', TakeOneFree(getter, "decoder"))
    BY DEF DecodePicture, CanDecode, Peek, Decoded, pipeVars
<1>2. Head(getter.freed) \in Ids /\ Head(getter.freed) \in DOMAIN getter.used
    BY <1>1, ListTail, GetterParts DEF HasFree, BufferTyped, Allocated
<1>3. PICK p : p = [id |-> Head(getter.freed), birth |-> birth[Head(getter.freed)], ts |-> Head(inQ).ts]
    OBVIOUS
<1>4. p \in Pictures /\ p.id \in Ids /\ p.id # 0
    BY <1>1, <1>2, <1>3, HeadTyped, DecoderNumbers DEF Pictures, CodecTyped
<1>5. PICK c \in Codecs : c = Ready
    BY ReadyTyped
<1>6. c.cur = codec.cur /\ c.refs = codec.refs /\ c.outs = codec.outs /\ c.outs \in Seq(Pictures)
    BY <1>5, ReadyFormats DEF Codecs
<1>7. PICK r : r \subseteq codec.refs \cup {p}
                /\ codec' = [c EXCEPT !.cur = p, !.refs = r, !.outs = Append(@, p)]
    BY <1>3, <1>5 DEF DecodePicture, Decoded
<1>8. codec'.cur = p /\ codec'.refs = r /\ codec'.outs = Append(codec.outs, p)
    BY <1>5, <1>6, <1>7 DEF Codecs
<1>9. Range(codec'.outs) = Range(codec.outs) \cup {p}
    BY <1>4, <1>6, <1>8, ListAppend
<1>10. Held(codec') \subseteq Held(codec) \cup {p}
    BY <1>7, <1>8, <1>9 DEF Held
<1>11. p # None
    BY <1>4, DecoderNumbers
<1>12. QED
    BY <1>1, <1>2, <1>3, <1>4, <1>8, <1>10, <1>11

\* No other step makes a picture.
LEMMA PicsStep ==
    ASSUME CodecTyped, BufferTyped, [Next]_vars, ~DecodePicture
    PROVE  Pics' \subseteq Pics
<1> USE DEF codecVars, pipeVars, outVars, vaVars, flagVars, userVars, threadVars
<1>1. codec \in Codecs
    BY DEF CodecTyped
<1>2. ASSUME Held(codec') \subseteq Held(codec), frame' = frame PROVE Pics' \subseteq Pics
    BY <1>2 DEF Pics
<1>3. CASE FlushDecoder \/ DecodeEOS \/ DecodeFormatChange \/ DecodeFails \/ DecodeNoSurface
    BY <1>2, <1>3, CodecLetsGo
<1>4. CASE StartDecoder
    <2>1. codec'.cur = codec.cur /\ codec'.refs = codec.refs /\ codec'.outs = codec.outs /\ frame' = frame
        BY <1>1, <1>4 DEF StartDecoder, Codecs
    <2>2. QED
        BY <1>2, <2>1 DEF Held
<1>5. CASE \/ RunJob \/ FreeBuffers \/ RequestBuffers \/ NoInput \/ FormatChange \/ NoSurface
           \/ Consume \/ OutputEmpty \/ OutputPut
    BY <1>2, <1>5 DEF RunJob, FreeBuffers, RequestBuffers, NoInput, FormatChange, NoSurface,
       Consume, OutputEmpty, OutputPut
<1>6. CASE \/ StreamOnInput \/ QueueInput \/ QueueInputPost \/ DequeInput \/ QueueNewBuffer
           \/ QueueBuffer \/ QueueBufferGetter \/ QueueBufferPost \/ DequeBuffer \/ DequeFreeBuffer
           \/ StreamOnOutput \/ StreamOffOutput \/ StreamOffOutputClear
           \/ DequeEvent \/ RequestBuffersSend \/ RequestBuffersReturn
           \/ StreamOffInput \/ StreamOffInputDone \/ UNCHANGED vars
    BY <1>2, <1>6 DEF StreamOnInput, QueueInput, QueueInputPost, DequeInput, QueueNewBuffer,
       QueueBuffer, QueueBufferGetter, QueueBufferPost, DequeBuffer, DequeFreeBuffer, StreamOnOutput,
       StreamOffOutput, StreamOffOutputClear, DequeEvent, RequestBuffersSend,
       RequestBuffersReturn, StreamOffInput, StreamOffInputDone, vars
<1>7. CASE OutputHold
    <2>1. /\ frame' = Head(codec.outs) /\ codec.outs # <<>>
          /\ codec'.cur = codec.cur /\ codec'.refs = codec.refs /\ codec'.outs = Tail(codec.outs)
        BY <1>1, <1>7 DEF OutputHold, Codecs
    <2>2. Range(codec.outs) = {frame'} \cup Range(codec'.outs)
        BY <1>1, <2>1, ListTail DEF Codecs
    <2>3. QED
        BY <2>1, <2>2 DEF Pics, Held
<1>8. CASE OutputDrop
    BY <1>8 DEF OutputDrop, Pics
<1>9. QED
    BY <1>3, <1>4, <1>5, <1>6, <1>7, <1>8 DEF Next, ThreadStep, ClientStep

\* Initially Pictured holds.
LEMMA PicturedInit == Init => Pictured
<1> SUFFICES ASSUME Init PROVE Pictured
    OBVIOUS
<1>1. /\ codec.cur = None /\ codec.refs = {} /\ codec.outs = <<>> /\ frame = None
    BY DEF Init
<1>2. Pics = {}
    BY <1>1, ListEmpty DEF Pics, Held
<1>3. QED
    BY <1>1, <1>2 DEF Pictured

\* At work the thread finds its pictures held by the decoder.
LEMMA DecoderHolds ==
    ASSUME Protocol, Change, Accounted, step # "none", phase \in {"run", "seek", "resume", "restart"}
    PROVE  \A h \in Pics : h.id \in DOMAIN getter.used => "decoder" \in getter.used[h.id]
<1>1. inputOn
    BY ThreadFacts
<1>2. call = "clearOut" => phase = "seek"
    BY ThreadFacts
<1>3. phase = "seek" => call = "stop"
    BY <1>1, ThreadFacts
<1>4. ~Dropped
    BY <1>2, <1>3 DEF Dropped
<1>5. QED
    BY <1>4 DEF Accounted

\* What queue() of a new buffer knows of the id that the driver gives.
LEMMA NotOfPicture ==
    ASSUME QueueNewBuffer, ~GivenWhileHeld
    PROVE  \E i \in mine, s \in Ids :
              /\ s \notin alive /\ \A h \in Pics : h.id # s
              /\ surfaces' = [surfaces EXCEPT ![i] = s] /\ buf' = i
              /\ birth' = [birth EXCEPT ![s] = epoch]
<1>1. PICK i \in mine, s \in Ids :
         /\ s \notin alive /\ alive' = alive \cup {s}
         /\ surfaces' = [surfaces EXCEPT ![i] = s] /\ buf' = i
         /\ birth' = [birth EXCEPT ![s] = epoch]
    BY DEF QueueNewBuffer
<1>2. s \notin PictureIds
    BY <1>1 DEF GivenWhileHeld
<1>3. \A h \in Pics : h.id \in PictureIds
    BY DEF Pics, PictureIds
<1>4. QED
    BY <1>1, <1>2, <1>3

\* Every step keeps Pictured.
LEMMA PicturedStep ==
    ASSUME CodecTyped, BufferTyped, Protocol, Change, InputFormats, Allocated, Mapped, Pictured,
           Accounted, ~GivenWhileHeld, [Next]_vars
    PROVE  Pictured'
<1> USE DEF codecVars, pipeVars, outVars, vaVars, flagVars, userVars, threadVars
<1>1. codec \in Codecs /\ birth \in [Ids -> Nat] /\ getter \in Getters /\ DOMAIN getter.used \subseteq Ids
    BY GetterParts DEF CodecTyped, BufferTyped
<1>2. ASSUME Pics' \subseteq Pics, \A h \in Pics : birth'[h.id] = birth[h.id],
             state' = "kWaitAllocation" => codec'.outs = <<>>
      PROVE  Pictured'
    BY <1>2 DEF Pictured
<1>3. CASE DecodePicture
    <2>1. PICK p \in Pictures : /\ p.id = Head(getter.freed) /\ p.id \in Ids /\ p # None
                               /\ p.birth = birth[p.id]
                               /\ Held(codec') \subseteq Held(codec) \cup {p}
        BY <1>3, PictureDecoded
    <2>2. /\ HasFree(getter) /\ p.id \in DOMAIN getter.used /\ frame' = frame /\ step = "getInput"
        BY <1>3, <2>1, PictureDecoded
    <2>3. birth' = birth /\ state' = "kGetInput" /\ phase \in {"run", "seek", "resume", "restart"}
        BY <1>3, <2>2, ThreadAtWork, ThreadFacts DEF DecodePicture, Decoded
    <2>4. Pics' \subseteq Pics \cup {p}
        BY <2>1, <2>2 DEF Pics
    <2>5. birth[p.id] # 0
        BY <2>2 DEF Mapped, Allocated
    <2>6. \A h \in Pics : h.id # p.id
        <3>1. p.id \in Range(getter.freed)
            BY <1>1, <2>1, <2>2, ListTail, GetterParts DEF HasFree
        <3>2. getter.used[p.id] = {}
            BY <3>1 DEF Accounted, FreedIsUnused
        <3>3. \A h \in Pics : h.id \in DOMAIN getter.used => "decoder" \in getter.used[h.id]
            BY <2>2, <2>3, DecoderHolds
        <3>4. QED
            BY <2>2, <3>2, <3>3
    <2>7. QED
        BY <2>1, <2>3, <2>4, <2>5, <2>6 DEF Pictured
<1>4. CASE QueueNewBuffer
    <2>1. PICK s \in Ids : birth' = [birth EXCEPT ![s] = epoch] /\ \A h \in Pics : h.id # s
        BY <1>4, NotOfPicture
    <2>2. codec' = codec /\ frame' = frame /\ state' = state
        BY <1>4 DEF QueueNewBuffer
    <2>3. Pics' = Pics
        BY <2>2 DEF Pics
    <2>4. QED
        BY <1>1, <1>2, <2>1, <2>2, <2>3 DEF Pictured
<1>5. CASE ~DecodePicture /\ ~QueueNewBuffer
    <2>1. Pics' \subseteq Pics
        BY <1>5, PicsStep
    <2>2. birth' = birth
        BY <1>5 DEF Next, ThreadStep, ClientStep, RunJob, StartDecoder, FlushDecoder, FreeBuffers,
           RequestBuffers, NoInput, DecodeEOS, DecodeFormatChange, DecodeFails, DecodeNoSurface,
           Decoded, FormatChange, NoSurface, Consume, OutputEmpty, OutputHold, OutputPut, OutputDrop,
           StreamOnInput, QueueInput, QueueInputPost, DequeInput, QueueBuffer, QueueBufferGetter,
           QueueBufferPost, DequeBuffer, DequeFreeBuffer, StreamOnOutput, StreamOffOutput,
           StreamOffOutputClear, DequeEvent, RequestBuffersSend, RequestBuffersReturn,
           StreamOffInput, StreamOffInputDone, vars
    <2>3. state' = "kWaitAllocation" => codec'.outs = <<>>
        <3>1. CASE OutputEmpty
            BY <3>1 DEF OutputEmpty
        <3>2. CASE NoSurface
            <4>1. step = "noSurface" /\ phase \in {"run", "seek", "resume", "restart"}
                BY <3>2, ThreadAtWork DEF NoSurface
            <4>2. codec.fmt # 0 /\ pending = 0
                BY <4>1, ThreadFacts DEF InputFormats
            <4>3. AllocationDone
                BY <4>1, <4>2, BuffersReady
            <4>4. QED
                BY <3>2, <4>3 DEF NoSurface
        <3>3. CASE FlushDecoder \/ FormatChange \/ OutputHold \/ StartDecoder \/ NoInput \/ Consume
                   \/ OutputPut \/ OutputDrop \/ StreamOffInputDone
                   \/ DecodeEOS \/ DecodeFormatChange \/ DecodeFails \/ DecodeNoSurface
            <4>1. state' # "kWaitAllocation"
                BY <3>3, ThreadFacts DEF FlushDecoder, FormatChange, OutputHold, StartDecoder, NoInput,
                   Consume, OutputPut, OutputDrop, StreamOffInputDone,
                   DecodeEOS, DecodeFormatChange, DecodeFails, DecodeNoSurface, Decoded, CannotDecode,
                   CanDecode, Peek
            <4>2. QED
                BY <4>1
        <3>4. CASE \/ RunJob \/ FreeBuffers \/ RequestBuffers
                   \/ StreamOnInput \/ QueueInput \/ QueueInputPost \/ DequeInput
                   \/ QueueBuffer \/ QueueBufferGetter \/ QueueBufferPost \/ DequeBuffer
                   \/ DequeFreeBuffer \/ StreamOnOutput \/ StreamOffOutput \/ StreamOffOutputClear
                   \/ DequeEvent \/ RequestBuffersSend \/ RequestBuffersReturn
                   \/ StreamOffInput \/ UNCHANGED vars
            <4>1. codec' = codec /\ (state' = state \/ state' \in {"kGetInput", "kGetOutput"})
                BY <3>4 DEF RunJob, FreeBuffers, RequestBuffers, StreamOnInput, QueueInput,
                   QueueInputPost, DequeInput, QueueBuffer, QueueBufferGetter, QueueBufferPost,
                   DequeBuffer, DequeFreeBuffer, StreamOnOutput, StreamOffOutput,
                   StreamOffOutputClear, DequeEvent, RequestBuffersSend, RequestBuffersReturn,
                   StreamOffInput, vars
            <4>2. QED
                BY <4>1 DEF Pictured
        <3>5. QED
            BY <1>5, <3>1, <3>2, <3>3, <3>4 DEF Next, ThreadStep, ClientStep
    <2>4. QED
        BY <1>2, <2>1, <2>2, <2>3
<1>6. QED
    BY <1>3, <1>4, <1>5

-----------------------------------------------------------------------------
(* The holders of a surface *)

\* Each operation of the getter keeps the freed surfaces unused.

\* takeOneFree()
LEMMA TakeUnused ==
    ASSUME NEW g \in Getters, FreedIsUnused(g), HasFree(g), NEW h \in Holders,
           NEW d, d = TakeOneFree(g, h)
    PROVE  /\ FreedIsUnused(d) /\ d \in Getters /\ DOMAIN d.used = DOMAIN g.used
           /\ Head(g.freed) \in DOMAIN g.used /\ g.used[Head(g.freed)] = {}
           /\ d.used[Head(g.freed)] = {h}
           /\ \A t \in DOMAIN g.used : t # Head(g.freed) => d.used[t] = g.used[t]
<1>1. g.freed \in Seq(Ids) /\ g.freed # <<>>
    BY GetterParts DEF HasFree
<1>2. /\ Range(g.freed) = {Head(g.freed)} \cup Range(Tail(g.freed))
      /\ IsInjective(Tail(g.freed)) /\ Head(g.freed) \notin Range(Tail(g.freed))
    BY <1>1, ListTail DEF FreedIsUnused
<1>3. Head(g.freed) \in DOMAIN g.used /\ g.used[Head(g.freed)] = {}
    BY <1>2 DEF FreedIsUnused
<1>4. /\ d \in Getters /\ d.freed = Tail(g.freed) /\ DOMAIN d.used = DOMAIN g.used
      /\ d.used[Head(g.freed)] = {h}
      /\ \A t \in DOMAIN g.used : t # Head(g.freed) => d.used[t] = g.used[t]
    BY <1>3, GetterTake
<1>5. FreedIsUnused(d)
    BY <1>2, <1>4 DEF FreedIsUnused
<1>6. QED
    BY <1>3, <1>4, <1>5

\* putSurface()
LEMMA PutUnused ==
    ASSUME NEW g \in Getters, FreedIsUnused(g), NEW S, NEW d \in PutSurfaces(g, S)
    PROVE  FreedIsUnused(d)
<1>0. g.freed \in Seq(Ids)
    BY GetterParts
<1>1. /\ d \in Getters /\ DOMAIN d.used = DOMAIN g.used
      /\ \A t \in DOMAIN g.used :
            d.used[t] = IF t \in S THEN g.used[t] \ {"decoder"} ELSE g.used[t]
    BY GetterPut
<1>2. PICK left \in Seq(Ids) :
         /\ d.freed = g.freed \o left /\ IsInjective(left)
         /\ \A t \in Range(left) : t \in S /\ t \in DOMAIN g.used /\ g.used[t] = {"decoder"}
    BY GetterPut
<1>3. Range(g.freed) \cap Range(left) = {}
    BY <1>2 DEF FreedIsUnused
<1>4. Range(d.freed) = Range(g.freed) \cup Range(left) /\ IsInjective(d.freed)
    BY <1>0, <1>1, <1>2, <1>3, ListConcat DEF FreedIsUnused
<1>5. \A s \in Range(d.freed) : s \in DOMAIN g.used /\ d.used[s] = {}
    BY <1>1, <1>2, <1>4 DEF FreedIsUnused
<1>6. QED
    BY <1>1, <1>4, <1>5 DEF FreedIsUnused

\* clearFlag()
LEMMA ClearUnused ==
    ASSUME NEW g \in Getters, FreedIsUnused(g), NEW s, NEW h \in Holders,
           NEW d, d = ClearFlag(g, s, h)
    PROVE  FreedIsUnused(d)
<1>1. /\ DOMAIN d.used = DOMAIN g.used /\ g.freed \in Seq(Ids) /\ DOMAIN g.used \subseteq Ids
      /\ d.freed = g.freed
         \/ (s \in DOMAIN g.used /\ g.used[s] = {h} /\ d.freed = Append(g.freed, s))
      /\ s \in DOMAIN g.used => d.used[s] = g.used[s] \ {h}
      /\ \A t \in DOMAIN g.used : t # s => d.used[t] = g.used[t]
    BY GetterClear, GetterParts
<1>2. CASE d.freed = g.freed
    BY <1>1, <1>2 DEF FreedIsUnused
<1>3. CASE s \in DOMAIN g.used /\ g.used[s] = {h} /\ d.freed = Append(g.freed, s)
    <2>1. s \in Ids /\ s \notin Range(g.freed)
        BY <1>1, <1>3 DEF FreedIsUnused
    <2>2. Range(d.freed) = Range(g.freed) \cup {s} /\ IsInjective(d.freed)
        BY <1>1, <1>3, <2>1, ListAppend DEF FreedIsUnused
    <2>3. d.used[s] = {}
        BY <1>1, <1>3
    <2>4. QED
        BY <1>1, <1>3, <2>1, <2>2, <2>3 DEF FreedIsUnused
<1>4. QED
    BY <1>1, <1>2, <1>3

\* addNewSurface() of a surface the getter does not know.
LEMMA AddUnused ==
    ASSUME NEW g \in Getters, FreedIsUnused(g), NEW s \in Ids, s \notin DOMAIN g.used,
           NEW d, d = AddNewSurface(g, s)
    PROVE  FreedIsUnused(d)
<1>1. /\ d.freed = Append(g.freed, s) /\ DOMAIN d.used = DOMAIN g.used \cup {s}
      /\ d.used[s] = {} /\ \A t \in DOMAIN g.used : t # s => d.used[t] = g.used[t]
    BY GetterAdd
<1>2. g.freed \in Seq(Ids) /\ s \notin Range(g.freed)
    BY GetterParts DEF FreedIsUnused
<1>3. Range(d.freed) = Range(g.freed) \cup {s} /\ IsInjective(d.freed)
    BY <1>1, <1>2, ListAppend DEF FreedIsUnused
<1>4. QED
    BY <1>1, <1>3 DEF FreedIsUnused

\* What decode() and flush() do to the holders: the decoder keeps its hold on the
\* pictures it keeps and takes one on the new picture; the renderer is not disturbed.
LEMMA DecodeHolders ==
    ASSUME CodecTyped, BufferTyped, Protocol, Change, InputFormats, Allocated, PoolKept, Clean,
           Pictured, Accounted,
           \/ FlushDecoder \/ DecodeEOS \/ DecodeFormatChange \/ DecodeFails \/ DecodeNoSurface
           \/ DecodePicture
    PROVE  /\ getter' \in Getters /\ FreedIsUnused(getter') /\ DOMAIN getter'.used = DOMAIN getter.used
           /\ \A h \in Pics' : h.id \in DOMAIN getter.used => "decoder" \in getter'.used[h.id]
           /\ \A h \in Pics : h \in Pics' /\ h.id \in DOMAIN getter.used =>
                 getter'.used[h.id] = getter.used[h.id]
           /\ \A t \in DOMAIN getter.used :
                 "renderer" \in getter.used[t] => "renderer" \in getter'.used[t]
           /\ DecodePicture => getter'.used[Head(getter.freed)] = {"decoder"}
<1> DEFINE R == {h.id : h \in Held(codec) \ Held(codec')}
<1>1. /\ getter \in Getters /\ "decoder" \in Holders /\ "renderer" \in Holders
      /\ FreedIsUnused(getter) /\ frame' = frame /\ step \in {"flush", "getInput"}
      /\ phase \in {"run", "seek", "resume", "restart"}
    BY CodecLetsGo, PictureDecoded, ThreadAtWork DEF BufferTyped, Holders, Accounted
<1>2. frame = None /\ Pics = Held(codec) /\ Pics' = Held(codec')
    BY <1>1 DEF Clean, Pics, Held
<1>3. \A h \in Pics : h.id \in DOMAIN getter.used => "decoder" \in getter.used[h.id]
    BY <1>1, DecoderHolds
<1>4. \A h \in Pics : h \in Pics' => h.id \notin R
    BY <1>2 DEF Pictured
<1>5. \A t \in R : t \in DOMAIN getter.used => "decoder" \in getter.used[t]
    BY <1>2, <1>3
<1>6. CASE ~DecodePicture
    <2>1. getter' \in PutSurfaces(getter, R) /\ Held(codec') \subseteq Held(codec)
        <3>1. CASE FlushDecoder \/ DecodeEOS \/ DecodeFormatChange \/ DecodeFails
            BY <3>1, CodecLetsGo DEF FlushDecoder, DecodeEOS, DecodeFormatChange, DecodeFails, Decoded, Released
        <3>2. CASE DecodeNoSurface
            <4>1. ~HasFree(getter)
                BY <3>2, NoSurfaceGetter
            <4>2. QED
                BY <3>2, <4>1, CodecLetsGo DEF DecodeNoSurface, Decoded, Released
        <3>3. QED
            BY <1>6, <3>1, <3>2
    <2> HIDE DEF R
    <2>2. /\ getter' \in Getters /\ DOMAIN getter'.used = DOMAIN getter.used
          /\ \A t \in DOMAIN getter.used :
                getter'.used[t] = IF t \in R THEN getter.used[t] \ {"decoder"} ELSE getter.used[t]
        BY <1>1, <2>1, GetterPut
    <2>3. FreedIsUnused(getter')
        BY <1>1, <2>1, PutUnused
    <2>4. Pics' \subseteq Pics
        BY <1>2, <2>1
    <2>5. QED
        BY <1>3, <1>4, <1>6, <2>2, <2>3, <2>4
<1>7. CASE DecodePicture
    <2>1. PICK p \in Pictures : p.id = Head(getter.freed) /\ Held(codec') \subseteq Held(codec) \cup {p}
        BY <1>7, PictureDecoded
    <2>2. PICK g : g = TakeOneFree(getter, "decoder")
        OBVIOUS
    <2>3. HasFree(getter) /\ p.id \in DOMAIN getter.used /\ getter' \in PutSurfaces(g, R)
        BY <1>7, <2>1, <2>2, PictureDecoded DEF Released
    <2> HIDE DEF R
    <2>4. /\ g \in Getters /\ FreedIsUnused(g) /\ DOMAIN g.used = DOMAIN getter.used
          /\ getter.used[p.id] = {} /\ g.used[p.id] = {"decoder"}
          /\ \A t \in DOMAIN getter.used : t # p.id => g.used[t] = getter.used[t]
        BY <1>1, <2>1, <2>2, <2>3, TakeUnused
    <2>5. /\ getter' \in Getters /\ DOMAIN getter'.used = DOMAIN g.used
          /\ \A t \in DOMAIN g.used :
                getter'.used[t] = IF t \in R THEN g.used[t] \ {"decoder"} ELSE g.used[t]
        <3>1. g \in Getters /\ getter' \in PutSurfaces(g, R)
            BY <2>3, <2>4
        <3>2. QED
            BY <3>1, GetterPut
    <2>6. FreedIsUnused(getter')
        BY <2>3, <2>4, PutUnused
    <2>7. p.id \notin R /\ \A h \in Pics : h.id # p.id
        BY <1>3, <1>5, <2>3, <2>4
    <2>8. Pics' \subseteq Pics \cup {p}
        BY <1>2, <2>1
    <2>9. getter'.used[p.id] = {"decoder"}
        BY <2>3, <2>4, <2>5, <2>7
    <2>10. \A t \in DOMAIN getter.used : t # p.id /\ t \notin R => getter'.used[t] = getter.used[t]
        BY <2>4, <2>5
    <2>11. \A h \in Pics' : h.id \in DOMAIN getter.used => "decoder" \in getter'.used[h.id]
        BY <1>3, <1>4, <2>7, <2>8, <2>9, <2>10
    <2>12. \A t \in DOMAIN getter.used :
              "renderer" \in getter.used[t] => "renderer" \in getter'.used[t]
        BY <2>4, <2>5
    <2>13. QED
        BY <1>4, <2>1, <2>4, <2>5, <2>6, <2>7, <2>9, <2>10, <2>11, <2>12
<1>8. QED
    BY <1>6, <1>7

\* Initially Accounted holds.
LEMMA AccountedInit == Init => Accounted
<1> SUFFICES ASSUME Init PROVE Accounted
    OBVIOUS
<1>1. /\ codec.cur = None /\ codec.refs = {} /\ codec.outs = <<>> /\ frame = None
      /\ getter = EmptyGetter /\ call = "none"
    BY DEF Init
<1>2. Pics = {}
    BY <1>1, ListEmpty DEF Pics, Held
<1>3. QED
    BY <1>1, <1>2, GetterEmpty, ListEmpty DEF Accounted, FreedIsUnused

\* Every step keeps Accounted.
LEMMA AccountedStep ==
    ASSUME CodecTyped, BufferTyped, Protocol, Change, InputFormats, Allocated, PoolKept, Clean,
           Mapped, Pictured, Accounted, ~GivenWhileHeld, [Next]_vars
    PROVE  Accounted'
<1> USE DEF codecVars, pipeVars, outVars, vaVars, flagVars, userVars, threadVars
<1>1. /\ getter \in Getters /\ FreedIsUnused(getter) /\ DOMAIN getter.used \subseteq Ids
      /\ "renderer" \in Holders /\ "decoder" \in Holders
    BY GetterParts DEF BufferTyped, Holders, Accounted
<1>2. \A h \in Pics : h.id \in DOMAIN getter.used => "decoder" \in getter.used[h.id] \/ Dropped
    BY DEF Accounted
\* Steps that leave the getter alone.
<1>3. ASSUME getter' = getter, Pics' \subseteq Pics,
             call' = "capAdd" => UNCHANGED <<call, buf, surfaces>>,
             call' = "clearOut" => call = "clearOut",
             Dropped => Dropped' \/ Pics' = {} \/ DOMAIN getter.used = {}
      PROVE  Accounted'
    <2>1. \A h \in Pics' : h.id \in DOMAIN getter.used => "decoder" \in getter.used[h.id] \/ Dropped'
        BY <1>2, <1>3
    <2>2. QED
        BY <1>3, <2>1 DEF Accounted
\* The thread at work: the client neither allocates nor stops the output.
<1>4. ASSUME FreedIsUnused(getter'),
             \A h \in Pics' : h.id \in DOMAIN getter'.used => "decoder" \in getter'.used[h.id],
             call' \notin {"capAdd", "clearOut"}
      PROVE  Accounted'
    BY <1>4 DEF Accounted
<1>5. ASSUME \/ StartDecoder \/ FlushDecoder \/ NoInput \/ DecodeEOS \/ DecodeFormatChange
             \/ DecodeFails \/ DecodeNoSurface \/ DecodePicture \/ FormatChange \/ NoSurface
             \/ Consume \/ OutputEmpty \/ OutputHold \/ OutputPut \/ OutputDrop
      PROVE  /\ step # "none" /\ phase \in {"run", "seek", "resume", "restart"}
             /\ call' \notin {"capAdd", "clearOut"}
    <2>1. step # "none"
        BY <1>5 DEF StartDecoder, FlushDecoder, NoInput, DecodeEOS, DecodeFormatChange,
           DecodeFails, DecodeNoSurface, DecodePicture, FormatChange, NoSurface, Consume,
           OutputEmpty, OutputHold, OutputPut, OutputDrop, CannotDecode, CanDecode, Peek
    <2>2. phase \in {"run", "seek", "resume", "restart"} /\ call' = call
        BY <1>5, ThreadAtWork
    <2>3. call \notin {"capAdd", "clearOut"}
        BY <2>1, <2>2, ThreadFacts
    <2>4. QED
        BY <2>1, <2>2, <2>3
<1>6. CASE \/ FlushDecoder \/ DecodeEOS \/ DecodeFormatChange \/ DecodeFails \/ DecodeNoSurface
           \/ DecodePicture
    <2>1. /\ FreedIsUnused(getter') /\ DOMAIN getter'.used = DOMAIN getter.used
          /\ \A h \in Pics' : h.id \in DOMAIN getter.used => "decoder" \in getter'.used[h.id]
        BY <1>6, DecodeHolders
    <2>2. QED
        BY <1>4, <1>5, <1>6, <2>1
<1>7. CASE \/ StartDecoder \/ NoInput \/ FormatChange \/ NoSurface \/ Consume \/ OutputEmpty
           \/ OutputPut
    <2>1. getter' = getter
        BY <1>7 DEF StartDecoder, NoInput, FormatChange, NoSurface, Consume, OutputEmpty, OutputPut
    <2>2. ~DecodePicture
        BY <1>7 DEF StartDecoder, NoInput, FormatChange, NoSurface, Consume, OutputEmpty, OutputPut,
           DecodePicture, CanDecode, Peek
    <2>3. Pics' \subseteq Pics
        BY <2>2, PicsStep
    <2>4. \A h \in Pics : h.id \in DOMAIN getter.used => "decoder" \in getter.used[h.id]
        BY <1>5, <1>7, DecoderHolds
    <2>5. QED
        BY <1>1, <1>4, <1>5, <1>7, <2>1, <2>3, <2>4
<1>8. CASE OutputHold
    <2>1. /\ frame' = Head(codec.outs) /\ codec.outs # <<>> /\ ~DecodePicture
          /\ getter' = SetFlag(getter, frame'.id, "renderer")
        BY <1>8 DEF OutputHold, DecodePicture, CanDecode, Peek
    <2>2. Pics' \subseteq Pics
        BY <2>1, PicsStep
    <2>3. \A h \in Pics : h.id \in DOMAIN getter.used => "decoder" \in getter.used[h.id]
        BY <1>5, <1>8, DecoderHolds
    <2>4. frame' \in Pics \/ frame' = None
        BY <2>1, <2>2 DEF Pics
    <2>5. frame'.id \in DOMAIN getter.used => "decoder" \in getter.used[frame'.id]
        BY <1>1, <2>3, <2>4, DecoderNumbers
    <2>6. /\ getter'.freed = getter.freed /\ DOMAIN getter'.used = DOMAIN getter.used
          /\ frame'.id \in DOMAIN getter.used =>
                getter'.used[frame'.id] = getter.used[frame'.id] \cup {"renderer"}
          /\ \A t \in DOMAIN getter.used : t # frame'.id => getter'.used[t] = getter.used[t]
        BY <1>1, <2>1, GetterSet
    <2>7. FreedIsUnused(getter')
        BY <1>1, <2>5, <2>6 DEF FreedIsUnused
    <2>8. \A h \in Pics' : h.id \in DOMAIN getter'.used => "decoder" \in getter'.used[h.id]
        BY <2>2, <2>3, <2>6
    <2>9. QED
        BY <1>4, <1>5, <1>8, <2>7, <2>8
<1>9. CASE OutputDrop
    <2>1. /\ frame' = None /\ codec' = codec /\ ~DecodePicture
          /\ getter' = IF frame \in Held(codec) THEN getter ELSE ClearFlag(getter, frame.id, "decoder")
        BY <1>9 DEF OutputDrop, DecodePicture, CanDecode, Peek
    <2>2. Pics' = Held(codec) /\ Pics' \subseteq Pics
        BY <2>1 DEF Pics, Held
    <2>3. \A h \in Pics : h.id \in DOMAIN getter.used => "decoder" \in getter.used[h.id]
        BY <1>5, <1>9, DecoderHolds
    <2>4. CASE frame \in Held(codec)
        BY <1>1, <1>4, <1>5, <1>9, <2>1, <2>2, <2>3, <2>4
    <2>5. CASE frame \notin Held(codec)
        <3>1. getter' = ClearFlag(getter, frame.id, "decoder")
            BY <2>1, <2>5
        <3>2. FreedIsUnused(getter')
            BY <1>1, <3>1, ClearUnused
        <3>3. /\ DOMAIN getter'.used = DOMAIN getter.used
              /\ \A t \in DOMAIN getter.used : t # frame.id => getter'.used[t] = getter.used[t]
            BY <1>1, <3>1, GetterClear
        <3>4. \A h \in Pics' : h.id # frame.id
            <4>1. CASE frame = None
                BY <2>2, <4>1, DecoderNumbers DEF Pictured
            <4>2. CASE frame # None
                BY <2>2, <2>5, <4>2 DEF Pictured, Pics
            <4>3. QED
                BY <4>1, <4>2
        <3>5. QED
            BY <1>4, <1>5, <1>9, <2>2, <2>3, <3>2, <3>3, <3>4
    <2>6. QED
        BY <2>4, <2>5
<1>10. CASE FreeBuffers
    <2>1. getter' = EmptyGetter /\ call' = "send"
        BY <1>10, ThreadFacts DEF FreeBuffers
    <2>2. QED
        BY <1>4, <2>1, GetterEmpty, ListEmpty DEF FreedIsUnused
<1>11. CASE \/ RunJob \/ RequestBuffers \/ QueueInput \/ QueueInputPost \/ DequeInput
            \/ QueueBuffer \/ QueueBufferPost \/ DequeBuffer \/ StreamOffInputDone
            \/ RequestBuffersSend \/ UNCHANGED vars
    <2>1. /\ getter' = getter /\ codec' = codec /\ frame' = frame /\ UNCHANGED <<outputOn, phase>>
          /\ call' = "capAdd" => UNCHANGED <<call, buf, surfaces>>
          /\ call' = "clearOut" => call = "clearOut"
          /\ call = "clearOut" => call' = "clearOut"
        BY <1>11, ThreadFacts DEF RunJob, RequestBuffers, QueueInput, QueueInputPost, DequeInput,
           QueueBuffer, QueueBufferPost, DequeBuffer, StreamOffInputDone, RequestBuffersSend, vars
    <2>2. Pics' \subseteq Pics
        BY <2>1 DEF Pics
    <2>3. Dropped => Dropped'
        BY <2>1 DEF Dropped
    <2>4. QED
        BY <1>3, <2>1, <2>2, <2>3
<1>12. CASE StreamOnInput \/ StreamOnOutput \/ DequeEvent \/ StreamOffInput
    <2>1. /\ getter' = getter /\ codec' = codec /\ frame' = frame
          /\ call' \in {"none", "stop"} /\ call = "none" /\ phase # "free"
        BY <1>12 DEF StreamOnInput, StreamOnOutput, DequeEvent, StreamOffInput
    <2>2. Pics' \subseteq Pics /\ ~Dropped
        BY <2>1 DEF Pics, Dropped
    <2>3. QED
        BY <1>3, <2>1, <2>2
<1>13. CASE StreamOffOutputClear
    <2>1. /\ getter' = getter /\ codec' = codec /\ frame' = frame /\ outputOn' = outputOn
          /\ call = "clearOut" /\ call' = "none" /\ phase \in {"seek", "event"}
          /\ phase' = IF phase = "event" THEN "free" ELSE "resume"
        BY <1>13, ThreadFacts DEF StreamOffOutputClear
    <2>2. Pics' \subseteq Pics
        BY <2>1 DEF Pics
    <2>3. CASE phase = "event"
        <3>1. Dropped => Dropped'
            BY <2>1, <2>3 DEF Dropped
        <3>2. QED
            BY <1>3, <2>1, <2>2, <3>1
    <2>4. CASE phase = "seek"
        <3>1. ~inputOn
            BY <2>1, <2>4, ThreadFacts
        <3>2. state = "kUnStarted" /\ step = "none"
            BY <3>1, ThreadFacts
        <3>3. codec.cur = None /\ codec.refs = {} /\ codec.outs = <<>> /\ frame = None
            BY <3>2 DEF Clean, CodecClean
        <3>4. Pics' = {}
            BY <2>1, <3>3, ListEmpty DEF Pics, Held
        <3>5. QED
            BY <1>3, <2>1, <2>2, <3>4
    <2>5. QED
        BY <2>1, <2>3, <2>4
<1>14. CASE RequestBuffersReturn
    <2>1. /\ getter' = getter /\ codec' = codec /\ frame' = frame
          /\ call = "send" /\ call' = "none" /\ step # phase
          /\ ~\E i \in 1..Len(jobs) : jobs[i] = phase
        BY <1>14 DEF RequestBuffersReturn
    <2>2. Pics' \subseteq Pics
        BY <2>1 DEF Pics
    <2>3. phase \notin Queued
        <3>1. DOMAIN jobs = 1..Len(jobs)
            BY LenProperties, ThreadFacts
        <3>2. QED
            BY <2>1, <3>1 DEF Queued, Range
    <2>4. phase = "free" => getter = EmptyGetter
        BY <2>1, <2>3 DEF Allocated, NoSurfaces
    <2>5. Dropped => DOMAIN getter.used = {}
        BY <2>1, <2>4, GetterEmpty DEF Dropped
    <2>6. QED
        BY <1>3, <2>1, <2>2, <2>5
<1>15. CASE QueueNewBuffer
    <2>1. PICK i \in mine, s \in Ids :
             /\ s \notin alive /\ \A h \in Pics : h.id # s
             /\ surfaces' = [surfaces EXCEPT ![i] = s] /\ buf' = i
        BY <1>15, NotOfPicture
    <2>2. /\ getter' = getter /\ codec' = codec /\ frame' = frame
          /\ phase = "fill" /\ call = "none" /\ call' = "capAdd"
        BY <1>15 DEF QueueNewBuffer
    <2>3. ~Dropped
        BY <2>2 DEF Dropped
    <2>4. surfaces'[buf'] = s
        <3>1. Room /\ i \in Indices
            BY <2>1, <2>2 DEF Allocated, BufferTyped
        <3>2. i \in DOMAIN surfaces
            BY <3>1, LenProperties, DecoderNumbers DEF Room, Indices, BufferTyped
        <3>3. QED
            BY <2>1, <3>2
    <2>5. s \notin DOMAIN getter.used
        BY <2>1, <2>2 DEF Mapped, Allocated
    <2>6. Pics' = Pics /\ \A h \in Pics : h.id # s
        BY <2>1, <2>2 DEF Pics
    <2>7. QED
        BY <1>1, <1>2, <2>2, <2>3, <2>4, <2>5, <2>6 DEF Accounted
<1>16. CASE QueueBufferGetter
    <2>1. codec' = codec /\ frame' = frame /\ phase \in {"fill", "run"} /\ call' = "capPost"
        BY <1>16, ThreadFacts DEF QueueBufferGetter
    <2>2. Pics' = Pics /\ ~Dropped
        BY <1>16, <2>1 DEF Pics, Dropped, QueueBufferGetter
    <2>3. CASE call = "capAdd"
        <3>1. PICK s \in Ids : s = surfaces[buf] /\ s \notin DOMAIN getter.used /\ \A h \in Pics : h.id # s
            BY <2>3 DEF Allocated, BufferTyped, Accounted
        <3>2. getter' = AddNewSurface(getter, s)
            BY <1>16, <2>3, <3>1 DEF QueueBufferGetter
        <3>3. FreedIsUnused(getter')
            BY <1>1, <3>1, <3>2, AddUnused
        <3>4. /\ DOMAIN getter'.used = DOMAIN getter.used \cup {s}
              /\ \A t \in DOMAIN getter.used : t # s => getter'.used[t] = getter.used[t]
            BY <1>1, <3>1, <3>2, GetterAdd
        <3>5. QED
            BY <1>2, <1>4, <2>1, <2>2, <3>1, <3>3, <3>4
    <2>4. CASE call # "capAdd"
        <3>1. getter' = ClearFlag(getter, surfaces[buf], "renderer")
            BY <1>16, <2>4 DEF QueueBufferGetter
        <3>2. FreedIsUnused(getter')
            BY <1>1, <3>1, ClearUnused
        <3>3. /\ DOMAIN getter'.used = DOMAIN getter.used
              /\ \A t \in DOMAIN getter.used :
                    getter'.used[t] = getter.used[t] \/ getter'.used[t] = getter.used[t] \ {"renderer"}
            BY <1>1, <3>1, GetterClear
        <3>4. QED
            BY <1>2, <1>4, <2>1, <2>2, <3>2, <3>3
    <2>5. QED
        BY <2>3, <2>4
<1>17. CASE DequeFreeBuffer
    <2>1. /\ codec' = codec /\ frame' = frame /\ phase = "fill" /\ call = "none" /\ call' = call
          /\ HasFree(getter) /\ getter' = TakeOneFree(getter, "renderer")
        BY <1>17 DEF DequeFreeBuffer
    <2>2. Pics' = Pics /\ ~Dropped
        BY <2>1 DEF Pics, Dropped
    <2>3. /\ FreedIsUnused(getter') /\ DOMAIN getter'.used = DOMAIN getter.used
          /\ getter.used[Head(getter.freed)] = {}
          /\ \A t \in DOMAIN getter.used : t # Head(getter.freed) => getter'.used[t] = getter.used[t]
        BY <1>1, <2>1, TakeUnused
    <2>4. QED
        BY <1>2, <1>4, <2>1, <2>2, <2>3
<1>18. CASE StreamOffOutput
    <2>1. /\ getter' = HoldAllByRenderer(getter) /\ outputOn' = FALSE /\ call' = "clearOut"
        BY <1>18 DEF StreamOffOutput
    <2>2. /\ getter'.freed = <<>> /\ DOMAIN getter'.used = DOMAIN getter.used
          /\ \A t \in DOMAIN getter.used : getter'.used[t] = {"renderer"}
        BY <1>1, <2>1, GetterHoldAll
    <2>3. Dropped'
        BY <2>1, <2>2 DEF Dropped
    <2>4. FreedIsUnused(getter')
        BY <2>2, ListEmpty DEF FreedIsUnused
    <2>5. QED
        BY <2>1, <2>2, <2>3, <2>4 DEF Accounted
<1>19. QED
    BY <1>6, <1>7, <1>8, <1>9, <1>10, <1>11, <1>12, <1>13, <1>14, <1>15, <1>16, <1>17, <1>18
       DEF Next, ThreadStep, ClientStep

-----------------------------------------------------------------------------
(* Where the buffers are *)

\* With all buffers allocated, each has its surface, and the getter knows it.
LEMMA EveryBufferHasSurface ==
    ASSUME BufferTyped, Mapped, Complete, NEW i \in Indices
    PROVE  /\ i \in DOMAIN surfaces /\ i \in DOMAIN stamp
           /\ surfaces[i] \in DOMAIN smap /\ smap[surfaces[i]] = i
<1>1. IsFiniteSet(Indices) /\ Cardinality(Indices) = NBuf
    BY FS_Interval, DecoderNumbers DEF Indices
<1>2. smap \in Injection(DOMAIN smap, Indices)
    <2>1. \A s, t \in DOMAIN smap : smap[s] = smap[t] => s = t
        BY DEF Mapped
    <2>2. QED
        BY <2>1 DEF BufferTyped, Injection, IsInjective
<1>3. smap \in Surjection(DOMAIN smap, Indices)
    BY <1>1, <1>2, FS_Injection DEF Complete
<1>4. PICK s \in DOMAIN smap : smap[s] = i
    BY <1>3 DEF Surjection
<1>5. DOMAIN surfaces = 1..NBuf /\ DOMAIN stamp = 1..NBuf
    BY LenProperties DEF BufferTyped, Complete
<1>6. QED
    BY <1>4, <1>5 DEF Mapped, Indices

\* Initially Buffers holds.
LEMMA BuffersInit == Init => Buffers
<1> SUFFICES ASSUME Init PROVE Buffers
    OBVIOUS
<1>1. getter = EmptyGetter /\ outQ = <<>> /\ call = "none" /\ ~outputOn /\ phase = "restart"
    BY DEF Init
<1>2. QED
    BY <1>1, GetterEmpty, ListEmpty DEF Buffers

\* Every step keeps Buffers.
LEMMA BuffersStep ==
    ASSUME CodecTyped, BufferTyped, Protocol, Change, InputFormats, Allocated, PoolKept, Clean,
           Mapped, Pictured, Accounted, Buffers, PutOut, [Next]_vars
    PROVE  Buffers'
<1> USE DEF codecVars, pipeVars, outVars, vaVars, flagVars, userVars, threadVars
<1>1. /\ getter \in Getters /\ FreedIsUnused(getter)
      /\ "renderer" \in Holders /\ "decoder" \in Holders
      /\ DOMAIN getter.used \subseteq DOMAIN smap
      /\ \A s, t \in DOMAIN smap : smap[s] = smap[t] => s = t
      /\ smap \in [DOMAIN smap -> Indices] /\ outQ \in Seq(Indices) /\ mine \subseteq Indices
      /\ last \in Nat
    BY DecoderNumbers DEF BufferTyped, CodecTyped, Holders, Accounted, Allocated, Mapped
\* Steps after which the buffers are where they were, and the renderer holds what it held.
<1>2. ASSUME UNCHANGED <<smap, surfaces, mine, outQ, buf>>, DOMAIN getter'.used = DOMAIN getter.used,
             \A t \in DOMAIN getter.used : "renderer" \in getter.used[t] => "renderer" \in getter'.used[t],
             call' \in {"capAdd", "capFree"} => call' = call,
             outputOn' \/ phase' \in {"seek", "resume"} => last' # 0
      PROVE  Buffers'
    BY <1>2 DEF Buffers, Placed
<1>3. CASE \/ StartDecoder \/ FlushDecoder \/ NoInput \/ DecodeEOS \/ DecodeFormatChange
           \/ DecodeFails \/ DecodeNoSurface \/ DecodePicture \/ FormatChange \/ NoSurface
           \/ Consume \/ OutputEmpty \/ OutputHold \/ OutputDrop
    <2>1. UNCHANGED <<smap, surfaces, mine, outQ, buf, call, outputOn, phase, last>>
        BY <1>3, ThreadAtWork DEF StartDecoder, FlushDecoder, NoInput, DecodeEOS, DecodeFormatChange,
           DecodeFails, DecodeNoSurface, DecodePicture, Decoded, FormatChange, NoSurface, Consume,
           OutputEmpty, OutputHold, OutputDrop
    <2>2. DOMAIN getter'.used = DOMAIN getter.used
        BY <1>3, WorkGetter
    <2>3. \A t \in DOMAIN getter.used : "renderer" \in getter.used[t] => "renderer" \in getter'.used[t]
        <3>1. CASE \/ FlushDecoder \/ DecodeEOS \/ DecodeFormatChange \/ DecodeFails
                   \/ DecodeNoSurface \/ DecodePicture
            BY <3>1, DecodeHolders
        <3>2. CASE \/ StartDecoder \/ NoInput \/ FormatChange \/ NoSurface \/ Consume \/ OutputEmpty
            BY <3>2 DEF StartDecoder, NoInput, FormatChange, NoSurface, Consume, OutputEmpty
        <3>3. CASE OutputHold
            <4>1. getter' = SetFlag(getter, frame'.id, "renderer")
                BY <3>3 DEF OutputHold
            <4>2. \A t \in DOMAIN getter.used :
                     getter'.used[t] = getter.used[t] \/ getter'.used[t] = getter.used[t] \cup {"renderer"}
                BY <1>1, <4>1, GetterSet
            <4>3. QED
                BY <4>2
        <3>4. CASE OutputDrop
            <4>1. getter' = getter \/ getter' = ClearFlag(getter, frame.id, "decoder")
                BY <3>4 DEF OutputDrop
            <4>2. \A t \in DOMAIN getter.used :
                     getter'.used[t] = getter.used[t] \/ getter'.used[t] = getter.used[t] \ {"decoder"}
                BY <1>1, <4>1, GetterClear
            <4>3. QED
                BY <4>2
        <3>5. QED
            BY <1>3, <3>1, <3>2, <3>3, <3>4
    <2>4. QED
        BY <1>2, <2>1, <2>2, <2>3 DEF Buffers
<1>4. CASE \/ RunJob \/ QueueInput \/ QueueInputPost \/ DequeInput \/ QueueBufferPost
           \/ StreamOffInputDone \/ RequestBuffersSend \/ StreamOnInput \/ DequeEvent
           \/ StreamOffInput \/ UNCHANGED vars
    <2>1. /\ UNCHANGED <<smap, surfaces, mine, outQ, getter, outputOn, last>>
          /\ buf' = buf \/ call' = "none"
          /\ call' \in {"capAdd", "capFree"} => call' = call
          /\ phase' \in {"seek", "resume"} => phase' = phase \/ outputOn
        BY <1>4 DEF RunJob, QueueInput, QueueInputPost, DequeInput, QueueBufferPost,
           StreamOffInputDone, RequestBuffersSend, StreamOnInput, DequeEvent, StreamOffInput, vars
    <2>2. QED
        BY <2>1 DEF Buffers, Placed
<1>5. CASE OutputPut
    <2>1. /\ UNCHANGED <<smap, surfaces, mine, buf, call, outputOn, phase, last>> /\ getter' = getter
          /\ step = "put" /\ frame.id \in DOMAIN smap /\ outQ' = Append(outQ, smap[frame.id])
          /\ phase \in {"run", "seek", "resume", "restart"}
        BY <1>5, ThreadAtWork DEF OutputPut
    <2>2. /\ frame.id \in DOMAIN getter.used /\ "renderer" \in getter.used[frame.id]
          /\ smap[frame.id] \notin Placed
        BY <2>1 DEF PutOut
    <2>3. call = "capFree" => buf # smap[frame.id]
        BY <2>1 DEF PutOut
    <2>4. smap[frame.id] \in Indices
        BY <1>1, <2>1
    <2>5. Range(outQ') = Range(outQ) \cup {smap[frame.id]}
        BY <1>1, <2>1, <2>4, ListAppend
    <2>6. IsInjective(outQ')
        BY <1>1, <2>1, <2>2, <2>4, ListAppend DEF Buffers, Placed
    <2>7. call # "capAdd"
        BY <2>1, ThreadFacts
    <2>8. Placed' = Placed \cup {smap[frame.id]}
        BY <2>1, <2>5 DEF Placed
    <2>9. \A s \in DOMAIN getter.used : smap[s] \in Placed' => "renderer" \in getter.used[s]
        BY <1>1, <2>2, <2>8 DEF Buffers
    <2>10. Range(outQ') \cap mine = {}
        BY <2>2, <2>5 DEF Buffers, Placed
    <2>11. call \in {"capAdd", "capFree"} => buf \notin Placed'
        BY <2>3, <2>7, <2>8 DEF Buffers
    <2>12. QED
        BY <2>1, <2>6, <2>9, <2>10, <2>11 DEF Buffers
<1>6. CASE FreeBuffers
    <2>1. /\ UNCHANGED <<mine, outQ, outputOn, phase, last>> /\ getter' = EmptyGetter /\ call' = "send"
        BY <1>6, ThreadFacts DEF FreeBuffers
    <2>2. QED
        BY <2>1, GetterEmpty DEF Buffers
<1>7. CASE RequestBuffers
    <2>1. /\ UNCHANGED <<mine, outQ, outputOn, phase>> /\ getter' = getter /\ call' = "send"
          /\ phase = "request" /\ last' = IF pending # 0 THEN pending ELSE last
        BY <1>7, ThreadFacts DEF RequestBuffers
    <2>2. getter' = EmptyGetter
        BY <2>1 DEF Allocated
    <2>3. QED
        BY <2>1, <2>2, GetterEmpty DEF Buffers
<1>8. CASE QueueNewBuffer
    <2>1. PICK i \in mine, s \in Ids :
             /\ smap' = [t \in DOMAIN smap \cup {s} |-> IF t = s THEN i ELSE smap[t]]
             /\ s \notin alive
             /\ buf' = i
        BY <1>8 DEF QueueNewBuffer
    <2>2. /\ UNCHANGED <<outQ, outputOn, phase, last>> /\ getter' = getter
          /\ mine' = mine \ {buf'} /\ call' = "capAdd" /\ phase = "fill"
        BY <1>8 DEF QueueNewBuffer
    <2>3. outQ = <<>> /\ Range(outQ) = {}
        BY <2>2, ListEmpty DEF Clean
    <2>4. s \notin DOMAIN smap
        BY <2>1 DEF Mapped
    <2>5. \A t \in DOMAIN getter.used : smap'[t] = smap[t]
        BY <1>1, <2>1, <2>4
    <2>6. Placed' \subseteq Placed /\ buf' \notin Placed'
        BY <2>2, <2>3 DEF Placed
    <2>7. \A t \in DOMAIN getter.used : smap'[t] \in Placed' => "renderer" \in getter.used[t]
        BY <2>5, <2>6 DEF Buffers
    <2>8. QED
        BY <2>2, <2>3, <2>6, <2>7 DEF Buffers
<1>9. CASE QueueBuffer
    <2>1. /\ UNCHANGED <<outQ, outputOn, phase, last, smap, surfaces>> /\ getter' = getter
          /\ buf' \in mine /\ mine' = mine \ {buf'} /\ call = "none" /\ call' = "capFree"
          /\ phase = "run" /\ outputOn
        BY <1>9 DEF QueueBuffer
    <2>2. Complete
        BY <2>1 DEF Buffers, Allocated
    <2>3. buf' \in DOMAIN surfaces /\ surfaces[buf'] \in DOMAIN smap /\ smap[surfaces[buf']] = buf'
        <3>1. PICK i \in Indices : i = buf'
            BY <1>1, <2>1
        <3>2. QED
            BY <2>2, <3>1, EveryBufferHasSurface
    <2>4. surfaces[buf'] \in DOMAIN getter.used
        BY <2>1, <2>3 DEF Mapped
    <2>5. "renderer" \in getter.used[surfaces[buf']]
        BY <2>1, <2>3, <2>4 DEF Buffers, Placed
    <2>6. Placed' \subseteq Placed /\ buf' \notin Placed'
        BY <2>1 DEF Buffers, Placed
    <2>7. QED
        BY <2>1, <2>3, <2>4, <2>5, <2>6 DEF Buffers
<1>10. CASE QueueBufferGetter
    <2>1. /\ UNCHANGED <<outQ, mine, outputOn, phase, last, smap, surfaces>> /\ call' = "capPost"
          /\ call \in {"capAdd", "capFree"}
        BY <1>10 DEF QueueBufferGetter
    <2>2. Placed' = Placed /\ buf \notin Placed
        BY <2>1 DEF Placed, Buffers
    <2>3. \A t \in DOMAIN getter'.used : smap[t] \in Placed => "renderer" \in getter'.used[t]
        <3>1. CASE call = "capAdd"
            <4>1. PICK s \in Ids : s = surfaces[buf] /\ s \notin DOMAIN getter.used /\ smap[s] = buf
                BY <3>1, DecoderNumbers DEF Allocated, BufferTyped, Accounted, Mapped
            <4>2. getter' = AddNewSurface(getter, s)
                BY <1>10, <3>1, <4>1 DEF QueueBufferGetter
            <4>3. /\ DOMAIN getter'.used = DOMAIN getter.used \cup {s}
                  /\ \A t \in DOMAIN getter.used : t # s => getter'.used[t] = getter.used[t]
                BY <1>1, <4>1, <4>2, GetterAdd
            <4>4. QED
                BY <2>2, <4>1, <4>3 DEF Buffers
        <3>2. CASE call = "capFree"
            <4>1. PICK s : s = surfaces[buf] /\ smap[s] = buf
                BY <1>1, <3>2, DecoderNumbers DEF Buffers, BufferTyped, Mapped
            <4>2. getter' = ClearFlag(getter, s, "renderer")
                BY <1>10, <3>2, <4>1 DEF QueueBufferGetter
            <4>3. /\ DOMAIN getter'.used = DOMAIN getter.used
                  /\ \A t \in DOMAIN getter.used : t # s => getter'.used[t] = getter.used[t]
                BY <1>1, <4>2, GetterClear
            <4>4. QED
                BY <2>2, <4>1, <4>3 DEF Buffers
        <3>3. QED
            BY <2>1, <3>1, <3>2
    <2>4. QED
        BY <2>1, <2>2, <2>3 DEF Buffers
<1>11. CASE DequeBuffer
    <2>1. /\ UNCHANGED <<outputOn, phase, last, smap, surfaces, call>> /\ getter' = getter
          /\ outQ # <<>> /\ outQ' = Tail(outQ) /\ mine' = mine \cup {Head(outQ)} /\ call = "none"
        BY <1>11 DEF DequeBuffer
    <2>2. /\ Range(outQ) = {Head(outQ)} \cup Range(outQ') /\ IsInjective(outQ')
          /\ Head(outQ) \notin Range(outQ')
        BY <1>1, <2>1, ListTail DEF Buffers
    <2>3. Placed' = Placed /\ Range(outQ') \cap mine' = {}
        BY <2>1, <2>2 DEF Placed, Buffers
    <2>4. QED
        BY <2>1, <2>2, <2>3 DEF Buffers
<1>12. CASE DequeFreeBuffer
    <2>1. /\ UNCHANGED <<outQ, outputOn, phase, last, smap, surfaces, call>> /\ phase = "fill"
          /\ HasFree(getter) /\ getter' = TakeOneFree(getter, "renderer") /\ call = "none"
          /\ mine' = mine \cup {smap[Head(getter.freed)]}
        BY <1>12 DEF DequeFreeBuffer
    <2>2. outQ = <<>> /\ Range(outQ) = {}
        BY <2>1, ListEmpty DEF Clean
    <2>3. /\ DOMAIN getter'.used = DOMAIN getter.used /\ Head(getter.freed) \in DOMAIN getter.used
          /\ getter'.used[Head(getter.freed)] = {"renderer"}
          /\ \A t \in DOMAIN getter.used : t # Head(getter.freed) => getter'.used[t] = getter.used[t]
        BY <1>1, <2>1, TakeUnused
    <2>4. Placed' = Placed \cup {smap[Head(getter.freed)]}
        BY <2>1 DEF Placed
    <2>5. \A t \in DOMAIN getter.used : smap[t] \in Placed' => "renderer" \in getter'.used[t]
        BY <1>1, <2>3, <2>4 DEF Buffers
    <2>6. QED
        BY <2>1, <2>2, <2>3, <2>5 DEF Buffers
<1>13. CASE StreamOnOutput
    <2>1. /\ UNCHANGED <<smap, surfaces, mine, outQ, buf, last, call>> /\ getter' = getter
          /\ phase \in {"fill", "resume"}
        BY <1>13 DEF StreamOnOutput
    <2>2. last # 0
        <3>1. CASE phase = "resume"
            BY <3>1 DEF Buffers
        <3>2. CASE phase = "fill"
            <4>1. state = "kWaitAllocation"
                BY <3>2, ThreadFacts
            <4>2. pending = 0 /\ step # "formatChange" /\ codec.cfg < codec.fmt
                BY <3>2, <4>1, ThreadFacts DEF Change
            <4>3. codec.fmt = last
                BY <4>2 DEF Change
            <4>4. codec.cfg \in Nat
                BY DecoderNumbers DEF CodecTyped, Codecs
            <4>5. QED
                BY <4>2, <4>3, <4>4
        <3>3. QED
            BY <2>1, <3>1, <3>2
    <2>3. QED
        BY <1>2, <2>1, <2>2
<1>14. CASE StreamOffOutput
    <2>1. /\ UNCHANGED <<smap, surfaces, mine, outQ, buf, last, phase>>
          /\ call' = "clearOut" /\ getter' = HoldAllByRenderer(getter) /\ outputOn
        BY <1>14 DEF StreamOffOutput
    <2>2. /\ DOMAIN getter'.used = DOMAIN getter.used
          /\ \A t \in DOMAIN getter.used : getter'.used[t] = {"renderer"}
        BY <1>1, <2>1, GetterHoldAll
    <2>3. last # 0
        BY <2>1 DEF Buffers
    <2>4. QED
        BY <1>2, <2>1, <2>2, <2>3
<1>15. CASE StreamOffOutputClear
    <2>1. /\ UNCHANGED <<smap, surfaces, buf, last, outputOn>> /\ getter' = getter
          /\ call = "clearOut" /\ call' = "none" /\ outQ' = <<>>
          /\ phase' = IF phase = "event" THEN "free" ELSE "resume"
          /\ phase \in {"seek", "event"} /\ ~outputOn
        BY <1>15, ThreadFacts DEF StreamOffOutputClear
    <2>2. \A t \in DOMAIN getter.used : getter.used[t] = {"renderer"}
        BY <2>1 DEF Accounted
    <2>3. phase' = "resume" => last # 0
        BY <2>1 DEF Buffers
    <2>4. QED
        BY <2>1, <2>2, <2>3, ListEmpty DEF Buffers
<1>16. CASE RequestBuffersReturn
    <2>1. /\ UNCHANGED <<outQ, outputOn, last>> /\ getter' = getter
          /\ call = "send" /\ call' = "none" /\ step # phase /\ phase \in {"free", "request"}
        BY <1>16, ThreadFacts DEF RequestBuffersReturn
    <2>2. phase' \in {"request", "fill"}
        BY <1>16 DEF RequestBuffersReturn
    <2>3. phase \notin Queued
        <3>1. DOMAIN jobs = 1..Len(jobs) /\ ~\E i \in 1..Len(jobs) : jobs[i] = phase
            BY <1>16, LenProperties, ThreadFacts DEF RequestBuffersReturn
        <3>2. QED
            BY <3>1 DEF Queued, Range
    <2>4. getter = EmptyGetter
        BY <2>1, <2>3 DEF Allocated, NoSurfaces
    <2>5. outQ = <<>>
        BY <2>1 DEF Clean
    <2>6. QED
        BY <2>1, <2>2, <2>4, <2>5, GetterEmpty, ListEmpty DEF Buffers
<1>17. QED
    BY <1>3, <1>4, <1>5, <1>6, <1>7, <1>8, <1>9, <1>10, <1>11, <1>12, <1>13, <1>14, <1>15, <1>16
       DEF Next, ThreadStep, ClientStep

\* Initially PutOut holds.
LEMMA PutOutInit == Init => PutOut
    BY DEF Init, PutOut

\* Every step keeps PutOut.
LEMMA PutOutStep ==
    ASSUME CodecTyped, BufferTyped, Protocol, Change, InputFormats, Allocated, PoolKept, Clean,
           Mapped, Pictured, Accounted, Buffers, PutOut, [Next]_vars
    PROVE  PutOut'
<1> USE DEF codecVars, pipeVars, outVars, vaVars, flagVars, userVars, threadVars
<1>1. /\ getter \in Getters /\ FreedIsUnused(getter) /\ codec \in Codecs
      /\ codec.outs \in Seq(Pictures)
      /\ "renderer" \in Holders /\ "decoder" \in Holders /\ "decoder" # "renderer"
      /\ DOMAIN getter.used \subseteq DOMAIN smap
      /\ \A s \in DOMAIN smap : surfaces[smap[s]] = s
    BY DEF BufferTyped, CodecTyped, Codecs, Holders, Accounted, Allocated, Mapped
<1>2. \A n \in DOMAIN codec.outs : codec.outs[n] \in Held(codec) /\ codec.outs[n] \in Pics
    BY DEF PutOut, Held, Pics, Range
\* Nothing to put out.
<1>3. ASSUME codec'.outs = <<>>, step' \notin {"put", "drop"} PROVE PutOut'
    BY <1>3 DEF PutOut
\* Steps that leave alone what is to be put out.
<1>4. ASSUME UNCHANGED <<frame, smap>>, codec'.outs = codec.outs, getter' = getter,
             step' \in {step, "none"} \/ step' \notin {"put", "drop"},
             Placed' \subseteq Placed, call' = "capFree" => UNCHANGED <<call, buf>>
      PROVE  PutOut'
    BY <1>4 DEF PutOut
<1>5. CASE \/ NoInput \/ FormatChange \/ NoSurface \/ Consume \/ OutputEmpty \/ RunJob
           \/ StreamOnInput \/ QueueInput \/ QueueInputPost \/ DequeInput \/ QueueBufferPost
           \/ StreamOnOutput \/ DequeEvent \/ RequestBuffersSend \/ StreamOffInput
           \/ StreamOffInputDone \/ UNCHANGED vars
    <2>1. /\ UNCHANGED <<frame, smap, codec, getter, mine, outQ>>
          /\ step' = step \/ step' \notin {"put", "drop"}
          /\ call' = "capFree" => UNCHANGED <<call, buf>>
        BY <1>5 DEF NoInput, FormatChange, NoSurface, Consume, OutputEmpty, RunJob,
           StreamOnInput, QueueInput, QueueInputPost, DequeInput, QueueBufferPost,
           StreamOnOutput, DequeEvent, RequestBuffersSend, StreamOffInput, StreamOffInputDone, vars
    <2>2. Placed' \subseteq Placed
        BY <2>1 DEF Placed
    <2>3. QED
        BY <1>4, <2>1, <2>2
<1>6. CASE StartDecoder
    <2>1. /\ UNCHANGED <<frame, smap, getter, mine, outQ, call, buf>> /\ codec'.outs = codec.outs
          /\ step' = "getInput"
        BY <1>1, <1>6 DEF StartDecoder, Codecs
    <2>2. Placed' \subseteq Placed
        BY <2>1 DEF Placed
    <2>3. QED
        BY <1>4, <2>1, <2>2
<1>7. CASE \/ FlushDecoder \/ DecodeEOS \/ DecodeFormatChange \/ DecodeFails \/ DecodeNoSurface
    <2>1. codec'.outs = codec.outs \/ codec'.outs = <<>>
        BY <1>7, CodecLetsGo
    <2>2. step' \notin {"put", "drop"}
        BY <1>7 DEF FlushDecoder, DecodeEOS, DecodeFormatChange, DecodeFails, DecodeNoSurface, Decoded
    <2>3. CASE codec'.outs = codec.outs
        <3>1. /\ DOMAIN getter'.used = DOMAIN getter.used
              /\ \A h \in Pics : h \in Pics' /\ h.id \in DOMAIN getter.used =>
                    getter'.used[h.id] = getter.used[h.id]
            BY <1>7, DecodeHolders
        <3>2. \A n \in DOMAIN codec.outs : codec.outs[n] \in Pics'
            BY <2>3 DEF PutOut, Held, Pics, Range
        <3>3. QED
            BY <1>2, <2>2, <2>3, <3>1, <3>2 DEF PutOut
    <2>4. QED
        BY <1>3, <2>1, <2>2, <2>3
<1>8. CASE DecodePicture
    <2>1. PICK p \in Pictures : /\ p.id = Head(getter.freed) /\ p # None
                               /\ codec'.outs = Append(codec.outs, p)
        BY <1>8, PictureDecoded
    <2>2. p.id \in DOMAIN getter.used /\ step' = "consume" /\ HasFree(getter)
        BY <1>8, <2>1, PictureDecoded
    <2>3. /\ DOMAIN getter'.used = DOMAIN getter.used /\ getter'.used[p.id] = {"decoder"}
          /\ \A h \in Pics : h \in Pics' /\ h.id \in DOMAIN getter.used =>
                getter'.used[h.id] = getter.used[h.id]
        BY <1>8, <2>1, DecodeHolders
    <2>4. /\ DOMAIN codec.outs = 1..Len(codec.outs) /\ Len(codec.outs) \in Nat
          /\ DOMAIN codec'.outs = 1..(Len(codec.outs) + 1)
          /\ codec'.outs[Len(codec.outs) + 1] = p
          /\ \A n \in DOMAIN codec.outs : n \in DOMAIN codec'.outs /\ codec'.outs[n] = codec.outs[n]
        BY <1>1, <2>1, AppendProperties, LenProperties
    <2>5. \A n \in DOMAIN codec'.outs : n \in DOMAIN codec.outs \/ n = Len(codec.outs) + 1
        BY <2>4
    <2>6. \A n \in DOMAIN codec.outs : codec.outs[n] \in Pics'
        BY <2>4 DEF PutOut, Held, Pics, Range
    <2>7. getter.used[p.id] = {}
        BY <1>1, <2>1, <2>2, ListTail, GetterParts DEF FreedIsUnused, HasFree
    <2>8. \A n \in DOMAIN codec.outs : codec.outs[n].id # p.id
        BY <2>7 DEF PutOut
    <2>9. \A n \in DOMAIN codec'.outs : /\ codec'.outs[n] # None
                                       /\ codec'.outs[n].id \in DOMAIN getter'.used
                                       /\ getter'.used[codec'.outs[n].id] = {"decoder"}
        BY <1>2, <2>1, <2>2, <2>3, <2>4, <2>5, <2>6 DEF PutOut
    <2>10. \A m, n \in DOMAIN codec'.outs : codec'.outs[m].id = codec'.outs[n].id => m = n
        BY <2>4, <2>5, <2>8 DEF PutOut
    <2>11. QED
        BY <2>2, <2>9, <2>10 DEF PutOut
<1>9. CASE OutputHold
    <2>1. /\ codec.outs # <<>> /\ frame' = Head(codec.outs) /\ codec'.outs = Tail(codec.outs)
          /\ getter' = SetFlag(getter, frame'.id, "renderer") /\ step' = "put"
          /\ UNCHANGED <<smap, mine, outQ, call, buf>>
        BY <1>1, <1>9 DEF OutputHold, Codecs
    <2>2. /\ 1 \in DOMAIN codec.outs /\ codec.outs[1] = frame' /\ Len(codec.outs) \in Nat
          /\ DOMAIN codec'.outs = 1..(Len(codec.outs) - 1) /\ DOMAIN codec.outs = 1..Len(codec.outs)
          /\ \A n \in 1..(Len(codec.outs) - 1) : codec'.outs[n] = codec.outs[n + 1]
        BY <1>1, <2>1, HeadTailProperties, LenProperties, EmptySeq
    <2>3. \A n \in DOMAIN codec'.outs :
             n + 1 \in DOMAIN codec.outs /\ n + 1 # 1 /\ codec'.outs[n] = codec.outs[n + 1]
        BY <2>2
    <2>4. /\ frame' # None /\ frame'.id \in DOMAIN getter.used
          /\ getter.used[frame'.id] = {"decoder"}
        BY <2>2 DEF PutOut
    <2>5. \A n \in DOMAIN codec'.outs : codec'.outs[n].id # frame'.id
        BY <2>2, <2>3 DEF PutOut
    <2>6. /\ DOMAIN getter'.used = DOMAIN getter.used
          /\ getter'.used[frame'.id] = getter.used[frame'.id] \cup {"renderer"}
          /\ \A t \in DOMAIN getter.used : t # frame'.id => getter'.used[t] = getter.used[t]
        BY <1>1, <2>1, <2>4, GetterSet
    <2>7. smap[frame'.id] \notin Placed /\ Placed' = Placed
        BY <1>1, <2>1, <2>4 DEF Buffers, Placed
    <2>8. call = "capFree" => buf # smap[frame'.id]
        BY <1>1, <2>4 DEF Buffers
    <2>9. \A n \in DOMAIN codec'.outs : /\ codec'.outs[n] # None
                                       /\ codec'.outs[n].id \in DOMAIN getter'.used
                                       /\ getter'.used[codec'.outs[n].id] = {"decoder"}
        BY <2>3, <2>5, <2>6 DEF PutOut
    <2>10. \A m, n \in DOMAIN codec'.outs : codec'.outs[m].id = codec'.outs[n].id => m = n
        <3>1. SUFFICES ASSUME NEW m \in DOMAIN codec'.outs, NEW n \in DOMAIN codec'.outs,
                              codec'.outs[m].id = codec'.outs[n].id
                       PROVE  m = n
            OBVIOUS
        <3>2. m + 1 = n + 1
            BY <2>3, <3>1 DEF PutOut
        <3>3. QED
            BY <2>2, <3>2
    <2>11. "renderer" \in getter'.used[frame'.id]
        BY <2>6
    <2>12. QED
        BY <2>1, <2>4, <2>5, <2>6, <2>7, <2>8, <2>9, <2>10, <2>11 DEF PutOut
<1>10. CASE OutputPut
    <2>1. UNCHANGED <<frame, codec, getter>> /\ step = "put" /\ step' = "drop"
        BY <1>10 DEF OutputPut
    <2>2. QED
        BY <2>1 DEF PutOut
<1>11. CASE OutputDrop
    <2>1. /\ codec' = codec /\ step = "drop" /\ step' = "getOutput"
          /\ getter' = IF frame \in Held(codec) THEN getter ELSE ClearFlag(getter, frame.id, "decoder")
        BY <1>11 DEF OutputDrop
    <2>2. CASE frame \in Held(codec)
        BY <2>1, <2>2 DEF PutOut
    <2>3. CASE frame \notin Held(codec)
        <3>1. /\ DOMAIN getter'.used = DOMAIN getter.used
              /\ \A t \in DOMAIN getter.used : t # frame.id => getter'.used[t] = getter.used[t]
            BY <1>1, <2>1, <2>3, GetterClear
        <3>2. frame \in Pics
            BY <2>1 DEF PutOut, Pics
        <3>3. \A n \in DOMAIN codec.outs : codec.outs[n].id # frame.id
            BY <1>2, <2>3, <3>2 DEF Pictured
        <3>4. QED
            BY <2>1, <3>1, <3>3 DEF PutOut
    <2>4. QED
        BY <2>2, <2>3
\* While the client allocates, or stops the output, there is nothing to put out.
<1>12. CASE \/ FreeBuffers \/ RequestBuffers \/ QueueNewBuffer \/ DequeFreeBuffer
            \/ RequestBuffersReturn \/ StreamOffOutput \/ StreamOffOutputClear
            \/ (QueueBufferGetter /\ call = "capAdd")
    <2>1. codec' = codec /\ step' \in {step, "none"}
        BY <1>12 DEF FreeBuffers, RequestBuffers, QueueNewBuffer, DequeFreeBuffer,
           RequestBuffersReturn, StreamOffOutput, StreamOffOutputClear, QueueBufferGetter
    <2>2. \/ phase \in {"event", "free", "request", "fill"}
          \/ phase = "seek" /\ call \in {"none", "clearOut"}
        BY <1>12, ThreadFacts DEF FreeBuffers, RequestBuffers, QueueNewBuffer, DequeFreeBuffer,
           RequestBuffersReturn, StreamOffOutput, StreamOffOutputClear
    <2>3. CASE phase \in {"event", "free", "request", "fill"}
        <3>1. state = "kWaitAllocation"
            BY <2>3, ThreadFacts
        <3>2. codec.outs = <<>> /\ step \notin {"put", "drop"}
            BY <3>1, ThreadFacts DEF Pictured
        <3>3. QED
            BY <1>3, <2>1, <3>2
    <2>4. CASE phase = "seek" /\ call \in {"none", "clearOut"}
        <3>1. ~inputOn
            BY <2>4, ThreadFacts
        <3>2. step = "none" /\ state = "kUnStarted"
            BY <3>1, ThreadFacts
        <3>3. codec.outs = <<>>
            BY <3>2 DEF Clean, CodecClean
        <3>4. QED
            BY <1>3, <2>1, <3>2, <3>3
    <2>5. QED
        BY <2>2, <2>3, <2>4
<1>13. CASE QueueBuffer
    <2>1. /\ UNCHANGED <<frame, codec, getter, smap, outQ, step>> /\ buf' \in mine
          /\ mine' = mine \ {buf'}
        BY <1>13 DEF QueueBuffer
    <2>2. Placed' \subseteq Placed /\ buf' \in Placed
        BY <2>1 DEF Placed
    <2>3. QED
        BY <2>1, <2>2 DEF PutOut
<1>14. CASE QueueBufferGetter /\ call # "capAdd"
    <2>1. /\ UNCHANGED <<frame, codec, smap, outQ, mine, step>> /\ call = "capFree" /\ call' = "capPost"
          /\ getter' = ClearFlag(getter, surfaces[buf], "renderer")
        BY <1>14 DEF QueueBufferGetter
    <2>2. /\ DOMAIN getter'.used = DOMAIN getter.used
          /\ \A t \in DOMAIN getter.used : t # surfaces[buf] => getter'.used[t] = getter.used[t]
        BY <1>1, <2>1, GetterClear
    <2>3. "renderer" \in getter.used[surfaces[buf]] /\ smap[surfaces[buf]] = buf
        BY <1>1, <2>1, DecoderNumbers DEF Buffers, BufferTyped, Mapped
    <2>4. \A n \in DOMAIN codec.outs : codec.outs[n].id # surfaces[buf]
        BY <1>1, <2>3 DEF PutOut
    <2>5. step = "put" => frame.id # surfaces[buf]
        BY <2>1, <2>3 DEF PutOut
    <2>6. Placed' = Placed
        BY <2>1 DEF Placed
    <2>7. QED
        BY <2>1, <2>2, <2>4, <2>5, <2>6 DEF PutOut
<1>15. CASE DequeBuffer
    <2>1. /\ UNCHANGED <<frame, codec, getter, smap, step, call, buf>> /\ outQ # <<>>
          /\ outQ' = Tail(outQ) /\ mine' = mine \cup {Head(outQ)} /\ outQ \in Seq(Indices)
        BY <1>15 DEF DequeBuffer, BufferTyped
    <2>2. Range(outQ) = {Head(outQ)} \cup Range(outQ')
        BY <2>1, ListTail
    <2>3. Placed' \subseteq Placed
        BY <2>1, <2>2 DEF Placed
    <2>4. QED
        BY <1>4, <2>1, <2>3
<1>16. QED
    BY <1>5, <1>6, <1>7, <1>8, <1>9, <1>10, <1>11, <1>12, <1>13, <1>14, <1>15
       DEF Next, ThreadStep, ClientStep

-----------------------------------------------------------------------------
(* The order of the frames *)

\* Initially Order holds.
LEMMA OrderInit == Init => Order
    BY DEF Init, Order

\* The timestamps are numbers: m_out has buffers only while all are allocated.
LEMMA OrderNumbers ==
    ASSUME CodecTyped, BufferTyped, Allocated, Clean, Mapped
    PROVE  /\ \A n \in DOMAIN outQ : outQ[n] \in DOMAIN stamp /\ stamp[outQ[n]] \in Nat
           /\ \A n \in DOMAIN codec.outs : codec.outs[n].ts \in Nat
           /\ \A n \in DOMAIN inQ : inQ[n].ts \in Nat
           /\ frame.ts \in Nat /\ seen \in Nat /\ sent \in Nat
<1>1. /\ outQ \in Seq(Indices) /\ stamp \in Seq(Nat) /\ codec.outs \in Seq(Pictures)
      /\ inQ \in Seq(Inputs) /\ frame \in Pictures /\ seen \in Nat /\ sent \in Nat
    BY DEF CodecTyped, BufferTyped, Codecs
<1>2. ASSUME NEW n \in DOMAIN outQ PROVE outQ[n] \in DOMAIN stamp /\ stamp[outQ[n]] \in Nat
    <2>1. outQ # <<>>
        BY <1>2
    <2>2. Complete
        BY <2>1 DEF Clean, Allocated
    <2>3. outQ[n] \in Indices
        BY <1>1, <1>2, ElementOfSeq, LenProperties
    <2>4. DOMAIN stamp = Indices
        BY <1>1, <2>2, LenProperties DEF Complete, Indices
    <2>5. QED
        BY <1>1, <2>3, <2>4, ElementOfSeq, LenProperties
<1>3. \A n \in DOMAIN codec.outs : codec.outs[n].ts \in Nat
    <2>1. \A n \in DOMAIN codec.outs : codec.outs[n] \in Pictures
        BY <1>1, ElementOfSeq, LenProperties
    <2>2. QED
        BY <2>1 DEF Pictures
<1>4. \A n \in DOMAIN inQ : inQ[n].ts \in Nat
    <2>1. \A n \in DOMAIN inQ : inQ[n] \in Inputs
        BY <1>1, ElementOfSeq, LenProperties
    <2>2. QED
        BY <2>1 DEF Inputs
<1>5. QED
    BY <1>1, <1>2, <1>3, <1>4 DEF Pictures

\* Every step keeps Order.
LEMMA OrderStep ==
    ASSUME CodecTyped, BufferTyped, Protocol, Change, InputFormats, Allocated, PoolKept, Clean,
           Mapped, Pictured, Accounted, Buffers, PutOut, Order, [Next]_vars
    PROVE  Order'
<1> USE DEF codecVars, pipeVars, outVars, vaVars, flagVars, userVars, threadVars
<1>1. /\ \A n \in DOMAIN outQ : outQ[n] \in DOMAIN stamp /\ stamp[outQ[n]] \in Nat
      /\ \A n \in DOMAIN codec.outs : codec.outs[n].ts \in Nat
      /\ \A n \in DOMAIN inQ : inQ[n].ts \in Nat
      /\ frame.ts \in Nat /\ seen \in Nat /\ sent \in Nat
    BY OrderNumbers
<1>2. /\ codec \in Codecs /\ codec.outs \in Seq(Pictures) /\ inQ \in Seq(Inputs)
      /\ outQ \in Seq(Indices) /\ stamp \in Seq(Nat)
    BY DEF CodecTyped, BufferTyped, Codecs
\* Steps that leave the frames where they are, but for lists that are emptied.
<1>3. ASSUME outQ' = <<>> \/ UNCHANGED <<outQ, stamp>>,
             codec'.outs = codec.outs \/ codec'.outs = <<>>,
             inQ' = inQ \/ inQ' = <<>>,
             UNCHANGED <<seen, sent>>,
             step' = "put" => step = "put" /\ frame' = frame,
             step = "consume" => step' = "consume"
      PROVE  Order'
    BY <1>3 DEF Order
<1>4. CASE \/ FlushDecoder \/ DecodeEOS \/ DecodeFormatChange \/ DecodeFails \/ DecodeNoSurface
    <2>1. /\ codec'.outs = codec.outs \/ codec'.outs = <<>>
          /\ step \in {"flush", "getInput"}
        BY <1>4, CodecLetsGo
    <2>2. UNCHANGED <<outQ, stamp, inQ, seen, sent>> /\ step' # "put"
        BY <1>4 DEF FlushDecoder, DecodeEOS, DecodeFormatChange, DecodeFails, DecodeNoSurface, Decoded
    <2>3. QED
        BY <1>3, <2>1, <2>2
<1>5. CASE \/ StartDecoder \/ NoInput \/ FormatChange \/ NoSurface \/ OutputEmpty \/ OutputDrop
           \/ RunJob
    <2>1. UNCHANGED <<outQ, stamp, inQ, seen, sent>> /\ step' # "put" /\ step # "consume"
        BY <1>5 DEF StartDecoder, NoInput, FormatChange, NoSurface, OutputEmpty, OutputDrop, RunJob
    <2>2. codec'.outs = codec.outs
        BY <1>2, <1>5 DEF StartDecoder, NoInput, FormatChange, NoSurface, OutputEmpty, OutputDrop,
           RunJob, Codecs
    <2>3. QED
        BY <1>3, <2>1, <2>2
<1>6. CASE FreeBuffers \/ RequestBuffers
    <2>1. /\ UNCHANGED <<outQ, codec, inQ, seen, sent>> /\ step' = "none"
          /\ step \in {"free", "request"}
        BY <1>6 DEF FreeBuffers, RequestBuffers
    <2>2. phase \in {"free", "request"}
        BY <2>1, ThreadFacts
    <2>3. outQ' = <<>>
        BY <2>1, <2>2 DEF Clean
    <2>4. QED
        BY <1>3, <2>1, <2>3
<1>7. CASE \/ StreamOnInput \/ QueueInputPost \/ DequeInput \/ QueueNewBuffer
           \/ QueueBuffer \/ QueueBufferGetter \/ QueueBufferPost \/ DequeFreeBuffer
           \/ StreamOnOutput \/ StreamOffOutput \/ StreamOffOutputClear
           \/ DequeEvent \/ RequestBuffersSend \/ RequestBuffersReturn
           \/ StreamOffInput \/ StreamOffInputDone \/ UNCHANGED vars
    <2>1. /\ UNCHANGED <<codec, frame, stamp, seen, sent, step>>
          /\ outQ' = outQ \/ outQ' = <<>>
          /\ inQ' = inQ \/ inQ' = <<>>
        BY <1>7 DEF StreamOnInput, QueueInputPost, DequeInput, QueueNewBuffer, QueueBuffer,
           QueueBufferGetter, QueueBufferPost, DequeFreeBuffer, StreamOnOutput, StreamOffOutput,
           StreamOffOutputClear, DequeEvent, RequestBuffersSend, RequestBuffersReturn,
           StreamOffInput, StreamOffInputDone, vars
    <2>2. QED
        BY <1>3, <2>1
\* A picture of the first input goes to the end of the codec's list.
<1>8. CASE DecodePicture
    <2>1. PICK p \in Pictures : /\ p.ts = Head(inQ).ts
                               /\ codec'.outs = Append(codec.outs, p)
        BY <1>8, PictureDecoded
    <2>2. /\ inQ # <<>> /\ step = "getInput" /\ step' = "consume" /\ inQ' = inQ
          /\ UNCHANGED <<outQ, stamp, seen, sent>>
        BY <1>8, PictureDecoded DEF DecodePicture, Decoded
    <2>3. 1 \in DOMAIN inQ /\ p.ts = inQ[1].ts /\ DOMAIN inQ = 1..Len(inQ) /\ Len(inQ) \in Nat
        BY <1>2, <2>1, <2>2, HeadTyped, LenProperties
    <2>4. /\ DOMAIN codec.outs = 1..Len(codec.outs) /\ Len(codec.outs) \in Nat
          /\ DOMAIN codec'.outs = 1..(Len(codec.outs) + 1)
          /\ codec'.outs[Len(codec.outs) + 1] = p
          /\ \A n \in DOMAIN codec.outs : codec'.outs[n] = codec.outs[n]
        BY <1>2, <2>1, AppendProperties, LenProperties
    <2>5. \A n \in DOMAIN codec'.outs :
             \/ n \in DOMAIN codec.outs /\ codec'.outs[n] = codec.outs[n]
             \/ n = Len(codec.outs) + 1 /\ codec'.outs[n].ts = inQ[1].ts
        BY <2>3, <2>4
    <2>6. \A n \in DOMAIN codec.outs, m \in DOMAIN inQ : codec.outs[n].ts < inQ[m].ts
        BY <2>2 DEF Order
    <2>7. \A n \in DOMAIN codec'.outs : seen < codec'.outs[n].ts /\ codec'.outs[n].ts <= sent
        BY <2>3, <2>5 DEF Order
    <2>8. \A m, n \in DOMAIN codec'.outs : m < n => codec'.outs[m].ts < codec'.outs[n].ts
        <3>1. SUFFICES ASSUME NEW m \in DOMAIN codec'.outs, NEW n \in DOMAIN codec'.outs, m < n
                       PROVE  codec'.outs[m].ts < codec'.outs[n].ts
            OBVIOUS
        <3>2. m \in DOMAIN codec.outs /\ codec'.outs[m] = codec.outs[m]
            BY <2>4, <2>5, <3>1
        <3>3. CASE n \in DOMAIN codec.outs
            BY <2>4, <3>1, <3>2, <3>3 DEF Order
        <3>4. CASE codec'.outs[n].ts = inQ[1].ts
            BY <2>3, <2>6, <3>2, <3>4
        <3>5. QED
            BY <2>5, <3>3, <3>4
    <2>9. \A m \in DOMAIN outQ, n \in DOMAIN codec'.outs : stamp[outQ[m]] < codec'.outs[n].ts
        BY <2>3, <2>5 DEF Order
    <2>10. \A m \in DOMAIN codec'.outs, n \in DOMAIN inQ :
              codec'.outs[m].ts < inQ[n].ts \/ (n = 1 /\ codec'.outs[m].ts = inQ[n].ts)
        <3>1. \A n \in DOMAIN inQ : n = 1 \/ inQ[1].ts < inQ[n].ts
            BY <2>3 DEF Order
        <3>2. QED
            BY <2>5, <2>6, <3>1
    <2>11. QED
        BY <2>2, <2>7, <2>8, <2>9, <2>10 DEF Order
\* consumeInput() takes the first input away.
<1>9. CASE Consume
    <2>1. /\ inQ # <<>> /\ inQ' = Tail(inQ) /\ step = "consume" /\ step' = "none"
          /\ UNCHANGED <<outQ, stamp, codec, seen, sent>>
        BY <1>9 DEF Consume, InputFormats
    <2>2. /\ DOMAIN inQ = 1..Len(inQ) /\ Len(inQ) \in Nat /\ DOMAIN inQ' = 1..(Len(inQ) - 1)
          /\ \A n \in 1..(Len(inQ) - 1) : inQ'[n] = inQ[n + 1]
        BY <1>2, <2>1, HeadTailProperties, LenProperties
    <2>3. \A n \in DOMAIN inQ' : n + 1 \in DOMAIN inQ /\ n + 1 # 1 /\ inQ'[n] = inQ[n + 1]
        BY <2>2
    <2>4. \A n \in DOMAIN inQ' : seen < inQ'[n].ts /\ inQ'[n].ts <= sent
        BY <2>3 DEF Order
    <2>5. \A m, n \in DOMAIN inQ' : m < n => inQ'[m].ts < inQ'[n].ts
        BY <2>2, <2>3 DEF Order
    <2>6. \A m \in DOMAIN outQ, n \in DOMAIN inQ' : stamp[outQ[m]] < inQ'[n].ts
        BY <2>3 DEF Order
    <2>7. \A m \in DOMAIN codec.outs, n \in DOMAIN inQ' : codec.outs[m].ts < inQ'[n].ts
        BY <2>3 DEF Order
    <2>8. QED
        BY <2>1, <2>4, <2>5, <2>6, <2>7 DEF Order
\* getOutput() takes the first picture of the codec.
<1>10. CASE OutputHold
    <2>1. /\ codec.outs # <<>> /\ frame' = Head(codec.outs) /\ codec'.outs = Tail(codec.outs)
          /\ step = "getOutput" /\ step' = "put" /\ UNCHANGED <<outQ, stamp, inQ, seen, sent>>
        BY <1>2, <1>10 DEF OutputHold, Codecs
    <2>2. /\ 1 \in DOMAIN codec.outs /\ codec.outs[1] = frame' /\ Len(codec.outs) \in Nat
          /\ DOMAIN codec'.outs = 1..(Len(codec.outs) - 1) /\ DOMAIN codec.outs = 1..Len(codec.outs)
          /\ \A n \in 1..(Len(codec.outs) - 1) : codec'.outs[n] = codec.outs[n + 1]
        BY <1>2, <2>1, HeadTailProperties, LenProperties, EmptySeq
    <2>3. \A n \in DOMAIN codec'.outs :
             n + 1 \in DOMAIN codec.outs /\ 1 < n + 1 /\ codec'.outs[n] = codec.outs[n + 1]
        BY <2>2
    <2>4. \A n \in DOMAIN codec'.outs : seen < codec'.outs[n].ts /\ codec'.outs[n].ts <= sent
        BY <2>3 DEF Order
    <2>5. \A m, n \in DOMAIN codec'.outs : m < n => codec'.outs[m].ts < codec'.outs[n].ts
        <3>1. SUFFICES ASSUME NEW m \in DOMAIN codec'.outs, NEW n \in DOMAIN codec'.outs, m < n
                       PROVE  codec'.outs[m].ts < codec'.outs[n].ts
            OBVIOUS
        <3>2. m + 1 < n + 1 /\ m + 1 \in DOMAIN codec.outs /\ n + 1 \in DOMAIN codec.outs
            BY <2>2, <2>3, <3>1
        <3>3. codec.outs[m + 1].ts < codec.outs[n + 1].ts
            BY <3>2 DEF Order
        <3>4. QED
            BY <2>3, <3>3
    <2>6. \A m \in DOMAIN outQ, n \in DOMAIN codec'.outs : stamp[outQ[m]] < codec'.outs[n].ts
        BY <2>3 DEF Order
    <2>7. \A m \in DOMAIN codec'.outs, n \in DOMAIN inQ : codec'.outs[m].ts < inQ[n].ts
        BY <2>1, <2>3 DEF Order
    <2>8. /\ seen < frame'.ts /\ frame'.ts <= sent
          /\ \A n \in DOMAIN outQ : stamp[outQ[n]] < frame'.ts
          /\ \A n \in DOMAIN codec'.outs : frame'.ts < codec'.outs[n].ts
          /\ \A n \in DOMAIN inQ : frame'.ts < inQ[n].ts
        BY <2>1, <2>2, <2>3 DEF Order
    <2>9. QED
        BY <2>1, <2>4, <2>5, <2>6, <2>7, <2>8 DEF Order
\* output() puts the frame at the end of m_out, in a buffer that was not there.
<1>11. CASE OutputPut
    <2>1. PICK i : /\ i = smap[frame.id] /\ outQ' = Append(outQ, i)
                   /\ stamp' = [stamp EXCEPT ![i] = frame.ts]
        BY <1>11 DEF OutputPut
    <2>2. /\ step = "put" /\ step' = "drop" /\ frame.id \in DOMAIN smap
          /\ UNCHANGED <<codec, inQ, seen, sent>>
        BY <1>11 DEF OutputPut
    <2>3. i \in Indices /\ i \notin Range(outQ)
        BY <2>1, <2>2 DEF PutOut, BufferTyped, Placed
    <2>4. i \in DOMAIN stamp
        <3>1. frame # None /\ phase \in {"run", "seek", "resume", "restart"}
            BY <1>11, <2>2, ThreadAtWork DEF PutOut
        <3>2. Complete
            BY <3>1 DEF Clean, Allocated
        <3>3. QED
            BY <2>3, <3>2, EveryBufferHasSurface
    <2>5. /\ DOMAIN outQ = 1..Len(outQ) /\ Len(outQ) \in Nat /\ DOMAIN outQ' = 1..(Len(outQ) + 1)
          /\ outQ'[Len(outQ) + 1] = i /\ \A n \in 1..Len(outQ) : outQ'[n] = outQ[n]
        BY <1>2, <2>1, <2>3, AppendProperties, LenProperties
    <2>6. stamp'[i] = frame.ts /\ \A n \in DOMAIN outQ : stamp'[outQ[n]] = stamp[outQ[n]]
        BY <1>1, <2>1, <2>3, <2>4 DEF Range
    <2>7. \A n \in DOMAIN outQ' :
             \/ n \in DOMAIN outQ /\ stamp'[outQ'[n]] = stamp[outQ[n]]
             \/ n = Len(outQ) + 1 /\ stamp'[outQ'[n]] = frame.ts
        BY <2>5, <2>6
    <2>8. /\ seen < frame.ts /\ frame.ts <= sent
          /\ \A n \in DOMAIN outQ : stamp[outQ[n]] < frame.ts
          /\ \A n \in DOMAIN codec.outs : frame.ts < codec.outs[n].ts
          /\ \A n \in DOMAIN inQ : frame.ts < inQ[n].ts
        BY <2>2 DEF Order
    <2>9. \A n \in DOMAIN outQ' : seen < stamp'[outQ'[n]] /\ stamp'[outQ'[n]] <= sent
        BY <2>7, <2>8 DEF Order
    <2>10. \A m, n \in DOMAIN outQ' : m < n => stamp'[outQ'[m]] < stamp'[outQ'[n]]
        BY <2>5, <2>7, <2>8 DEF Order
    <2>11. /\ \A m \in DOMAIN outQ', n \in DOMAIN codec.outs : stamp'[outQ'[m]] < codec.outs[n].ts
           /\ \A m \in DOMAIN outQ', n \in DOMAIN inQ : stamp'[outQ'[m]] < inQ[n].ts
        BY <2>7, <2>8 DEF Order
    <2>12. QED
        BY <2>2, <2>9, <2>10, <2>11 DEF Order
\* A new input is the newest of all.
<1>12. CASE QueueInput
    <2>1. PICK e : inQ' = Append(inQ, e) /\ e.ts = sent + 1
        <3>1. CASE \E fmt \in Formats :
                      inQ' = Append(inQ, [kind |-> "key", fmt |-> fmt, ts |-> sent + 1])
            BY <3>1
        <3>2. CASE \E kind \in {"other", "eos"} :
                      inQ' = Append(inQ, [kind |-> kind, fmt |-> 0, ts |-> sent + 1])
            BY <3>2
        <3>3. QED
            BY <1>12, <3>1, <3>2 DEF QueueInput
    <2>2. UNCHANGED <<outQ, stamp, codec, frame, seen, step>> /\ sent' = sent + 1
        BY <1>12 DEF QueueInput
    <2>3. /\ DOMAIN inQ = 1..Len(inQ) /\ Len(inQ) \in Nat /\ DOMAIN inQ' = 1..(Len(inQ) + 1)
          /\ inQ'[Len(inQ) + 1] = e /\ \A n \in 1..Len(inQ) : inQ'[n] = inQ[n]
        <3>1. inQ' \in Seq(Inputs)
            BY CodecTypedStep DEF CodecTyped
        <3>2. Len(inQ) \in Nat /\ DOMAIN inQ = 1..Len(inQ)
            BY <1>2, LenProperties
        <3>3. QED
            BY <1>2, <2>1, <3>1, <3>2, LenProperties
    <2>4. \A n \in DOMAIN inQ' :
             \/ n \in DOMAIN inQ /\ inQ'[n] = inQ[n]
             \/ n = Len(inQ) + 1 /\ inQ'[n].ts = sent + 1
        BY <2>1, <2>3
    <2>5. \A n \in DOMAIN inQ' : seen < inQ'[n].ts /\ inQ'[n].ts <= sent + 1
        BY <1>1, <2>4 DEF Order
    <2>6. \A m, n \in DOMAIN inQ' : m < n => inQ'[m].ts < inQ'[n].ts
        BY <1>1, <2>3, <2>4 DEF Order
    <2>7. \A m \in DOMAIN outQ, n \in DOMAIN inQ' : stamp[outQ[m]] < inQ'[n].ts
        BY <1>1, <2>4 DEF Order
    <2>8. \A m \in DOMAIN codec.outs, n \in DOMAIN inQ' :
             codec.outs[m].ts < inQ'[n].ts \/ (step = "consume" /\ n = 1 /\ codec.outs[m].ts = inQ'[n].ts)
        BY <1>1, <2>4 DEF Order
    <2>9. step = "put" => \A n \in DOMAIN inQ' : frame.ts < inQ'[n].ts
        BY <1>1, <2>4 DEF Order
    <2>10. /\ seen <= sent + 1
           /\ \A n \in DOMAIN outQ : stamp[outQ[n]] <= sent + 1
           /\ \A n \in DOMAIN codec.outs : codec.outs[n].ts <= sent + 1
           /\ step = "put" => frame.ts <= sent + 1
        BY <1>1 DEF Order
    <2>11. QED
        BY <2>2, <2>5, <2>6, <2>7, <2>8, <2>9, <2>10 DEF Order
\* The client takes the first frame of m_out.
<1>13. CASE DequeBuffer
    <2>1. /\ outQ # <<>> /\ outQ' = Tail(outQ) /\ seen' = stamp[Head(outQ)]
          /\ UNCHANGED <<stamp, codec, frame, inQ, sent, step>>
        BY <1>13 DEF DequeBuffer
    <2>2. /\ 1 \in DOMAIN outQ /\ outQ[1] = Head(outQ) /\ Len(outQ) \in Nat
          /\ DOMAIN outQ' = 1..(Len(outQ) - 1) /\ DOMAIN outQ = 1..Len(outQ)
          /\ \A n \in 1..(Len(outQ) - 1) : outQ'[n] = outQ[n + 1]
        BY <1>2, <2>1, HeadTailProperties, LenProperties, EmptySeq
    <2>3. \A n \in DOMAIN outQ' : n + 1 \in DOMAIN outQ /\ 1 < n + 1 /\ outQ'[n] = outQ[n + 1]
        BY <2>2
    <2>4. seen' = stamp[outQ[1]]
        BY <2>1, <2>2
    <2>5. /\ seen' <= sent
          /\ \A n \in DOMAIN outQ' : seen' < stamp[outQ'[n]] /\ stamp[outQ'[n]] <= sent
          /\ \A n \in DOMAIN codec.outs : seen' < codec.outs[n].ts /\ codec.outs[n].ts <= sent
          /\ \A n \in DOMAIN inQ : seen' < inQ[n].ts /\ inQ[n].ts <= sent
        BY <2>2, <2>3, <2>4 DEF Order
    <2>6. \A m, n \in DOMAIN outQ' : m < n => stamp[outQ'[m]] < stamp[outQ'[n]]
        BY <2>2, <2>3 DEF Order
    <2>7. /\ \A m \in DOMAIN outQ', n \in DOMAIN codec.outs : stamp[outQ'[m]] < codec.outs[n].ts
          /\ \A m \in DOMAIN outQ', n \in DOMAIN inQ : stamp[outQ'[m]] < inQ[n].ts
        BY <2>3 DEF Order
    <2>8. step = "put" => seen' < frame.ts /\ \A n \in DOMAIN outQ' : stamp[outQ'[n]] < frame.ts
        BY <2>2, <2>3, <2>4 DEF Order
    <2>9. QED
        BY <2>1, <2>5, <2>6, <2>7, <2>8 DEF Order
<1>14. QED
    BY <1>4, <1>5, <1>6, <1>7, <1>8, <1>9, <1>10, <1>11, <1>12, <1>13
       DEF Next, ThreadStep, ClientStep

-----------------------------------------------------------------------------
(* The invariant of the surfaces, the buffers and the frames *)

Owned == Orderly /\ Mapped /\ Pictured /\ Accounted /\ Buffers /\ PutOut /\ Order

\* Every surface, buffer and frame stays accounted for.
LEMMA OwnedInvariant ==
    ASSUME Calm
    PROVE  Spec /\ [][~GivenWhileHeld]_vars => []Owned
<1>1. Init => Owned
    BY CodecTypedInit, BufferTypedInit, ProtocolInit, ChangeInit, InputFormatsInit, AllocatedInit,
       PoolKeptInit, CleanInit, WakeInit, MappedInit, PicturedInit, AccountedInit, BuffersInit,
       PutOutInit, OrderInit DEF Owned, Orderly
<1>2. Owned /\ [Next]_vars /\ [~GivenWhileHeld]_vars => Owned'
    <2> SUFFICES ASSUME Owned, [Next]_vars, [~GivenWhileHeld]_vars PROVE Owned'
        OBVIOUS
    <2>0. ~GivenWhileHeld
        BY DEF GivenWhileHeld, vars, vaVars
    <2>1. /\ CodecTyped /\ BufferTyped /\ Protocol /\ Change /\ InputFormats
          /\ Allocated /\ PoolKept /\ Clean /\ Wake
          /\ Mapped /\ Pictured /\ Accounted /\ Buffers /\ PutOut /\ Order
        BY DEF Owned, Orderly
    <2>2. Orderly'
        BY <2>1, CodecTypedStep, BufferTypedStep, ProtocolStep, ChangeStep, InputFormatsStep,
           AllocatedStep, PoolKeptStep, CleanStep, WakeStep DEF Orderly
    <2>3. Mapped' /\ Pictured' /\ Accounted'
        BY <2>0, <2>1, MappedStep, PicturedStep, AccountedStep
    <2>4. Buffers' /\ PutOut' /\ Order'
        BY <2>1, BuffersStep, PutOutStep, OrderStep
    <2>5. QED
        BY <2>2, <2>3, <2>4 DEF Owned
<1>3. QED
    BY <1>1, <1>2, PTL DEF Spec

\* A surface that SurfaceGetter gives out again is held by nobody: no picture of the
\* codec and no frame on its way out is in it, and neither m_out nor the client has
\* its buffer, whatever the interleaving of the two threads with putSurface().  That
\* putSurface() knows a surface by its id only spoils this in one way: createSurface()
\* gave a picture's id to another surface before the picture was let go.
THEOREM FreeSurfacesAreFree ==
    ASSUME Calm
    PROVE  Spec /\ [][~GivenWhileHeld]_vars => []FreeIsUnheld
<1>1. Owned => FreeIsUnheld
    <2> SUFFICES ASSUME Owned PROVE FreeIsUnheld
        OBVIOUS
    <2>1. /\ FreedIsUnused(getter) /\ DOMAIN getter.used \subseteq Ids
          /\ \A h \in Pics : h.id \in DOMAIN getter.used => "decoder" \in getter.used[h.id] \/ Dropped
        BY GetterParts DEF Owned, Orderly, BufferTyped, Accounted
    <2>2. ASSUME NEW s \in Range(getter.freed), NEW h \in Held(codec) \cup {frame}
          PROVE  h.id # s
        <3>1. s \in DOMAIN getter.used /\ getter.used[s] = {} /\ s \in Ids
            BY <2>1, <2>2 DEF FreedIsUnused
        <3>2. getter.freed # <<>>
            BY <2>2, ListEmpty
        <3>3. h = None \/ h \in Pics
            BY <2>2 DEF Pics
        <3>4. h = None => h.id \notin Ids
            BY DecoderNumbers
        <3>5. QED
            BY <2>1, <3>1, <3>2, <3>3, <3>4 DEF Dropped
    <2>3. ASSUME NEW s \in Range(getter.freed) PROVE smap[s] \notin mine \cup Range(outQ)
        BY <2>1, <2>3 DEF FreedIsUnused, Owned, Buffers, Placed
    <2>4. QED
        BY <2>1, <2>2, <2>3 DEF FreeIsUnheld, FreedIsUnused
<1>2. QED
    BY <1>1, OwnedInvariant, PTL

\* A capture buffer is in m_out once, and the client does not have it meanwhile.
THEOREM BuffersStayApart ==
    ASSUME Calm
    PROVE  Spec /\ [][~GivenWhileHeld]_vars => []BufferInOnePlace
<1>1. Owned => BufferInOnePlace
    BY DEF Owned, Buffers, BufferInOnePlace
<1>2. QED
    BY <1>1, OwnedInvariant, PTL

\* ASSERT(it != m_surfaceMap.end()) of output() never fails: a frame that is put out
\* has a surface of the present allocation.
THEOREM OutputFindsBuffer ==
    ASSUME Calm
    PROVE  Spec /\ [][~GivenWhileHeld]_vars => []OutputIsMapped
<1>1. Owned => OutputIsMapped
    BY DEF Owned, Orderly, PutOut, Allocated, OutputIsMapped
<1>2. QED
    BY <1>1, OwnedInvariant, PTL

\* The client gets the frames in the order of decoding, each at most once, across
\* seeks and changes of format.
THEOREM FramesInOrder ==
    ASSUME Calm
    PROVE  Spec /\ [][~GivenWhileHeld]_vars => InOrder
<1>1. Owned /\ [Next]_vars => [seen' # seen => seen' > seen]_vars
    <2> SUFFICES ASSUME Owned, [Next]_vars, seen' # seen PROVE seen' > seen
        OBVIOUS
    <2>1. DequeBuffer
        BY DEF Next, ThreadStep, ClientStep, RunJob, StartDecoder, FlushDecoder, FreeBuffers,
           RequestBuffers, NoInput, DecodeEOS, DecodeFormatChange, DecodeFails, DecodeNoSurface,
           DecodePicture, Decoded, FormatChange, NoSurface, Consume, OutputEmpty, OutputHold,
           OutputPut, OutputDrop, StreamOnInput, QueueInput, QueueInputPost, DequeInput,
           QueueNewBuffer, QueueBuffer, QueueBufferGetter, QueueBufferPost, DequeFreeBuffer,
           StreamOnOutput, StreamOffOutput, StreamOffOutputClear, DequeEvent, RequestBuffersSend,
           RequestBuffersReturn, StreamOffInput, StreamOffInputDone, vars, userVars
    <2>2. outQ # <<>> /\ outQ \in Seq(Indices) /\ seen' = stamp[Head(outQ)]
        BY <2>1 DEF DequeBuffer, Owned, Orderly, BufferTyped
    <2>3. 1 \in DOMAIN outQ /\ outQ[1] = Head(outQ)
        BY <2>2, LenProperties, EmptySeq, HeadTailProperties
    <2>4. seen < stamp[outQ[1]] /\ stamp[outQ[1]] \in Nat /\ seen \in Nat
        BY <2>3, OrderNumbers DEF Owned, Orderly, Order
    <2>5. QED
        BY <2>2, <2>3, <2>4
<1>2. QED
    BY <1>1, OwnedInvariant, PTL DEF Spec, InOrder
=============================================================================
