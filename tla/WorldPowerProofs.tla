-------------------------- MODULE WorldPowerProofs --------------------------
(***************************************************************************)
(* Proofs about WorldPower, for every number of interfaces and inputs,     *)
(* whatever scripts call and whenever the user runs the world.             *)
(***************************************************************************)
EXTENDS WorldPower, SequenceTheorems, TLAPS

-----------------------------------------------------------------------------
(* Lemmas about what a sequence holds *)

LEMMA HeldByConcat ==
  ASSUME NEW S, NEW s \in Seq(S), NEW t \in Seq(S)
  PROVE  /\ s \o t \in Seq(S)
         /\ Elements(s \o t) = Elements(s) \cup Elements(t)
<1>0. Len(s) \in Nat /\ Len(t) \in Nat
  BY LenProperties
<1>1. /\ s \o t \in Seq(S) /\ Len(s \o t) = Len(s) + Len(t)
      /\ \A k \in 1 .. Len(s) + Len(t) :
           (s \o t)[k] = IF k <= Len(s) THEN s[k] ELSE t[k - Len(s)]
  BY ConcatProperties
<1>2. ASSUME NEW x \in Elements(s) PROVE x \in Elements(s \o t)
  <2>1. PICK k \in 1 .. Len(s) : x = s[k]
    BY <1>2 DEF Elements
  <2>2. k \in 1 .. Len(s \o t) /\ (s \o t)[k] = x
    BY <1>0, <1>1, <2>1
  <2> QED
    BY <2>2 DEF Elements
<1>3. ASSUME NEW x \in Elements(t) PROVE x \in Elements(s \o t)
  <2>1. PICK k \in 1 .. Len(t) : x = t[k]
    BY <1>3 DEF Elements
  <2>2. /\ k + Len(s) \in 1 .. Len(s \o t)
        /\ ~(k + Len(s) <= Len(s)) /\ k + Len(s) - Len(s) = k
    BY <1>0, <1>1, <2>1
  <2>3. (s \o t)[k + Len(s)] = x
    BY <1>1, <2>1, <2>2
  <2> QED
    BY <2>2, <2>3 DEF Elements
<1>4. ASSUME NEW x \in Elements(s \o t) PROVE x \in Elements(s) \cup Elements(t)
  <2>1. PICK k \in 1 .. Len(s) + Len(t) : x = (s \o t)[k]
    BY <1>1, <1>4 DEF Elements
  <2>2. CASE k <= Len(s)
    BY <1>0, <1>1, <2>1, <2>2 DEF Elements
  <2>3. CASE ~(k <= Len(s))
    <3>1. k - Len(s) \in 1 .. Len(t) /\ x = t[k - Len(s)]
      BY <1>0, <1>1, <2>1, <2>3
    <3> QED
      BY <3>1 DEF Elements
  <2> QED
    BY <2>2, <2>3
<1> QED
  BY <1>1, <1>2, <1>3, <1>4

LEMMA HeldByAppend ==
  ASSUME NEW S, NEW s \in Seq(S), NEW x \in S
  PROVE  /\ Append(s, x) \in Seq(S)
         /\ Elements(Append(s, x)) = Elements(s) \cup {x}
<1>0. Len(s) \in Nat
  BY LenProperties
<1>1. /\ Append(s, x) \in Seq(S) /\ Len(Append(s, x)) = Len(s) + 1
      /\ \A k \in 1 .. Len(s) : Append(s, x)[k] = s[k]
      /\ Append(s, x)[Len(s) + 1] = x
  BY AppendProperties
<1>2. 1 .. Len(s) + 1 = (1 .. Len(s)) \cup {Len(s) + 1}
  BY <1>0
<1> QED
  BY <1>1, <1>2 DEF Elements

LEMMA HeldByTail ==
  ASSUME NEW S, NEW s \in Seq(S), s # <<>>
  PROVE  /\ Head(s) \in S /\ Tail(s) \in Seq(S)
         /\ Elements(s) = Elements(Tail(s)) \cup {Head(s)}
<1>1. /\ Head(s) = s[1] /\ s[1] \in S /\ Tail(s) \in Seq(S)
      /\ Len(Tail(s)) = Len(s) - 1 /\ Len(s) \in Nat /\ Len(s) # 0
      /\ \A k \in 1 .. Len(Tail(s)) : Tail(s)[k] = s[k + 1]
  <2>1. Len(s) \in Nat /\ Len(s) # 0
    BY LenProperties, EmptySeq
  <2>2. 1 \in 1 .. Len(s)
    BY <2>1
  <2>3. s[1] \in S
    BY <2>2, ElementOfSeq
  <2> QED
    BY <2>1, <2>3, HeadTailProperties
<1>2. ASSUME NEW x \in Elements(s) PROVE x \in Elements(Tail(s)) \cup {Head(s)}
  <2>1. PICK k \in 1 .. Len(s) : x = s[k]
    BY <1>2 DEF Elements
  <2>2. CASE k = 1
    BY <1>1, <2>1, <2>2
  <2>3. CASE k # 1
    <3>1. k - 1 \in 1 .. Len(Tail(s)) /\ (k - 1) + 1 = k
      BY <1>1, <2>1, <2>3
    <3>2. x = Tail(s)[k - 1]
      BY <1>1, <2>1, <3>1
    <3> QED
      BY <3>1, <3>2 DEF Elements
  <2> QED
    BY <2>2, <2>3
<1>3. ASSUME NEW x \in Elements(Tail(s)) PROVE x \in Elements(s)
  <2>1. PICK k \in 1 .. Len(Tail(s)) : x = Tail(s)[k]
    BY <1>3 DEF Elements
  <2>2. k + 1 \in 1 .. Len(s) /\ x = s[k + 1]
    BY <1>1, <2>1
  <2> QED
    BY <2>2 DEF Elements
<1>4. Head(s) \in Elements(s)
  <2>1. 1 \in 1 .. Len(s)
    BY <1>1
  <2> QED
    BY <1>1, <2>1 DEF Elements
<1> QED
  BY <1>1, <1>2, <1>3, <1>4

LEMMA HeldByTwo ==
  ASSUME NEW S, NEW x \in S, NEW y \in S
  PROVE  <<x, y>> \in Seq(S) /\ Elements(<<x, y>>) = {x, y}
<1>1. /\ <<x, y>> \in Seq(S) /\ Len(<<x, y>>) = 2
      /\ <<x, y>>[1] = x /\ <<x, y>>[2] = y /\ 1 .. 2 = {1, 2}
  OBVIOUS
<1> QED
  BY <1>1 DEF Elements

LEMMA HeldByFew ==
  ASSUME NEW S, NEW x \in S
  PROVE  /\ <<>> \in Seq(S) /\ Elements(<<>>) = {}
         /\ <<x>> \in Seq(S) /\ Elements(<<x>>) = {x}
<1>1. <<>> \in Seq(S) /\ Elements(<<>>) = {}
  BY EmptySeq DEF Elements
<1>2. <<x>> \in Seq(S) /\ Elements(<<x>>) = {x}
  <2>1. <<x>> \in Seq(S) /\ Len(<<x>>) = 1 /\ <<x>>[1] = x /\ 1 .. 1 = {1}
    OBVIOUS
  <2> QED
    BY <2>1 DEF Elements
<1> QED
  BY <1>1, <1>2

-----------------------------------------------------------------------------
(* Lemmas about events of the world and callbacks *)

LEMMA CallsHeld ==
  ASSUME NEW w \in World, NEW e \in Event
  PROVE  /\ Calls(e, w) \in Seq(Call)
         /\ "on" \in Elements(Calls(e, w)) => e = "PowerOn"
         /\ e = "PowerOff" => "off" \in Elements(Calls(e, w))
<1>1. /\ Calls(e, w) \in {<<>>, <<"off">>, <<"stop">>, <<"on">>, <<"resume">>, <<"on", "resume">>}
      /\ e = "PowerOff" => Calls(e, w) = <<"off">>
      /\ e # "PowerOn" => Calls(e, w) \in {<<>>, <<"off">>, <<"stop">>, <<"resume">>}
  BY DEF Calls, Event
<1>2. "off" \in Call /\ "stop" \in Call /\ "on" \in Call /\ "resume" \in Call
  BY DEF Call
<1>3. /\ <<>> \in Seq(Call) /\ Elements(<<>>) = {}
      /\ <<"off">> \in Seq(Call) /\ Elements(<<"off">>) = {"off"}
  BY <1>2, HeldByFew
<1>4. /\ <<"stop">> \in Seq(Call) /\ Elements(<<"stop">>) = {"stop"}
      /\ <<"resume">> \in Seq(Call) /\ Elements(<<"resume">>) = {"resume"}
  BY <1>2, HeldByFew
<1>5. <<"on">> \in Seq(Call) /\ <<"on", "resume">> \in Seq(Call)
  BY <1>2, HeldByFew, HeldByTwo
<1>6. ASSUME e # "PowerOn" PROVE "on" \notin Elements(Calls(e, w))
  <2>1. CASE Calls(e, w) = <<>>
    BY <1>3, <2>1
  <2>2. CASE Calls(e, w) = <<"off">>
    BY <1>3, <2>2
  <2>3. CASE Calls(e, w) = <<"stop">>
    BY <1>4, <2>3
  <2>4. CASE Calls(e, w) = <<"resume">>
    BY <1>4, <2>4
  <2> QED
    BY <1>1, <1>6, <2>1, <2>2, <2>3, <2>4
<1>7. e = "PowerOff" => "off" \in Elements(Calls(e, w))
  BY <1>1, <1>3
<1>8. Calls(e, w) \in Seq(Call)
  BY <1>1, <1>3, <1>4, <1>5
<1> QED
  BY <1>6, <1>7, <1>8

LEMMA AfterKeeps ==
  ASSUME NEW w \in World, NEW e \in Event
  PROVE  /\ After(w, e) \in World
         /\ e = "PowerOff" => ~After(w, e).power
         /\ e = "Stop" => After(w, e).power = w.power
BY DEF After, World, Event

LEMMA PostKeeps ==
  ASSUME NEW k \in Kernel, NEW calls \in Seq(Call)
  PROVE  /\ post(k, calls) \in Kernel
         /\ post(k, calls).live = k.live
         /\ post(k, calls).power = k.power
         /\ post(k, calls).queue = k.queue
         /\ Elements(post(k, calls).posted) =
              Elements(k.posted) \cup (IF k.live THEN Elements(calls) ELSE {})
<1>0. k.posted \in Seq(Call)
  BY DEF Kernel
<1>1. k.posted \o calls \in Seq(Call) /\ Elements(k.posted \o calls) = Elements(k.posted) \cup Elements(calls)
  BY <1>0, HeldByConcat
<1>2. CASE k.live
  <2>1. post(k, calls) = [k EXCEPT !.posted = k.posted \o calls]
    BY <1>2 DEF post
  <2>2. post(k, calls) \in Kernel /\ post(k, calls).posted = k.posted \o calls
    BY <1>1, <2>1 DEF Kernel
  <2>3. /\ post(k, calls).live = k.live /\ post(k, calls).power = k.power
        /\ post(k, calls).queue = k.queue
    BY <2>1 DEF Kernel
  <2> QED
    BY <1>1, <1>2, <2>2, <2>3
<1>3. CASE ~k.live
  BY <1>3 DEF post
<1> QED
  BY <1>2, <1>3

\* What World::event does to the world and the kernels, whatever scripts call.
LEMMA EventKeeps ==
  ASSUME world \in World, kernel \in [Interface -> Kernel], NEW e \in Event, event(e)
  PROVE  /\ world' \in World
         /\ kernel' \in [Interface -> Kernel]
         /\ e = "PowerOff" \/ (e = "Stop" /\ ~world.power) => ~world'.power
         /\ \A i \in Interface :
              /\ kernel'[i].live = kernel[i].live
              /\ kernel'[i].power = kernel[i].power
              /\ kernel'[i].queue = kernel[i].queue
              /\ Elements(kernel[i].posted) \subseteq Elements(kernel'[i].posted)
              /\ e # "PowerOn" /\ "on" \in Elements(kernel'[i].posted) => "on" \in Elements(kernel[i].posted)
              /\ e = "PowerOff" /\ kernel[i].live => "off" \in Elements(kernel'[i].posted)
<1> DEFINE w == After(world, e)
<1>1. /\ w \in World
      /\ e = "PowerOff" => ~w.power
      /\ e = "Stop" => w.power = world.power
  BY AfterKeeps
<1>2. /\ Calls(e, w) \in Seq(Call)
      /\ "on" \in Elements(Calls(e, w)) => e = "PowerOn"
      /\ e = "PowerOff" => "off" \in Elements(Calls(e, w))
  BY <1>1, CallsHeld
<1>3. CASE world' = w /\ kernel' = [i \in Interface |-> post(kernel[i], Calls(e, w))]
  <2>1. ASSUME NEW i \in Interface
        PROVE  /\ kernel'[i] = post(kernel[i], Calls(e, w))
               /\ kernel'[i] \in Kernel
               /\ kernel'[i].live = kernel[i].live
               /\ kernel'[i].power = kernel[i].power
               /\ kernel'[i].queue = kernel[i].queue
               /\ Elements(kernel'[i].posted) =
                    Elements(kernel[i].posted) \cup (IF kernel[i].live THEN Elements(Calls(e, w)) ELSE {})
    <3>1. kernel'[i] = post(kernel[i], Calls(e, w)) /\ kernel[i] \in Kernel
      BY <1>3
    <3> HIDE DEF w
    <3> QED
      BY <1>2, <3>1, PostKeeps
  <2> HIDE DEF w
  <2> QED
    BY <1>1, <1>2, <1>3, <2>1
<1>4. CASE \E c \in ScriptCalls :
             /\ world' = After(w, c)
             /\ kernel' = [i \in Interface |-> post(kernel[i], Calls(c, After(w, c)) \o Calls(e, w))]
  <2>0. PICK c \in ScriptCalls :
             /\ world' = After(w, c)
             /\ kernel' = [i \in Interface |-> post(kernel[i], Calls(c, After(w, c)) \o Calls(e, w))]
    BY <1>4
  <2>1. c \in Event /\ c \in {"PowerOff", "Stop"}
    BY WorldAssumption DEF ScriptCallable, Event
  <2> DEFINE calls == Calls(c, After(w, c)) \o Calls(e, w)
  <2> HIDE DEF w
  <2>2. After(w, c) \in World /\ (~w.power => ~After(w, c).power)
    BY <1>1, <2>1, AfterKeeps
  <2>3. /\ Calls(c, After(w, c)) \in Seq(Call)
        /\ "on" \notin Elements(Calls(c, After(w, c)))
    BY <2>1, <2>2, CallsHeld
  <2>4. calls \in Seq(Call) /\ Elements(calls) = Elements(Calls(c, After(w, c))) \cup Elements(Calls(e, w))
    BY <1>2, <2>3, HeldByConcat
  <2>5. /\ "on" \in Elements(calls) => e = "PowerOn"
        /\ e = "PowerOff" => "off" \in Elements(calls)
    BY <1>2, <2>3, <2>4
  <2> HIDE DEF calls
  <2>6. ASSUME NEW i \in Interface
        PROVE  /\ kernel'[i] = post(kernel[i], calls)
               /\ kernel'[i] \in Kernel
               /\ kernel'[i].live = kernel[i].live
               /\ kernel'[i].power = kernel[i].power
               /\ kernel'[i].queue = kernel[i].queue
               /\ Elements(kernel'[i].posted) =
                    Elements(kernel[i].posted) \cup (IF kernel[i].live THEN Elements(calls) ELSE {})
    <3>1. kernel'[i] = post(kernel[i], calls) /\ kernel[i] \in Kernel
      BY <2>0 DEF calls
    <3> QED
      BY <2>4, <3>1, PostKeeps
  <2>7. kernel' \in [Interface -> Kernel]
    BY <2>0, <2>6
  <2> QED
    BY <1>1, <2>0, <2>2, <2>5, <2>6, <2>7
<1> QED
  BY <1>3, <1>4 DEF event

LEMMA CallbacksHeld ==
  ASSUME NEW i \in Interface, NEW whats \in Seq(What)
  PROVE  /\ Callbacks(i, whats) \in Seq(Callback)
         /\ \A c \in Elements(Callbacks(i, whats)) : c.interface = i /\ c.what \in Elements(whats)
<1>0. Len(whats) \in Nat /\ \A k \in 1 .. Len(whats) : whats[k] \in What
  BY LenProperties, ElementOfSeq
<1>1. \A k \in 1 .. Len(whats) : [interface |-> i, live |-> TRUE, what |-> whats[k]] \in Callback
  BY <1>0 DEF Callback
<1>2. /\ Callbacks(i, whats) \in [1 .. Len(whats) -> Callback]
      /\ \A k \in 1 .. Len(whats) :
           Callbacks(i, whats)[k] = [interface |-> i, live |-> TRUE, what |-> whats[k]]
  BY <1>1 DEF Callbacks
<1>3. Callbacks(i, whats) \in Seq(Callback) /\ Len(Callbacks(i, whats)) = Len(whats)
  BY <1>0, <1>2
<1>4. ASSUME NEW c \in Elements(Callbacks(i, whats))
      PROVE  c.interface = i /\ c.what \in Elements(whats)
  <2>1. PICK k \in 1 .. Len(whats) : c = Callbacks(i, whats)[k]
    BY <1>3, <1>4 DEF Elements
  <2>2. c.interface = i /\ c.what = whats[k]
    BY <1>2, <2>1
  <2> QED
    BY <2>2 DEF Elements
<1> QED
  BY <1>3, <1>4

LEMMA OrphanedHeld ==
  ASSUME NEW closing, NEW s \in Seq(Callback)
  PROVE  /\ Orphaned(closing, s) \in Seq(Callback)
         /\ \A c \in Elements(Orphaned(closing, s)) :
              \E d \in Elements(s) :
                /\ c.interface = d.interface /\ c.what = d.what
                /\ c.live => d.live /\ d.interface \notin closing
<1>0. Len(s) \in Nat /\ \A k \in 1 .. Len(s) : s[k] \in Callback
  BY LenProperties, ElementOfSeq
<1> DEFINE o(k) == IF s[k].interface \in closing THEN [s[k] EXCEPT !.live = FALSE] ELSE s[k]
<1>1. ASSUME NEW k \in 1 .. Len(s)
      PROVE  /\ o(k) \in Callback
             /\ o(k).interface = s[k].interface /\ o(k).what = s[k].what
             /\ o(k).live => s[k].live /\ s[k].interface \notin closing
  BY <1>0 DEF Callback
<1>2. /\ Orphaned(closing, s) \in [1 .. Len(s) -> Callback]
      /\ \A k \in 1 .. Len(s) : Orphaned(closing, s)[k] = o(k)
  BY <1>1 DEF Orphaned
<1> HIDE DEF o
<1>3. Orphaned(closing, s) \in Seq(Callback) /\ Len(Orphaned(closing, s)) = Len(s)
  BY <1>0, <1>2
<1>4. ASSUME NEW c \in Elements(Orphaned(closing, s))
      PROVE  \E d \in Elements(s) :
                /\ c.interface = d.interface /\ c.what = d.what
                /\ c.live => d.live /\ d.interface \notin closing
  <2>1. PICK k \in 1 .. Len(s) : c = o(k)
    BY <1>2, <1>3, <1>4 DEF Elements
  <2>2. s[k] \in Elements(s)
    BY DEF Elements
  <2> QED
    BY <1>1, <2>1, <2>2
<1> QED
  BY <1>3, <1>4

-----------------------------------------------------------------------------
(* The inductive invariant *)

\* What kernel k knows of its bus is switched off, or will be.
Falling(k) ==
  \/ k.power = "False"
  \/ "off" \in Elements(k.posted)
  \/ "GPOFF" \in Elements(k.queue)

\* The world is without power, nothing brings it back, and every kernel in use falls.
Quiet ==
  /\ ~world.power /\ NothingRises
  /\ \A i \in Interface : status[i] = "Online" => Falling(kernel[i])

\* What a kernel knows of the power is true.
KernelKnows ==
  \A i \in Interface :
    kernel[i].live /\ kernel[i].power # "Undefined" => (kernel[i].power = "True" <=> station[i])

IInv == StateOK /\ KernelKnows /\ (switchedOff = "atRest" => Quiet)

LEMMA InitInvariant == Init => IInv
<1> SUFFICES ASSUME Init PROVE IInv
  OBVIOUS
<1>1. <<>> \in Seq(Callback) /\ <<>> \in Seq(Call) /\ <<>> \in Seq(Message) /\ Elements(<<>>) = {}
  <2>1. Len(<<>>) = 0 /\ 1 .. 0 = {}
    OBVIOUS
  <2> QED
    BY <2>1, EmptySeq DEF Elements
<1>2. NoKernel \in Kernel /\ ~NoKernel.live
  BY <1>1 DEF NoKernel, Kernel, TriState
<1>3. /\ world \in World /\ status \in [Interface -> InterfaceState]
      /\ station \in [Interface -> BOOLEAN] /\ inputs \in 0 .. MaxInputs
  BY WorldAssumption DEF Init, World, InterfaceState
<1>4. kernel \in [Interface -> Kernel] /\ \A i \in Interface : ~kernel[i].live /\ status[i] = "Offline"
  BY <1>2 DEF Init
<1>5. events \in Seq(Callback) /\ Elements(events) = {} /\ switchedOff = "no"
  BY <1>1 DEF Init
<1> QED
  BY <1>3, <1>4, <1>5 DEF IInv, StateOK, StatusTellsKernel, KernelKnows

(***************************************************************************)
(* An event of the world, whoever calls it.                                *)
(***************************************************************************)
LEMMA WorldStep ==
  ASSUME IInv, NEW e \in Event, event(e), UNCHANGED <<status, station>>,
         events' \in Seq(Callback), Elements(events') \subseteq Elements(events),
         inputs' \in 0 .. MaxInputs, switchedOff' \in {"no", "atRest", "whileRising"},
         switchedOff' = "atRest" => NothingRises /\ (e = "PowerOff" \/ (e = "Stop" /\ Quiet))
  PROVE  IInv'
<1>1. /\ world \in World /\ kernel \in [Interface -> Kernel] /\ status \in [Interface -> InterfaceState]
      /\ station \in [Interface -> BOOLEAN] /\ events \in Seq(Callback)
  BY DEF IInv, StateOK
<1>2. /\ StatusTellsKernel /\ KernelKnows
      /\ \A c \in Elements(events) : c.live => kernel[c.interface].live
  BY DEF IInv, StateOK
<1>3. /\ world' \in World
      /\ kernel' \in [Interface -> Kernel]
      /\ e = "PowerOff" \/ (e = "Stop" /\ ~world.power) => ~world'.power
      /\ \A i \in Interface :
           /\ kernel'[i].live = kernel[i].live
           /\ kernel'[i].power = kernel[i].power
           /\ kernel'[i].queue = kernel[i].queue
           /\ Elements(kernel[i].posted) \subseteq Elements(kernel'[i].posted)
           /\ e # "PowerOn" /\ "on" \in Elements(kernel'[i].posted) => "on" \in Elements(kernel[i].posted)
           /\ e = "PowerOff" /\ kernel[i].live => "off" \in Elements(kernel'[i].posted)
  BY <1>1, EventKeeps
<1>4. /\ Elements(events)' = Elements(events')
      /\ \A c \in Elements(events') : c \in Elements(events) /\ c.interface \in Interface
  <2>1. ASSUME NEW c \in Elements(events) PROVE c \in Callback
    BY <1>1, <2>1, ElementOfSeq DEF Elements
  <2> QED
    BY <2>1 DEF Elements, Callback
<1>5. StatusTellsKernel'
  BY <1>2, <1>3 DEF StatusTellsKernel
<1>6. \A c \in Elements(events') : c.live => kernel'[c.interface].live
  BY <1>2, <1>3, <1>4
<1>7. StateOK'
  BY <1>1, <1>3, <1>4, <1>5, <1>6 DEF StateOK
<1>8. KernelKnows'
  BY <1>2, <1>3 DEF KernelKnows
<1>9. ASSUME switchedOff' = "atRest" PROVE Quiet'
  <2>1. NothingRises /\ e # "PowerOn" /\ ~world'.power
    BY <1>3, <1>9 DEF Quiet
  <2>2. NothingRises'
    BY <1>3, <1>4, <2>1 DEF NothingRises
  <2>3. ASSUME NEW i \in Interface, status'[i] = "Online" PROVE Falling(kernel'[i])
    <3>1. status[i] = "Online" /\ kernel[i].live
      BY <1>2, <2>3 DEF StatusTellsKernel
    <3>2. CASE e = "PowerOff"
      BY <1>3, <3>1, <3>2 DEF Falling
    <3>3. CASE e = "Stop" /\ Quiet
      BY <1>3, <3>1, <3>3 DEF Falling, Quiet
    <3> QED
      BY <1>9, <3>2, <3>3
  <2> QED
    BY <2>1, <2>2, <2>3 DEF Quiet, Falling
<1> QED
  BY <1>7, <1>8, <1>9 DEF IInv

\* What the steps below use of the invariant.
LEMMA Parts ==
  ASSUME IInv
  PROVE  /\ world \in World /\ kernel \in [Interface -> Kernel]
         /\ status \in [Interface -> InterfaceState] /\ station \in [Interface -> BOOLEAN]
         /\ events \in Seq(Callback) /\ inputs \in 0 .. MaxInputs
         /\ switchedOff \in {"no", "atRest", "whileRising"}
         /\ StatusTellsKernel /\ KernelKnows
         /\ switchedOff = "atRest" => Quiet
         /\ \A c \in Elements(events) : /\ c \in Callback /\ c.interface \in Interface
                                        /\ c.live => kernel[c.interface].live
<1>1. ASSUME NEW c \in Elements(events) PROVE c \in Callback
  BY ElementOfSeq DEF IInv, StateOK, Elements
<1> QED
  BY <1>1 DEF IInv, StateOK, Callback

LEMMA NewKernelIsIdle ==
  /\ NoKernel \in Kernel /\ ~NoKernel.live /\ NoKernel.posted = <<>> /\ NoKernel.queue = <<>>
  /\ NewKernel \in Kernel /\ NewKernel.live /\ NewKernel.power = "Undefined"
  /\ NewKernel.posted = <<"start">> /\ NewKernel.queue = <<>>
  /\ Elements(<<"start">>) = {"start"} /\ Elements(<<>>) = {}
<1>1. /\ <<>> \in Seq(Call) /\ <<>> \in Seq(Message) /\ <<"start">> \in Seq(Call)
      /\ Elements(<<"start">>) = {"start"} /\ Elements(<<>>) = {}
  <2>1. "start" \in Call
    BY DEF Call
  <2>2. <<>> \in Seq(Message)
    BY EmptySeq
  <2> QED
    BY <2>1, <2>2, HeldByFew
<1>2. /\ NoKernel \in Kernel /\ ~NoKernel.live /\ NoKernel.posted = <<>> /\ NoKernel.queue = <<>>
      /\ NoKernel.power = "Undefined"
  BY <1>1 DEF NoKernel, Kernel, TriState
<1>3. /\ NewKernel \in Kernel /\ NewKernel.live /\ NewKernel.power = "Undefined"
      /\ NewKernel.posted = <<"start">> /\ NewKernel.queue = <<>>
  BY <1>1 DEF NewKernel, NoKernel, Kernel, TriState
<1> QED
  BY <1>1, <1>2, <1>3

(***************************************************************************)
(* Interfaces that go online.                                              *)
(***************************************************************************)
LEMMA OpenStep ==
  ASSUME IInv, NEW opening \in SUBSET Interface, Opened(opening),
         world' \in World, world'.power = world.power, inputs' \in 0 .. MaxInputs,
         UNCHANGED <<station, events, switchedOff>>
  PROVE  IInv'
<1>1. ASSUME NEW i \in Interface
      PROVE  /\ kernel'[i] \in Kernel /\ status'[i] \in InterfaceState
             /\ kernel[i].live => kernel'[i].live
             /\ \/ kernel'[i] = kernel[i] /\ status'[i] = status[i]
                \/ kernel'[i] = NewKernel /\ status'[i] = "Initializing"
  BY Parts, NewKernelIsIdle DEF Opened, InterfaceState
<1>2. kernel' \in [Interface -> Kernel] /\ status' \in [Interface -> InterfaceState]
  BY <1>1 DEF Opened
<1>3. StatusTellsKernel'
  BY <1>1, Parts, NewKernelIsIdle DEF StatusTellsKernel
<1>4. Elements(events)' = Elements(events)
  BY DEF Elements
<1>5. StateOK'
  BY <1>1, <1>2, <1>3, <1>4, Parts DEF StateOK
<1>6. KernelKnows'
  BY <1>1, Parts, NewKernelIsIdle DEF KernelKnows
<1>7. ASSUME switchedOff' = "atRest" PROVE Quiet'
  <2>1. Quiet
    BY <1>7, Parts
  <2>2. ASSUME NEW i \in Interface
        PROVE  "on" \notin Elements(kernel'[i].posted) /\ "GPON" \notin Elements(kernel'[i].queue)
    BY <1>1, <2>1, NewKernelIsIdle DEF Quiet, NothingRises
  <2>3. NothingRises'
    BY <1>4, <2>1, <2>2 DEF Quiet, NothingRises
  <2>4. ASSUME NEW i \in Interface, status'[i] = "Online" PROVE Falling(kernel'[i])
    BY <1>1, <2>1, <2>4 DEF Quiet
  <2> QED
    BY <2>1, <2>3, <2>4 DEF Quiet, Falling
<1> QED
  BY <1>5, <1>6, <1>7 DEF IInv

(***************************************************************************)
(* Interfaces that go offline, or into error, with callbacks s of those    *)
(* that were in the event loop still to run.                               *)
(***************************************************************************)
LEMMA CloseStep ==
  ASSUME IInv, NEW closing \in SUBSET Interface,
         NEW s \in Seq(Callback), Elements(s) \subseteq Elements(events), Closed(closing, s),
         status' \in [Interface -> InterfaceState],
         \A i \in Interface : IF i \in closing THEN status'[i] \in {"Offline", "Error"}
                                               ELSE status'[i] = status[i],
         world' \in World, world'.power = world.power, inputs' \in 0 .. MaxInputs,
         UNCHANGED <<station, switchedOff>>
  PROVE  IInv'
<1>1. /\ kernel' \in [Interface -> Kernel]
      /\ \A i \in Interface : kernel'[i] = IF i \in closing THEN NoKernel ELSE kernel[i]
  BY Parts, NewKernelIsIdle DEF Closed
<1>2. events' = Orphaned(closing, s) /\ Elements(events)' = Elements(events')
  BY DEF Closed, Elements
<1>3. /\ events' \in Seq(Callback)
      /\ \A c \in Elements(events') :
           \E d \in Elements(events) :
             /\ c.interface = d.interface /\ c.what = d.what
             /\ c.live => d.live /\ d.interface \notin closing
  BY <1>2, OrphanedHeld
<1>4. \A c \in Elements(events') : c.live => kernel'[c.interface].live
  <2> TAKE c \in Elements(events')
  <2>1. PICK d \in Elements(events) :
             /\ c.interface = d.interface /\ c.what = d.what
             /\ c.live => d.live /\ d.interface \notin closing
    BY <1>3
  <2> QED
    BY <1>1, <2>1, Parts
<1>5. StatusTellsKernel'
  BY <1>1, Parts, NewKernelIsIdle DEF StatusTellsKernel
<1>6. StateOK'
  BY <1>1, <1>2, <1>3, <1>4, <1>5, Parts DEF StateOK
<1>7. KernelKnows'
  BY <1>1, Parts, NewKernelIsIdle DEF KernelKnows
<1>8. ASSUME switchedOff' = "atRest" PROVE Quiet'
  <2>1. Quiet
    BY <1>8, Parts
  <2>2. ASSUME NEW i \in Interface
        PROVE  "on" \notin Elements(kernel'[i].posted) /\ "GPON" \notin Elements(kernel'[i].queue)
    BY <1>1, <2>1, NewKernelIsIdle DEF Quiet, NothingRises
  <2>3. NothingRises'
    BY <1>2, <1>3, <2>1, <2>2 DEF Quiet, NothingRises
  <2>4. ASSUME NEW i \in Interface, status'[i] = "Online" PROVE Falling(kernel'[i])
    <3>1. i \notin closing
      BY <2>4
    <3> QED
      BY <1>1, <2>1, <2>4, <3>1 DEF Quiet
  <2> QED
    BY <2>1, <2>3, <2>4 DEF Quiet, Falling
<1> QED
  BY <1>6, <1>7, <1>8 DEF IInv

(***************************************************************************)
(* Steps of the kernel of one interface, which the others do not see.      *)
(***************************************************************************)
LEMMA OneKernelStep ==
  ASSUME IInv, NEW j \in Interface, NEW k \in Kernel, kernel[j].live = k.live,
         kernel' = [kernel EXCEPT ![j] = k],
         events' \in Seq(Callback),
         \A c \in Elements(events') : c \in Elements(events) \/ (c.interface = j /\ k.live),
         \A i \in Interface \ {j} : station'[i] = station[i],
         station' \in [Interface -> BOOLEAN],
         k.live /\ k.power # "Undefined" => (k.power = "True" <=> station'[j]),
         switchedOff' \in {"no", "atRest", "whileRising"},
         switchedOff' = "atRest" =>
           /\ switchedOff = "atRest"
           /\ "on" \notin Elements(k.posted) /\ "GPON" \notin Elements(k.queue)
           /\ k.live /\ Falling(kernel[j]) => Falling(k)
           /\ \A c \in Elements(events') : c \in Elements(events) \/ c.what # "powerOn",
         UNCHANGED <<world, status>>, inputs' \in 0 .. MaxInputs
  PROVE  IInv'
<1>1. /\ kernel' \in [Interface -> Kernel] /\ kernel'[j] = k
      /\ \A i \in Interface \ {j} : kernel'[i] = kernel[i]
      /\ \A i \in Interface : kernel'[i].live = kernel[i].live
  BY Parts
<1>2. StatusTellsKernel'
  BY <1>1, Parts DEF StatusTellsKernel
<1>3. Elements(events)' = Elements(events')
  BY DEF Elements
<1>4. \A c \in Elements(events') : c.live => kernel'[c.interface].live
  BY <1>1, Parts
<1>5. StateOK'
  BY <1>1, <1>2, <1>3, <1>4, Parts DEF StateOK
<1>6. KernelKnows'
  BY <1>1, Parts DEF KernelKnows
<1>7. ASSUME switchedOff' = "atRest" PROVE Quiet'
  <2>1. Quiet
    BY <1>7, Parts
  <2>2. ASSUME NEW i \in Interface
        PROVE  "on" \notin Elements(kernel'[i].posted) /\ "GPON" \notin Elements(kernel'[i].queue)
    BY <1>1, <1>7, <2>1 DEF Quiet, NothingRises
  <2>3. NothingRises'
    BY <1>3, <1>7, <2>1, <2>2 DEF Quiet, NothingRises
  <2>4. ASSUME NEW i \in Interface, status'[i] = "Online" PROVE Falling(kernel'[i])
    <3>1. Falling(kernel[i]) /\ kernel[i].live
      BY <2>1, <2>4, Parts DEF Quiet, StatusTellsKernel
    <3> QED
      BY <1>1, <1>7, <3>1
  <2> QED
    BY <2>1, <2>3, <2>4 DEF Quiet, Falling
<1> QED
  BY <1>5, <1>6, <1>7 DEF IInv

\* The event loop receives callbacks of interface j.
LEMMA EventsGrow ==
  ASSUME IInv, NEW j \in Interface, NEW whats \in Seq(What), events' = events \o Callbacks(j, whats)
  PROVE  /\ events' \in Seq(Callback)
         /\ \A c \in Elements(events') :
              c \in Elements(events) \/ (c.interface = j /\ c.what \in Elements(whats))
<1>1. /\ Callbacks(j, whats) \in Seq(Callback)
      /\ \A c \in Elements(Callbacks(j, whats)) : c.interface = j /\ c.what \in Elements(whats)
  BY CallbacksHeld
<1>2. /\ events' \in Seq(Callback)
      /\ Elements(events') = Elements(events) \cup Elements(Callbacks(j, whats))
  BY <1>1, HeldByConcat, Parts
<1> QED
  BY <1>1, <1>2

\* The call that the thread of interface j runs next.
LEMMA NextCall ==
  ASSUME IInv, NEW j \in Interface, kernel[j].posted # <<>>
  PROVE  LET k == [kernel[j] EXCEPT !.posted = Tail(@)]
         IN  /\ k \in Kernel /\ k.live = kernel[j].live /\ k.power = kernel[j].power
             /\ k.queue = kernel[j].queue
             /\ Elements(kernel[j].posted) = Elements(k.posted) \cup {Head(kernel[j].posted)}
<1>0. kernel[j] \in Kernel /\ kernel[j].posted \in Seq(Call)
  BY Parts DEF Kernel
<1>1. /\ Tail(kernel[j].posted) \in Seq(Call)
      /\ Elements(kernel[j].posted) = Elements(Tail(kernel[j].posted)) \cup {Head(kernel[j].posted)}
  BY <1>0, HeldByTail
<1> DEFINE k == [kernel[j] EXCEPT !.posted = Tail(kernel[j].posted)]
<1>2. k \in Kernel
  BY <1>0, <1>1 DEF Kernel
<1>3. k.live = kernel[j].live /\ k.power = kernel[j].power /\ k.queue = kernel[j].queue
  BY <1>0 DEF Kernel
<1>4. k.posted = Tail(kernel[j].posted)
  BY <1>0 DEF Kernel
<1> QED
  BY <1>1, <1>2, <1>3, <1>4

\* A kernel that puts a message behind those in its queue.
LEMMA Queued ==
  ASSUME NEW k \in Kernel, NEW message \in Message
  PROVE  LET q == [k EXCEPT !.queue = Append(@, message)]
         IN  /\ q \in Kernel /\ q.live = k.live /\ q.power = k.power /\ q.posted = k.posted
             /\ Elements(q.queue) = Elements(k.queue) \cup {message}
<1>1. /\ Append(k.queue, message) \in Seq(Message)
      /\ Elements(Append(k.queue, message)) = Elements(k.queue) \cup {message}
  <2>1. k.queue \in Seq(Message)
    BY DEF Kernel
  <2> QED
    BY <2>1, HeldByAppend
<1> DEFINE q == [k EXCEPT !.queue = Append(k.queue, message)]
<1>2. q \in Kernel /\ q.queue = Append(k.queue, message)
  BY <1>1 DEF Kernel
<1>3. q.live = k.live /\ q.power = k.power /\ q.posted = k.posted
  BY DEF Kernel
<1> QED
  BY <1>1, <1>2, <1>3

LEMMA KernelRunsStep ==
  ASSUME IInv, NEW j \in Interface, KernelRuns(j)
  PROVE  IInv'
<1> DEFINE call == Head(kernel[j].posted)
           k == [kernel[j] EXCEPT !.posted = Tail(@)]
<1>1. /\ kernel[j].live /\ kernel[j].posted # <<>>
      /\ UNCHANGED <<world, status, station, switchedOff, inputs>>
      /\ \/ call = "start" /\ RunsStart(j, k)
         \/ call = "on" /\ RunsPower(j, k, "True", "GPON")
         \/ call = "off" /\ RunsPower(j, k, "False", "GPOFF")
         \/ call = "stop" /\ RunsEmergencyStop(j, k)
         \/ call = "resume" /\ RunsResume(j, k)
  BY DEF KernelRuns
<1>2. /\ k \in Kernel /\ k.live = kernel[j].live /\ k.power = kernel[j].power
      /\ k.queue = kernel[j].queue
      /\ Elements(kernel[j].posted) = Elements(k.posted) \cup {call}
  BY <1>1, NextCall
<1>3. /\ k.live
      /\ k.power # "Undefined" => (k.power = "True" <=> station'[j])
      /\ \A i \in Interface \ {j} : station'[i] = station[i]
      /\ station' \in [Interface -> BOOLEAN] /\ inputs' \in 0 .. MaxInputs
      /\ switchedOff' \in {"no", "atRest", "whileRising"}
  BY <1>1, <1>2, Parts DEF KernelKnows
<1>4. ASSUME switchedOff' = "atRest"
      PROVE  /\ switchedOff = "atRest" /\ call # "on"
             /\ "on" \notin Elements(k.posted) /\ "GPON" \notin Elements(k.queue)
  BY <1>1, <1>2, <1>4, Parts DEF Quiet, NothingRises
<1>5. Falling(kernel[j]) => Falling(k) \/ call = "off"
  BY <1>2 DEF Falling
<1>6. UNCHANGED events =>
        /\ events' \in Seq(Callback)
        /\ \A c \in Elements(events') : c \in Elements(events)
  BY Parts
<1>7. /\ "GPON" \in Message /\ "GPOFF" \in Message /\ "IDLE" \in Message
      /\ "started" \in What /\ "error" \in What
  BY DEF Message, What
<1> HIDE DEF k, call
<1>10. CASE call = "start" /\ RunsStart(j, k)
  <2>1. /\ <<"started">> \in Seq(What) /\ Elements(<<"started">>) = {"started"}
        /\ <<"error">> \in Seq(What) /\ Elements(<<"error">>) = {"error"}
    BY <1>7, HeldByFew
  <2>2. PICK w \in {"started", "error"} : events' = events \o Callbacks(j, <<w>>)
    BY <1>10 DEF RunsStart
  <2>3. <<w>> \in Seq(What) /\ Elements(<<w>>) = {w} /\ w # "powerOn"
    BY <2>1, <2>2
  <2>4. /\ events' \in Seq(Callback)
        /\ \A c \in Elements(events') : c \in Elements(events) \/ (c.interface = j /\ c.what = w)
    BY <2>2, <2>3, EventsGrow
  <2>5. kernel' = [kernel EXCEPT ![j] = k]
    BY <1>10 DEF RunsStart
  <2>6. Falling(kernel[j]) => Falling(k)
    BY <1>5, <1>10
  <2> QED
    BY <1>1, <1>2, <1>3, <1>4, <2>3, <2>4, <2>5, <2>6, OneKernelStep
<1>11. CASE call = "on" /\ RunsPower(j, k, "True", "GPON")
  <2> DEFINE r == IF k.power = "True" THEN k ELSE [k EXCEPT !.queue = Append(@, "GPON")]
  <2>1. r \in Kernel /\ r.live = k.live /\ r.power = k.power
    BY <1>2, <1>7, Queued
  <2>2. kernel' = [kernel EXCEPT ![j] = r] /\ UNCHANGED events
    BY <1>11 DEF RunsPower
  <2>3. switchedOff' # "atRest"
    BY <1>4, <1>11
  <2> HIDE DEF r
  <2> QED
    BY <1>1, <1>2, <1>3, <1>6, <2>1, <2>2, <2>3, OneKernelStep
<1>12. CASE call = "off" /\ RunsPower(j, k, "False", "GPOFF")
  <2> DEFINE r == IF k.power = "False" THEN k ELSE [k EXCEPT !.queue = Append(@, "GPOFF")]
  <2>1. /\ r \in Kernel /\ r.live = k.live /\ r.power = k.power /\ r.posted = k.posted
        /\ "GPON" \in Elements(r.queue) => "GPON" \in Elements(k.queue)
        /\ k.power = "False" \/ "GPOFF" \in Elements(r.queue)
    BY <1>2, <1>7, Queued
  <2>2. kernel' = [kernel EXCEPT ![j] = r] /\ UNCHANGED events
    BY <1>12 DEF RunsPower
  <2>3. Falling(r)
    BY <2>1 DEF Falling
  <2> HIDE DEF r
  <2> QED
    BY <1>1, <1>2, <1>3, <1>4, <1>6, <2>1, <2>2, <2>3, OneKernelStep
<1>13. CASE call = "stop" /\ RunsEmergencyStop(j, k)
  <2> DEFINE r == IF k.stop = "True" THEN k ELSE [k EXCEPT !.queue = Append(@, "IDLE")]
  <2>1. /\ r \in Kernel /\ r.live = k.live /\ r.power = k.power /\ r.posted = k.posted
        /\ "GPON" \in Elements(r.queue) => "GPON" \in Elements(k.queue)
        /\ "GPOFF" \in Elements(k.queue) => "GPOFF" \in Elements(r.queue)
    <3>1. CASE k.stop = "True"
      BY <1>2, <3>1
    <3>2. CASE k.stop # "True"
      <4> DEFINE s == [k EXCEPT !.queue = Append(@, "IDLE")]
      <4>1. /\ s \in Kernel /\ s.live = k.live /\ s.power = k.power /\ s.posted = k.posted
            /\ Elements(s.queue) = Elements(k.queue) \cup {"IDLE"}
        BY <1>2, <1>7, Queued
      <4>2. r = s
        BY <3>2
      <4>3. "GPON" # "IDLE"
        OBVIOUS
      <4> HIDE DEF r, s
      <4> QED
        BY <4>1, <4>2, <4>3
    <3> QED
      BY <3>1, <3>2
  <2>2. kernel' = [kernel EXCEPT ![j] = r] /\ UNCHANGED events
    BY <1>13 DEF RunsEmergencyStop
  <2>3. Falling(kernel[j]) => Falling(r)
    BY <1>5, <1>13, <2>1 DEF Falling
  <2> HIDE DEF r
  <2> QED
    BY <1>1, <1>2, <1>3, <1>4, <1>6, <2>1, <2>2, <2>3, OneKernelStep
<1>14. CASE call = "resume" /\ RunsResume(j, k)
  <2> DEFINE r == [k EXCEPT !.stop = "False"]
  <2>1. r \in Kernel
    BY <1>2 DEF Kernel, TriState
  <2>2. r.live = k.live /\ r.power = k.power /\ r.posted = k.posted /\ r.queue = k.queue
    BY <1>2 DEF Kernel
  <2>3. kernel' = [kernel EXCEPT ![j] = r] /\ UNCHANGED events
    BY <1>14 DEF RunsResume
  <2>4. Falling(kernel[j]) => Falling(r)
    BY <1>5, <1>14, <2>2 DEF Falling
  <2> HIDE DEF r
  <2> QED
    BY <1>1, <1>2, <1>3, <1>4, <1>6, <2>1, <2>2, <2>3, <2>4, OneKernelStep
<1> QED
  BY <1>1, <1>10, <1>11, <1>12, <1>13, <1>14 DEF call, k

\* What a kernel knows, and calls back, when it receives a message.
LEMMA ReceivedKeeps ==
  ASSUME NEW k \in Kernel, NEW message \in Message
  PROVE  /\ received(k, message) \in Kernel
         /\ received(k, message).live = k.live
         /\ received(k, message).posted = k.posted
         /\ received(k, message).queue = k.queue
         /\ received(k, message).power =
              IF message = "GPON" THEN "True" ELSE IF message = "GPOFF" THEN "False" ELSE k.power
         /\ CallbacksOf(k, message) \in Seq(What)
         /\ "powerOn" \in Elements(CallbacksOf(k, message)) => message = "GPON"
<1>0. message = "GPON" \/ message = "GPOFF" \/ message = "IDLE"
  BY DEF Message
<1>1. /\ <<>> \in Seq(What) /\ Elements(<<>>) = {}
      /\ <<"powerOn">> \in Seq(What)
      /\ <<"powerOff">> \in Seq(What) /\ Elements(<<"powerOff">>) = {"powerOff"}
      /\ <<"idle">> \in Seq(What) /\ Elements(<<"idle">>) = {"idle"}
  <2>1. "powerOn" \in What /\ "powerOff" \in What /\ "idle" \in What
    BY DEF What
  <2> QED
    BY <2>1, HeldByFew
<1>2. CASE message = "GPON"
  <2>1. received(k, message) = [k EXCEPT !.power = "True"]
    BY <1>2 DEF received
  <2>2. CallbacksOf(k, message) \in {<<>>, <<"powerOn">>}
    BY <1>2 DEF CallbacksOf
  <2>3. received(k, message) \in Kernel
    <3>1. "True" \in TriState
      BY DEF TriState
    <3> QED
      BY <2>1, <3>1 DEF Kernel
  <2>4. CallbacksOf(k, message) \in Seq(What)
    BY <1>1, <2>2
  <2>5. "powerOn" \in Elements(CallbacksOf(k, message)) => message = "GPON"
    BY <1>1, <1>2, <2>2
  <2>6. /\ received(k, message).live = k.live /\ received(k, message).posted = k.posted
        /\ received(k, message).queue = k.queue /\ received(k, message).power = "True"
    BY <2>1 DEF Kernel
  <2>7. received(k, message).power =
          IF message = "GPON" THEN "True" ELSE IF message = "GPOFF" THEN "False" ELSE k.power
    BY <1>2, <2>6
  <2> QED
    BY <2>3, <2>4, <2>5, <2>6, <2>7
<1>3. CASE message = "GPOFF"
  <2>1. received(k, message) = [k EXCEPT !.power = "False"]
    BY <1>3 DEF received
  <2>2. CallbacksOf(k, message) \in {<<>>, <<"powerOff">>}
    BY <1>3 DEF CallbacksOf
  <2>3. received(k, message) \in Kernel
    <3>1. "False" \in TriState
      BY DEF TriState
    <3> QED
      BY <2>1, <3>1 DEF Kernel
  <2>4. CallbacksOf(k, message) \in Seq(What)
    BY <1>1, <2>2
  <2>5. "powerOn" \in Elements(CallbacksOf(k, message)) => message = "GPON"
    BY <1>1, <1>3, <2>2
  <2>6. /\ received(k, message).live = k.live /\ received(k, message).posted = k.posted
        /\ received(k, message).queue = k.queue /\ received(k, message).power = "False"
    BY <2>1 DEF Kernel
  <2>7. received(k, message).power =
          IF message = "GPON" THEN "True" ELSE IF message = "GPOFF" THEN "False" ELSE k.power
    BY <1>3, <2>6
  <2> QED
    BY <2>3, <2>4, <2>5, <2>6, <2>7
<1>4. CASE message = "IDLE"
  <2>1. received(k, message) = [k EXCEPT !.stop = "True"]
    BY <1>4 DEF received
  <2>2. CallbacksOf(k, message) \in {<<>>, <<"idle">>}
    BY <1>4 DEF CallbacksOf
  <2>3. "True" \in TriState
    BY DEF TriState
  <2>4. CallbacksOf(k, message) \in Seq(What)
    BY <1>1, <2>2
  <2>5. "powerOn" \notin Elements(CallbacksOf(k, message))
    BY <1>1, <2>2
  <2> QED
    BY <1>4, <2>1, <2>3, <2>4, <2>5 DEF Kernel
<1> QED
  BY <1>0, <1>2, <1>3, <1>4

(***************************************************************************)
(* The bus carries a message, k being the kernel that receives it.         *)
(***************************************************************************)
LEMMA CarriedStep ==
  ASSUME IInv, NEW j \in Interface, NEW message \in Message, NEW k \in Kernel,
         k.live = kernel[j].live, k.power = kernel[j].power, k.posted = kernel[j].posted,
         Elements(k.queue) \subseteq Elements(kernel[j].queue),
         Elements(kernel[j].queue) \subseteq Elements(k.queue) \cup {message},
         Carried(j, k, message), UNCHANGED <<world, status>>, inputs' \in 0 .. MaxInputs,
         switchedOff' \in {"no", "atRest", "whileRising"},
         switchedOff' = "atRest" => switchedOff = "atRest" /\ message # "GPON"
  PROVE  IInv'
<1>1. /\ station' = [station EXCEPT ![j] = (message = "GPON") \/ (message = "IDLE" /\ station[j])]
      /\ kernel' = [kernel EXCEPT ![j] = IF k.live THEN received(k, message) ELSE k]
      /\ events' = IF k.live THEN events \o Callbacks(j, CallbacksOf(k, message)) ELSE events
  BY DEF Carried
<1>2. /\ station' \in [Interface -> BOOLEAN]
      /\ station'[j] <=> message = "GPON" \/ (message = "IDLE" /\ station[j])
      /\ \A i \in Interface \ {j} : station'[i] = station[i]
  BY <1>1, Parts
<1>3. switchedOff' = "atRest" =>
        /\ switchedOff = "atRest" /\ message # "GPON"
        /\ "on" \notin Elements(k.posted) /\ "GPON" \notin Elements(k.queue)
  BY Parts DEF Quiet, NothingRises
<1>4. kernel[j].live /\ kernel[j].power # "Undefined" => (kernel[j].power = "True" <=> station[j])
  BY Parts DEF KernelKnows
<1>5. CASE ~k.live
  <2>1. /\ kernel' = [kernel EXCEPT ![j] = k]
        /\ events' \in Seq(Callback) /\ \A c \in Elements(events') : c \in Elements(events)
    BY <1>1, <1>5, Parts
  <2>2. k.live /\ k.power # "Undefined" => (k.power = "True" <=> station'[j])
    BY <1>5
  <2>3. \A c \in Elements(events') : c \in Elements(events) \/ (c.interface = j /\ k.live)
    BY <2>1
  <2>4. switchedOff' = "atRest" =>
          /\ switchedOff = "atRest"
          /\ "on" \notin Elements(k.posted) /\ "GPON" \notin Elements(k.queue)
          /\ k.live /\ Falling(kernel[j]) => Falling(k)
          /\ \A c \in Elements(events') : c \in Elements(events) \/ c.what # "powerOn"
    BY <1>3, <1>5, <2>1
  <2> QED
    BY <1>2, <2>1, <2>2, <2>3, <2>4, OneKernelStep
<1>6. CASE k.live
  <2> DEFINE r == received(k, message)
  <2>1. /\ r \in Kernel /\ r.live = k.live /\ r.posted = k.posted /\ r.queue = k.queue
        /\ r.power = IF message = "GPON" THEN "True" ELSE IF message = "GPOFF" THEN "False" ELSE k.power
    BY ReceivedKeeps
  <2>2. /\ CallbacksOf(k, message) \in Seq(What)
        /\ "powerOn" \in Elements(CallbacksOf(k, message)) => message = "GPON"
    BY ReceivedKeeps
  <2>3. events' = events \o Callbacks(j, CallbacksOf(k, message)) /\ kernel' = [kernel EXCEPT ![j] = r]
    BY <1>1, <1>6
  <2>4. /\ events' \in Seq(Callback)
        /\ \A c \in Elements(events') :
             c \in Elements(events) \/ (c.interface = j /\ c.what \in Elements(CallbacksOf(k, message)))
    BY <2>2, <2>3, EventsGrow
  <2> HIDE DEF r
  <2>5. r.live /\ r.power # "Undefined" => (r.power = "True" <=> station'[j])
    <3>1. CASE message = "GPON"
      BY <1>2, <2>1, <3>1
    <3>2. CASE message = "GPOFF"
      BY <1>2, <2>1, <3>2
    <3>3. CASE message = "IDLE"
      BY <1>2, <1>4, <2>1, <3>3
    <3> QED
      BY <3>1, <3>2, <3>3 DEF Message
  <2>6. message # "GPON" /\ Falling(kernel[j]) => Falling(r)
    <3>1. CASE message = "GPOFF"
      BY <2>1, <3>1 DEF Falling
    <3>2. CASE message = "IDLE"
      BY <2>1, <3>2 DEF Falling
    <3> QED
      BY <3>1, <3>2 DEF Message
  <2>7. switchedOff' = "atRest" => \A c \in Elements(events') : c \in Elements(events) \/ c.what # "powerOn"
    BY <1>3, <2>2, <2>4
  <2>8. \A c \in Elements(events') : c \in Elements(events) \/ (c.interface = j /\ r.live)
    BY <1>6, <2>1, <2>4
  <2> QED
    BY <1>2, <1>3, <2>1, <2>3, <2>4, <2>5, <2>6, <2>7, <2>8, OneKernelStep
<1> QED
  BY <1>5, <1>6

LEMMA BusCarriesStep ==
  ASSUME IInv, NEW j \in Interface, BusCarries(j)
  PROVE  IInv'
<1> DEFINE message == Head(kernel[j].queue)
           k == [kernel[j] EXCEPT !.queue = Tail(@)]
<1>1. /\ kernel[j].queue # <<>> /\ Carried(j, k, message)
      /\ UNCHANGED <<world, status, switchedOff, inputs>>
  BY DEF BusCarries
<1>2. kernel[j] \in Kernel /\ kernel[j].queue \in Seq(Message)
  BY Parts DEF Kernel
<1>3. /\ message \in Message /\ Tail(kernel[j].queue) \in Seq(Message)
      /\ Elements(kernel[j].queue) = Elements(Tail(kernel[j].queue)) \cup {message}
  BY <1>1, <1>2, HeldByTail
<1>4. k \in Kernel /\ k.queue = Tail(kernel[j].queue)
  BY <1>2, <1>3 DEF Kernel
<1>5. k.live = kernel[j].live /\ k.power = kernel[j].power /\ k.posted = kernel[j].posted
  BY <1>2 DEF Kernel
<1>6. switchedOff = "atRest" => message # "GPON"
  BY <1>3, Parts DEF Quiet, NothingRises
<1>7. Elements(k.queue) \subseteq Elements(kernel[j].queue)
  BY <1>3, <1>4
<1>8. Elements(kernel[j].queue) \subseteq Elements(k.queue) \cup {message}
  BY <1>3, <1>4
<1>9. /\ inputs' \in 0 .. MaxInputs /\ switchedOff' \in {"no", "atRest", "whileRising"}
      /\ switchedOff' = "atRest" => switchedOff = "atRest" /\ message # "GPON"
      /\ UNCHANGED <<world, status>>
  BY <1>1, <1>6, Parts
<1>10. Carried(j, k, message)
  BY <1>1
<1> HIDE DEF k, message
<1> QED
  BY <1>3, <1>4, <1>5, <1>7, <1>8, <1>9, <1>10, CarriedStep

LEMMA OtherDeviceStep ==
  ASSUME IInv, NEW j \in Interface, OtherDevice(j)
  PROVE  IInv'
<1>1. PICK message \in Message :
        /\ Carried(j, kernel[j], message)
        /\ switchedOff' = IF message = "GPON" THEN "no" ELSE switchedOff
  BY DEF OtherDevice
<1>2. UNCHANGED <<world, status>> /\ inputs' \in 0 .. MaxInputs
  BY Parts, WorldAssumption DEF OtherDevice, Input
<1>3. kernel[j] \in Kernel
  BY Parts
<1>4. /\ switchedOff' \in {"no", "atRest", "whileRising"}
      /\ switchedOff' = "atRest" => switchedOff = "atRest" /\ message # "GPON"
  BY <1>1, Parts
<1> QED
  BY <1>1, <1>2, <1>3, <1>4, CarriedStep

LEMMA FailsStep ==
  ASSUME IInv, NEW j \in Interface, Fails(j)
  PROVE  IInv'
<1>1. <<"error">> \in Seq(What) /\ Elements(<<"error">>) = {"error"}
  <2>1. "error" \in What
    BY DEF What
  <2> QED
    BY <2>1, HeldByFew
<1>2. /\ kernel[j].live /\ events' = events \o Callbacks(j, <<"error">>)
      /\ UNCHANGED <<world, status, kernel, station, switchedOff>>
  BY DEF Fails
<1>3. inputs' \in 0 .. MaxInputs
  BY Parts, WorldAssumption DEF Fails, Input
<1>4. /\ events' \in Seq(Callback)
      /\ \A c \in Elements(events') : c \in Elements(events) \/ (c.interface = j /\ c.what = "error")
  BY <1>1, <1>2, EventsGrow
<1>5. kernel[j] \in Kernel /\ kernel' = [kernel EXCEPT ![j] = kernel[j]]
  BY <1>2, Parts
<1>6. kernel[j].live /\ kernel[j].power # "Undefined" => (kernel[j].power = "True" <=> station'[j])
  BY <1>2, Parts DEF KernelKnows
<1>7. switchedOff = "atRest" =>
        "on" \notin Elements(kernel[j].posted) /\ "GPON" \notin Elements(kernel[j].queue)
  BY Parts DEF Quiet, NothingRises
<1>8. \A c \in Elements(events') : c \in Elements(events) \/ c.what # "powerOn"
  BY <1>4
<1>9. \A c \in Elements(events') : c \in Elements(events) \/ (c.interface = j /\ kernel[j].live)
  BY <1>2, <1>4
<1> QED
  BY <1>2, <1>3, <1>4, <1>5, <1>6, <1>7, <1>8, <1>9, Parts, OneKernelStep

-----------------------------------------------------------------------------
(* Callbacks *)

LEMMA FirstCallback ==
  ASSUME IInv, events # <<>>
  PROVE  /\ Head(events) \in Callback /\ Head(events) \in Elements(events)
         /\ Head(events).interface \in Interface /\ Head(events).what \in What
         /\ Head(events).live => kernel[Head(events).interface].live
         /\ switchedOff = "atRest" => Head(events).what # "powerOn"
         /\ Tail(events) \in Seq(Callback)
         /\ Elements(Tail(events)) \subseteq Elements(events)
<1>1. /\ Head(events) \in Callback /\ Tail(events) \in Seq(Callback)
      /\ Elements(events) = Elements(Tail(events)) \cup {Head(events)}
  BY Parts, HeldByTail
<1>2. Head(events).interface \in Interface /\ Head(events).what \in What
  BY <1>1 DEF Callback
<1>3. switchedOff = "atRest" => Head(events).what # "powerOn"
  BY <1>1, Parts DEF Quiet, NothingRises
<1>4. Head(events).live => kernel[Head(events).interface].live
  BY <1>1, Parts
<1> QED
  BY <1>1, <1>2, <1>3, <1>4

LEMMA StartedStep ==
  ASSUME IInv, events # <<>>, NEW j \in Interface, kernel[j].live, OnStarted(j),
         UNCHANGED <<station, switchedOff, inputs>>
  PROVE  IInv'
<1> DEFINE a == IF world.power THEN "on" ELSE "off"
           b == IF world.run THEN "resume" ELSE "stop"
           k == post(kernel[j], <<a, b>>)
<1>1. /\ <<a, b>> \in Seq(Call) /\ Elements(<<a, b>>) = {a, b} /\ b # "on"
      /\ ~world.power => a = "off"
  <2>1. a \in Call /\ b \in Call
    BY DEF Call
  <2>2. b # "on"
    OBVIOUS
  <2>3. ~world.power => a = "off"
    OBVIOUS
  <2> HIDE DEF a, b
  <2>4. <<a, b>> \in Seq(Call) /\ Elements(<<a, b>>) = {a, b}
    BY <2>1, HeldByTwo
  <2> QED
    BY <2>2, <2>3, <2>4
<1>2. /\ kernel' = [kernel EXCEPT ![j] = k] /\ status' = [status EXCEPT ![j] = "Online"]
      /\ events' = Tail(events) /\ UNCHANGED world
  BY DEF OnStarted
<1> HIDE DEF a, b
<1>3. /\ k \in Kernel /\ k.live = kernel[j].live /\ k.power = kernel[j].power /\ k.queue = kernel[j].queue
      /\ Elements(k.posted) = Elements(kernel[j].posted) \cup {a, b}
  <2> DEFINE calls == <<a, b>>
  <2>1. calls \in Seq(Call) /\ Elements(calls) = {a, b} /\ kernel[j] \in Kernel
    BY <1>1, Parts
  <2>2. k = post(kernel[j], calls)
    OBVIOUS
  <2> HIDE DEF k, calls
  <2>3. /\ post(kernel[j], calls) \in Kernel
        /\ post(kernel[j], calls).live = kernel[j].live
        /\ post(kernel[j], calls).power = kernel[j].power
        /\ post(kernel[j], calls).queue = kernel[j].queue
        /\ Elements(post(kernel[j], calls).posted) = Elements(kernel[j].posted) \cup Elements(calls)
    BY <2>1, PostKeeps
  <2> QED
    BY <2>1, <2>2, <2>3
<1> HIDE DEF k
<1>4. /\ kernel' \in [Interface -> Kernel] /\ kernel'[j] = k
      /\ \A i \in Interface \ {j} : kernel'[i] = kernel[i] /\ status'[i] = status[i]
      /\ status' \in [Interface -> InterfaceState] /\ status'[j] = "Online"
  BY <1>2, <1>3, Parts DEF InterfaceState
<1>5. \A i \in Interface : kernel'[i].live = kernel[i].live
  BY <1>3, <1>4
<1>6. /\ events' \in Seq(Callback) /\ Elements(events)' = Elements(events')
      /\ Elements(events') \subseteq Elements(events)
  BY <1>2, FirstCallback DEF Elements
<1>7. StatusTellsKernel'
  BY <1>4, <1>5, Parts DEF StatusTellsKernel
<1>8. \A c \in Elements(events') : c.live => kernel'[c.interface].live
  BY <1>5, <1>6, Parts
<1>9. StateOK'
  BY <1>2, <1>4, <1>6, <1>7, <1>8, Parts DEF StateOK
<1>10. KernelKnows'
  BY <1>3, <1>4, Parts DEF KernelKnows
<1>11. ASSUME switchedOff' = "atRest" PROVE Quiet'
  <2>1. Quiet
    BY <1>11, Parts
  <2>2. a = "off"
    BY <1>1, <2>1 DEF Quiet
  <2>3. ASSUME NEW i \in Interface
        PROVE  "on" \notin Elements(kernel'[i].posted) /\ "GPON" \notin Elements(kernel'[i].queue)
    BY <1>1, <1>3, <1>4, <2>1, <2>2 DEF Quiet, NothingRises
  <2>4. NothingRises'
    BY <1>6, <2>1, <2>3 DEF Quiet, NothingRises
  <2>5. ASSUME NEW i \in Interface, status'[i] = "Online" PROVE Falling(kernel'[i])
    <3>1. CASE i = j
      BY <1>3, <1>4, <2>2, <3>1 DEF Falling
    <3>2. CASE i # j
      BY <1>4, <2>1, <2>5, <3>2 DEF Quiet
    <3> QED
      BY <3>1, <3>2
  <2> QED
    BY <1>2, <2>1, <2>4, <2>5 DEF Quiet, Falling
<1> QED
  BY <1>9, <1>10, <1>11 DEF IInv

\* Nothing but a callback that leaves the event loop.
LEMMA IgnoredStep ==
  ASSUME IInv, events # <<>>, events' = Tail(events),
         UNCHANGED <<world, status, kernel, station, switchedOff, inputs>>
  PROVE  IInv'
<1>1. /\ events' \in Seq(Callback) /\ Elements(events)' = Elements(events')
      /\ Elements(events') \subseteq Elements(events)
  BY FirstCallback DEF Elements
<1>2. StatusTellsKernel' /\ KernelKnows'
  BY Parts DEF StatusTellsKernel, KernelKnows
<1>3. StateOK'
  BY <1>1, <1>2, Parts DEF StateOK
<1>4. ASSUME switchedOff' = "atRest" PROVE Quiet'
  <2>1. Quiet
    BY <1>4, Parts
  <2>2. NothingRises'
    BY <1>1, <2>1 DEF Quiet, NothingRises
  <2> QED
    BY <2>1, <2>2 DEF Quiet, Falling
<1> QED
  BY <1>2, <1>3, <1>4 DEF IInv

LEMMA CalledStep ==
  ASSUME IInv, events # <<>>, UNCHANGED <<station, switchedOff, inputs>>,
         NEW j \in Interface, NEW what \in What, Called(j, what),
         what = "started" => kernel[j].live, switchedOff = "atRest" => what # "powerOn"
  PROVE  IInv'
<1>1. /\ inputs' \in 0 .. MaxInputs /\ switchedOff' \in {"no", "atRest", "whileRising"}
      /\ Tail(events) \in Seq(Callback) /\ Elements(Tail(events)) \subseteq Elements(events)
  BY FirstCallback, Parts
<1>2. CASE what = "started" /\ OnStarted(j)
  BY <1>2, StartedStep
<1>3. CASE what = "error" /\ OnError(j)
  <2>1. /\ status' = [status EXCEPT ![j] = "Error"]
        /\ Closed({j}, Tail(events)) /\ UNCHANGED world
    BY <1>3 DEF OnError
  <2>2. /\ status' \in [Interface -> InterfaceState]
        /\ \A i \in Interface : IF i \in {j} THEN status'[i] \in {"Offline", "Error"}
                                             ELSE status'[i] = status[i]
    BY <2>1, Parts DEF InterfaceState
  <2>3. world' \in World /\ world'.power = world.power /\ {j} \in SUBSET Interface
    BY <2>1, Parts
  <2> QED
    BY <1>1, <2>1, <2>2, <2>3, CloseStep
<1>4. ASSUME NEW e \in Event, NEW there \in BOOLEAN, WorldFollows(e, there),
             switchedOff = "atRest" => e # "PowerOn" /\ e # "Run"
      PROVE  IInv'
  <2>1. events' = Tail(events) /\ UNCHANGED status
    BY <1>4 DEF WorldFollows
  <2>2. CASE there
    BY <1>4, <2>1, <2>2, IgnoredStep DEF WorldFollows
  <2>3. CASE ~there
    <3>1. event(e)
      BY <1>4, <2>3 DEF WorldFollows
    <3>2. switchedOff' = "atRest" => NothingRises /\ (e = "PowerOff" \/ (e = "Stop" /\ Quiet))
      BY <1>4, Parts DEF Quiet, Event
    <3> QED
      BY <1>1, <2>1, <3>1, <3>2, WorldStep
  <2> QED
    BY <1>4, <2>2, <2>3
<1>5. CASE what = "powerOn" /\ WorldFollows("PowerOn", world.power)
  <2>1. "PowerOn" \in Event /\ world.power \in BOOLEAN
    BY Parts DEF Event, World
  <2> QED
    BY <1>4, <1>5, <2>1
<1>6. CASE what = "powerOff" /\ WorldFollows("PowerOff", ~world.power)
  <2>1. "PowerOff" \in Event /\ (~world.power) \in BOOLEAN
    BY Parts DEF Event, World
  <2> QED
    BY <1>4, <1>6, <2>1
<1>7. CASE what = "idle" /\ WorldFollows("Stop", ~world.run)
  <2>1. "Stop" \in Event /\ (~world.run) \in BOOLEAN
    BY Parts DEF Event, World
  <2> QED
    BY <1>4, <1>7, <2>1
<1> QED
  BY <1>2, <1>3, <1>5, <1>6, <1>7 DEF Called

LEMMA CallbackStep ==
  ASSUME IInv, CallbackRuns \/ OrphanRuns
  PROVE  IInv'
<1>1. CASE CallbackRuns
  <2>1. /\ events # <<>> /\ Head(events).live
        /\ Called(Head(events).interface, Head(events).what)
        /\ UNCHANGED <<station, switchedOff, inputs>>
    BY <1>1 DEF CallbackRuns
  <2> QED
    BY <2>1, FirstCallback, CalledStep
<1>2. CASE OrphanRuns
  <2> DEFINE j == Head(events).interface
             what == Head(events).what
  <2>1. /\ events # <<>> /\ UNCHANGED <<station, switchedOff, inputs>>
        /\ \/ events' = Tail(events) /\ UNCHANGED <<world, status, kernel>>
           \/ (what = "started" => kernel[j].live) /\ Called(j, what)
    BY <1>2 DEF OrphanRuns
  <2>2. /\ j \in Interface /\ what \in What
        /\ switchedOff = "atRest" => what # "powerOn"
    BY <2>1, FirstCallback
  <2> HIDE DEF j, what
  <2>3. CASE events' = Tail(events) /\ UNCHANGED <<world, status, kernel>>
    BY <2>1, <2>3, IgnoredStep
  <2>4. CASE (what = "started" => kernel[j].live) /\ Called(j, what)
    BY <2>1, <2>2, <2>4, CalledStep
  <2> QED
    BY <2>1, <2>3, <2>4
<1> QED
  BY <1>1, <1>2

-----------------------------------------------------------------------------
(* The steps of the user and of the interfaces *)

LEMMA UserStep ==
  ASSUME IInv, UserCalls
  PROVE  IInv'
<1>1. UNCHANGED <<status, station, events>>
  BY DEF UserCalls
<1>2. events' \in Seq(Callback) /\ Elements(events') \subseteq Elements(events)
  BY <1>1, Parts
<1>3. ASSUME Input PROVE inputs' \in 0 .. MaxInputs
  BY <1>3, Parts, WorldAssumption DEF Input
<1>4. CASE PowerOn
  <2>1. event("PowerOn") /\ switchedOff' = "no" /\ inputs' \in 0 .. MaxInputs /\ "PowerOn" \in Event
    BY <1>3, <1>4 DEF PowerOn, Event
  <2> QED
    BY <1>1, <1>2, <2>1, WorldStep
<1>5. CASE PowerOff
  <2>1. /\ event("PowerOff") /\ inputs' \in 0 .. MaxInputs /\ "PowerOff" \in Event
        /\ switchedOff' = IF NothingRises THEN "atRest" ELSE "whileRising"
    BY <1>3, <1>5 DEF PowerOff, Event
  <2> QED
    BY <1>1, <1>2, <2>1, WorldStep
<1>6. CASE Stop
  <2>1. event("Stop") /\ UNCHANGED switchedOff /\ inputs' \in 0 .. MaxInputs /\ "Stop" \in Event
    BY <1>3, <1>6 DEF Stop, Event
  <2>2. switchedOff' = "atRest" => NothingRises /\ Quiet
    BY <2>1, Parts DEF Quiet
  <2> QED
    BY <1>1, <1>2, <2>1, <2>2, Parts, WorldStep
<1>7. CASE Run
  <2>1. event("Run") /\ switchedOff' = "no" /\ inputs' \in 0 .. MaxInputs /\ "Run" \in Event
    BY <1>3, <1>7 DEF Run, Event
  <2> QED
    BY <1>1, <1>2, <2>1, WorldStep
<1> QED
  BY <1>4, <1>5, <1>6, <1>7 DEF UserCalls

LEMMA OnlineStep ==
  ASSUME IInv, GoOnline \/ GoOffline \/ \E i \in Interface : ToggleOnline(i)
  PROVE  IInv'
<1>1. ASSUME Input PROVE inputs' \in 0 .. MaxInputs
  BY <1>1, Parts, WorldAssumption DEF Input
<1>2. CASE GoOnline
  <2>1. /\ Opened(Interface) /\ UNCHANGED <<station, events, switchedOff>>
        /\ world' = [world EXCEPT !.online = TRUE] /\ inputs' \in 0 .. MaxInputs
    BY <1>1, <1>2 DEF GoOnline
  <2>2. world' \in World /\ world'.power = world.power /\ Interface \in SUBSET Interface
    BY <2>1, Parts DEF World
  <2> QED
    BY <2>1, <2>2, OpenStep
<1>3. CASE GoOffline
  <2>1. /\ Closed(Interface, events) /\ UNCHANGED <<station, switchedOff>>
        /\ world' = [world EXCEPT !.online = FALSE] /\ inputs' \in 0 .. MaxInputs
        /\ status' = [i \in Interface |-> "Offline"]
    BY <1>1, <1>3 DEF GoOffline
  <2>2. world' \in World /\ world'.power = world.power /\ Interface \in SUBSET Interface
    BY <2>1, Parts DEF World
  <2>3. /\ status' \in [Interface -> InterfaceState]
        /\ \A i \in Interface : IF i \in Interface THEN status'[i] \in {"Offline", "Error"}
                                                   ELSE status'[i] = status[i]
    BY <2>1 DEF InterfaceState
  <2> QED
    BY <2>1, <2>2, <2>3, Parts, CloseStep
<1>4. ASSUME NEW j \in Interface, ToggleOnline(j) PROVE IInv'
  <2>1. UNCHANGED <<world, station, switchedOff>> /\ inputs' \in 0 .. MaxInputs
    BY <1>1, <1>4 DEF ToggleOnline
  <2>2. world' \in World /\ world'.power = world.power /\ {j} \in SUBSET Interface
    BY <2>1, Parts
  <2>3. CASE ~kernel[j].live /\ Opened({j}) /\ UNCHANGED events
    BY <2>1, <2>2, <2>3, OpenStep
  <2>4. CASE kernel[j].live /\ Closed({j}, events) /\ status' = [status EXCEPT ![j] = "Offline"]
    <3>1. /\ status' \in [Interface -> InterfaceState]
          /\ \A i \in Interface : IF i \in {j} THEN status'[i] \in {"Offline", "Error"}
                                               ELSE status'[i] = status[i]
      BY <2>4, Parts DEF InterfaceState
    <3> QED
      BY <2>1, <2>2, <2>4, <3>1, Parts, CloseStep
  <2> QED
    BY <1>4, <2>3, <2>4 DEF ToggleOnline
<1> QED
  BY <1>2, <1>3, <1>4

-----------------------------------------------------------------------------
(* Theorems *)

LEMMA StepInvariant == IInv /\ [Next]_vars => IInv'
<1> SUFFICES ASSUME IInv, [Next]_vars PROVE IInv'
  OBVIOUS
<1>1. CASE UserCalls
  BY <1>1, UserStep
<1>2. CASE GoOnline \/ GoOffline \/ \E i \in Interface : ToggleOnline(i)
  BY <1>2, OnlineStep
<1>3. ASSUME NEW i \in Interface, KernelRuns(i) \/ BusCarries(i) \/ OtherDevice(i) \/ Fails(i)
      PROVE  IInv'
  BY <1>3, KernelRunsStep, BusCarriesStep, OtherDeviceStep, FailsStep
<1>4. CASE CallbackRuns \/ OrphanRuns
  BY <1>4, CallbackStep
<1>5. CASE UNCHANGED vars
  <2>1. UNCHANGED <<world, status, kernel, station, events, switchedOff, inputs>>
    BY <1>5 DEF vars
  <2> QED
    BY <2>1 DEF IInv, StateOK, StatusTellsKernel, KernelKnows, Quiet, NothingRises, Falling, Elements
<1> QED
  BY <1>1, <1>2, <1>3, <1>4, <1>5 DEF Next

LEMMA EventTells ==
  ASSUME ranOn \subseteq Interface, NEW e \in Event, event(e)
  PROVE  ranOn' \subseteq Interface
<1>1. NotTold(e) \subseteq Interface
  BY DEF NotTold, Event
<1> QED
  BY <1>1 DEF event

LEMMA CalledTells ==
  ASSUME ranOn \subseteq Interface, NEW i, NEW what, Called(i, what)
  PROVE  ranOn' \subseteq Interface
<1>1. ASSUME NEW e \in Event, NEW there, WorldFollows(e, there)
      PROVE  ranOn' \subseteq Interface
  BY <1>1, EventTells DEF WorldFollows
<1>2. "PowerOn" \in Event /\ "PowerOff" \in Event /\ "Stop" \in Event
  BY DEF Event
<1>3. CASE OnStarted(i) \/ OnError(i)
  BY <1>3 DEF OnStarted, OnError
<1> QED
  BY <1>1, <1>2, <1>3 DEF Called

LEMMA StepTells == ranOn \subseteq Interface /\ [Next]_vars => (ranOn \subseteq Interface)'
<1> SUFFICES ASSUME ranOn \subseteq Interface, [Next]_vars PROVE ranOn' \subseteq Interface
  OBVIOUS
<1>1. CASE UserCalls
  <2>1. \E e \in Event : event(e)
    BY <1>1 DEF UserCalls, PowerOn, PowerOff, Stop, Run, Event
  <2> QED
    BY <2>1, EventTells
<1>2. CASE CallbackRuns \/ OrphanRuns
  BY <1>2, CalledTells DEF CallbackRuns, OrphanRuns
<1>3. CASE GoOnline \/ GoOffline \/ UNCHANGED vars
  BY <1>3 DEF GoOnline, GoOffline, vars
<1>4. ASSUME NEW i \in Interface,
             ToggleOnline(i) \/ KernelRuns(i) \/ BusCarries(i) \/ OtherDevice(i) \/ Fails(i)
      PROVE  UNCHANGED ranOn
  BY <1>4 DEF ToggleOnline, KernelRuns, BusCarries, OtherDevice, Fails
<1> QED
  BY <1>1, <1>2, <1>3, <1>4 DEF Next

\* The status of an interface tells whether it has a kernel, whatever goes online, offline
\* or fails meanwhile, and whichever callbacks of lost kernels still run (TypeOK).
THEOREM StatusIsKept == Spec => []TypeOK
<1>1. Init => ranOn \subseteq Interface
  BY DEF Init
<1>2. IInv /\ ranOn \subseteq Interface => TypeOK
  BY DEF IInv, TypeOK
<1> QED
  BY <1>1, <1>2, StepTells, InitInvariant, StepInvariant, PTL DEF Spec

LEMMA SettledIsOff == IInv => PowerOffIsObeyed
<1> SUFFICES ASSUME IInv, switchedOff = "atRest"
             PROVE  ~world.power /\ \A i \in Interface : Settled(i) => ~station[i]
  BY DEF PowerOffIsObeyed
<1>1. Quiet
  BY Parts
<1>2. ASSUME NEW i \in Interface, Settled(i) PROVE ~station[i]
  <2>1. kernel[i].posted = <<>> /\ kernel[i].queue = <<>> /\ status[i] = "Online"
    BY <1>2 DEF Settled
  <2>2. kernel[i].live
    BY <2>1, Parts DEF StatusTellsKernel
  <2>3. Elements(<<>>) = {}
    BY NewKernelIsIdle
  <2>4. kernel[i].power = "False"
    BY <1>1, <2>1, <2>3 DEF Quiet, Falling
  <2> QED
    BY <2>2, <2>4, Parts DEF KernelKnows
<1> QED
  BY <1>1, <1>2 DEF Quiet

\* World::powerOff, when nothing is on its way that switches the power on, takes the power
\* from every station that is in use and leaves the world off (PowerOffIsObeyed).
THEOREM PowerOffHolds == Spec => []PowerOffIsObeyed
BY InitInvariant, StepInvariant, SettledIsOff, PTL DEF Spec

-----------------------------------------------------------------------------
(***************************************************************************)
(* The world and a kernel in use agree once all has settled.  What makes   *)
(* that inductive is what is on its way while they do not: a callback that *)
(* tells the world what the bus has carried last, or else a call or a      *)
(* message that brings the bus to the state of the world.                  *)
(***************************************************************************)
Rising(k) ==
  \/ k.power = "True"
  \/ "on" \in Elements(k.posted)
  \/ "GPON" \in Elements(k.queue)

PowerChange == {"powerOn", "powerOff"}

\* Callback c comes from the kernel that interface i has, and says one of whats.
Tells(c, i, whats) == c.live /\ c.interface = i /\ c.what \in whats

Silent(s, i, whats) == \A c \in Elements(s) : ~Tells(c, i, whats)

\* The last of the callbacks s that tells of the power of interface i says power.
LastSays(s, i, power) ==
  \A n \in 1 .. Len(s) :
    Tells(s[n], i, PowerChange) /\ (\A m \in 1 .. Len(s) : n < m => ~Tells(s[m], i, PowerChange))
      => power = IF s[n].what = "powerOn" THEN "True" ELSE "False"

\* What brings the bus of kernel k to the state of the world, or `run` that did not.
PowerComes(i, k) ==
  IF world.power THEN Rising(k) \/ (i \in ranOn /\ Falling(k)) ELSE Falling(k)

\* Kernel k of interface i and the world know of each other, callbacks s being on their way.
Informed(i, k, s) ==
  /\ LastSays(s, i, k.power)
  /\ status[i] = "Online" /\ Silent(s, i, PowerChange) => PowerComes(i, k)
  /\ status[i] = "Online" /\ world.run /\ Silent(s, i, {"idle"})
       => k.stop = "False" \/ "resume" \in Elements(k.posted)

AllInformed == \A i \in Interface : Informed(i, kernel[i], events)

-----------------------------------------------------------------------------
(* Lemmas about the callbacks that are on their way *)

LEMMA SilenceSays ==
  ASSUME NEW i, NEW s, Silent(s, i, PowerChange), NEW power
  PROVE  LastSays(s, i, power)
BY DEF Silent, LastSays, Elements

LEMMA SaysNothingMore ==
  ASSUME NEW i, NEW s \in Seq(Callback), NEW t \in Seq(Callback),
         Silent(t, i, PowerChange), NEW power, LastSays(s, i, power)
  PROVE  LastSays(s \o t, i, power)
<1>0. Len(s) \in Nat /\ Len(t) \in Nat
  BY LenProperties
<1>1. /\ Len(s \o t) = Len(s) + Len(t)
      /\ \A n \in 1 .. Len(s) + Len(t) :
           (s \o t)[n] = IF n <= Len(s) THEN s[n] ELSE t[n - Len(s)]
  BY ConcatProperties
<1> SUFFICES ASSUME NEW n \in 1 .. Len(s \o t), Tells((s \o t)[n], i, PowerChange),
                    \A m \in 1 .. Len(s \o t) : n < m => ~Tells((s \o t)[m], i, PowerChange)
             PROVE  power = IF (s \o t)[n].what = "powerOn" THEN "True" ELSE "False"
  BY DEF LastSays
<1>2. n <= Len(s)
  <2>1. SUFFICES ASSUME ~(n <= Len(s)) PROVE FALSE
    OBVIOUS
  <2>2. n - Len(s) \in 1 .. Len(t) /\ (s \o t)[n] = t[n - Len(s)]
    BY <1>0, <1>1, <2>1
  <2> QED
    BY <2>2 DEF Silent, Elements
<1>3. n \in 1 .. Len(s) /\ (s \o t)[n] = s[n]
  BY <1>0, <1>1, <1>2
<1>4. ASSUME NEW m \in 1 .. Len(s), n < m PROVE ~Tells(s[m], i, PowerChange)
  <2>1. m \in 1 .. Len(s \o t) /\ (s \o t)[m] = s[m]
    BY <1>0, <1>1
  <2> QED
    BY <1>4, <2>1
<1> QED
  BY <1>3, <1>4 DEF LastSays

LEMMA SaysLast ==
  ASSUME NEW i, NEW s \in Seq(Callback), NEW c \in Callback, NEW power,
         power = IF c.what = "powerOn" THEN "True" ELSE "False", Tells(c, i, PowerChange)
  PROVE  LastSays(s \o <<c>>, i, power)
<1>0. Len(s) \in Nat /\ <<c>> \in Seq(Callback) /\ Len(<<c>>) = 1 /\ <<c>>[1] = c
  BY LenProperties
<1>1. /\ Len(s \o <<c>>) = Len(s) + 1 /\ (s \o <<c>>)[Len(s) + 1] = c
  BY <1>0, ConcatProperties
<1> SUFFICES ASSUME NEW n \in 1 .. Len(s \o <<c>>),
                    \A m \in 1 .. Len(s \o <<c>>) : n < m => ~Tells((s \o <<c>>)[m], i, PowerChange)
             PROVE  power = IF (s \o <<c>>)[n].what = "powerOn" THEN "True" ELSE "False"
  BY DEF LastSays
<1>2. n = Len(s) + 1
  <2>1. Len(s) + 1 \in 1 .. Len(s \o <<c>>)
    BY <1>0, <1>1
  <2>2. ~(n < Len(s) + 1)
    BY <1>1, <2>1
  <2> QED
    BY <1>0, <1>1, <2>2
<1> QED
  BY <1>1, <1>2

\* The first callback leaves: if it was the only one that told of the power, it was right.
LEMMA SaysAfterFirst ==
  ASSUME NEW i, NEW s \in Seq(Callback), s # <<>>, NEW power, LastSays(s, i, power)
  PROVE  /\ LastSays(Tail(s), i, power)
         /\ Tells(Head(s), i, PowerChange) /\ Silent(Tail(s), i, PowerChange)
              => power = IF Head(s).what = "powerOn" THEN "True" ELSE "False"
<1>1. /\ Len(s) \in Nat /\ 1 \in 1 .. Len(s) /\ Head(s) = s[1]
      /\ Len(Tail(s)) = Len(s) - 1
      /\ \A n \in 1 .. Len(Tail(s)) : Tail(s)[n] = s[n + 1]
  <2>1. Len(s) \in Nat /\ Len(s) # 0
    BY LenProperties, EmptySeq
  <2> QED
    BY <2>1, HeadTailProperties
<1>2. ASSUME NEW n \in 1 .. Len(Tail(s)), Tells(Tail(s)[n], i, PowerChange),
             \A m \in 1 .. Len(Tail(s)) : n < m => ~Tells(Tail(s)[m], i, PowerChange)
      PROVE  power = IF Tail(s)[n].what = "powerOn" THEN "True" ELSE "False"
  <2>1. n + 1 \in 1 .. Len(s) /\ Tail(s)[n] = s[n + 1]
    BY <1>1
  <2>2. ASSUME NEW m \in 1 .. Len(s), n + 1 < m PROVE ~Tells(s[m], i, PowerChange)
    <3>1. m - 1 \in 1 .. Len(Tail(s)) /\ n < m - 1 /\ (m - 1) + 1 = m
      BY <1>1, <2>2
    <3>2. Tail(s)[m - 1] = s[m]
      BY <1>1, <3>1
    <3> QED
      BY <1>2, <3>1, <3>2
  <2> QED
    BY <1>2, <2>1, <2>2 DEF LastSays
<1>3. ASSUME Tells(Head(s), i, PowerChange), Silent(Tail(s), i, PowerChange)
      PROVE  power = IF Head(s).what = "powerOn" THEN "True" ELSE "False"
  <2>1. ASSUME NEW m \in 1 .. Len(s), 1 < m PROVE ~Tells(s[m], i, PowerChange)
    <3>1. m - 1 \in 1 .. Len(Tail(s)) /\ (m - 1) + 1 = m
      BY <1>1, <2>1
    <3>2. Tail(s)[m - 1] = s[m]
      BY <1>1, <3>1
    <3> QED
      BY <1>3, <3>1, <3>2 DEF Silent, Elements
  <2> QED
    BY <1>1, <1>3, <2>1 DEF LastSays
<1> QED
  BY <1>2, <1>3 DEF LastSays

LEMMA SilentParts ==
  ASSUME NEW i, NEW whats, NEW s \in Seq(Callback), NEW t \in Seq(Callback)
  PROVE  Silent(s \o t, i, whats) <=> Silent(s, i, whats) /\ Silent(t, i, whats)
BY HeldByConcat DEF Silent

LEMMA SilentAfterFirst ==
  ASSUME NEW i, NEW whats, NEW s \in Seq(Callback), s # <<>>
  PROVE  Silent(s, i, whats) <=> ~Tells(Head(s), i, whats) /\ Silent(Tail(s), i, whats)
BY HeldByTail DEF Silent

\* Interfaces that close: their callbacks are of lost kernels, those of others stay what they are.
LEMMA SaysOfOthers ==
  ASSUME NEW closing, NEW s \in Seq(Callback), NEW i, NEW whats, NEW power
  PROVE  /\ i \in closing => Silent(Orphaned(closing, s), i, whats)
         /\ i \notin closing =>
              /\ Silent(Orphaned(closing, s), i, whats) => Silent(s, i, whats)
              /\ LastSays(s, i, power) => LastSays(Orphaned(closing, s), i, power)
<1> DEFINE o == Orphaned(closing, s)
<1>0. Len(s) \in Nat /\ \A n \in 1 .. Len(s) : s[n] \in Callback
  BY LenProperties, ElementOfSeq
<1>1. /\ o \in Seq(Callback) /\ Len(o) = Len(s)
      /\ \A n \in 1 .. Len(s) :
           o[n] = IF s[n].interface \in closing THEN [s[n] EXCEPT !.live = FALSE] ELSE s[n]
  <2>1. o \in Seq(Callback)
    BY OrphanedHeld
  <2> QED
    BY <1>0, <2>1 DEF Orphaned
<1>2. ASSUME NEW n \in 1 .. Len(s), NEW some
      PROVE  /\ i \in closing => ~Tells(o[n], i, some)
             /\ i \notin closing => (Tells(o[n], i, some) <=> Tells(s[n], i, some))
             /\ o[n].what = s[n].what
  BY <1>0, <1>1 DEF Tells, Callback
<1> HIDE DEF o
<1>3. i \in closing => Silent(o, i, whats)
  BY <1>1, <1>2 DEF Silent, Elements
<1>4. i \notin closing /\ Silent(o, i, whats) => Silent(s, i, whats)
  <2> SUFFICES ASSUME i \notin closing, Silent(o, i, whats), NEW n \in 1 .. Len(s),
                      Tells(s[n], i, whats)
               PROVE  FALSE
    BY DEF Silent, Elements
  <2>1. Tells(o[n], i, whats)
    BY <1>2
  <2> QED
    BY <1>1, <2>1 DEF Silent, Elements
<1>5. i \notin closing /\ LastSays(s, i, power) => LastSays(o, i, power)
  BY <1>1, <1>2 DEF LastSays
<1> QED
  BY <1>3, <1>4, <1>5 DEF o

LEMMA InformedNext ==
  ASSUME NEW i \in Interface, LastSays(events', i, kernel'[i].power),
         status'[i] = "Online" /\ Silent(events', i, PowerChange)
           => IF world'.power THEN Rising(kernel'[i]) \/ (i \in ranOn' /\ Falling(kernel'[i]))
                              ELSE Falling(kernel'[i]),
         status'[i] = "Online" /\ world'.run /\ Silent(events', i, {"idle"})
           => kernel'[i].stop = "False" \/ "resume" \in Elements(kernel'[i].posted)
  PROVE  Informed(i, kernel[i], events)'
BY DEF Informed, PowerComes, LastSays, Silent, Rising, Falling, Elements, Tells, PowerChange

\* A callback leaves that tells neither of the power nor of a stop, or is of a lost kernel.
LEMMA FirstLeaves ==
  ASSUME IInv, AllInformed, NEW i \in Interface, events # <<>>,
         ~Tells(Head(events), i, PowerChange), ~Tells(Head(events), i, {"idle"})
  PROVE  Informed(i, kernel[i], Tail(events))
<1>1. events \in Seq(Callback) /\ Informed(i, kernel[i], events)
  BY Parts DEF AllInformed
<1>2. LastSays(Tail(events), i, kernel[i].power)
  BY <1>1, SaysAfterFirst DEF Informed
<1>3. /\ Silent(Tail(events), i, PowerChange) => Silent(events, i, PowerChange)
      /\ Silent(Tail(events), i, {"idle"}) => Silent(events, i, {"idle"})
  BY <1>1, SilentAfterFirst
<1> QED
  BY <1>1, <1>2, <1>3 DEF Informed

-----------------------------------------------------------------------------
(* Events of the world *)

LEMMA CallsBring ==
  ASSUME NEW w \in World, NEW e \in Event
  PROVE  /\ Calls(e, w) \in Seq(Call)
         /\ e = "PowerOn" => "on" \in Elements(Calls(e, w))
         /\ e = "PowerOff" => "off" \in Elements(Calls(e, w))
         /\ e = "Run" /\ w.power => "resume" \in Elements(Calls(e, w))
<1>1. "on" \in Call /\ "resume" \in Call
  BY DEF Call
<1>2. /\ Elements(<<"on">>) = {"on"} /\ Elements(<<"resume">>) = {"resume"}
      /\ Elements(<<"on", "resume">>) = {"on", "resume"}
  BY <1>1, HeldByFew, HeldByTwo
<1>3. /\ e = "PowerOn" => Calls(e, w) \in {<<"on">>, <<"on", "resume">>}
      /\ e = "Run" /\ w.power => Calls(e, w) = <<"resume">>
  BY DEF Calls
<1>4. e = "PowerOn" => "on" \in Elements(Calls(e, w))
  BY <1>2, <1>3
<1>5. e = "Run" /\ w.power => "resume" \in Elements(Calls(e, w))
  BY <1>2, <1>3
<1> QED
  BY <1>4, <1>5, CallsHeld

LEMMA PostSends ==
  ASSUME NEW k \in Kernel, NEW calls \in Seq(Call)
  PROVE  post(k, calls).stop = k.stop
BY DEF post, Kernel

\* The calls that a live kernel gets with an event bring its bus to the new state of the world.
LEMMA EventSends ==
  ASSUME IInv, NEW e \in Event, event(e), NEW i \in Interface, kernel[i].live
  PROVE  /\ kernel'[i].live /\ kernel'[i].power = kernel[i].power
         /\ kernel'[i].stop = kernel[i].stop /\ kernel'[i].queue = kernel[i].queue
         /\ Elements(kernel[i].posted) \subseteq Elements(kernel'[i].posted)
         /\ \/ e \in {"Stop", "Run"} /\ world'.power = world.power
               /\ (ranOn' = ranOn \/ ~world'.power)
            \/ IF world'.power THEN "on" \in Elements(kernel'[i].posted)
                               ELSE "off" \in Elements(kernel'[i].posted)
            \/ /\ e = "Run" /\ ~world.power /\ world'.power
               /\ status[i] = "Online" => i \in ranOn'
         /\ e = "Run" /\ world'.run => "resume" \in Elements(kernel'[i].posted)
         /\ world'.run => world.run \/ e = "Run"
         /\ e = "Stop" => ~world'.run
<1> DEFINE w == After(world, e)
<1>0. world \in World /\ kernel \in [Interface -> Kernel] /\ kernel[i] \in Kernel
  BY Parts
<1>1. /\ w \in World
      /\ e = "PowerOff" => ~w.power /\ ~w.run
      /\ e = "PowerOn" => w.power /\ w.run = world.run
      /\ e = "Stop" => w.power = world.power /\ ~w.run
      /\ e = "Run" => w.power
  BY <1>0 DEF After, World, Event
<1>2. /\ Calls(e, w) \in Seq(Call)
      /\ e = "PowerOn" => "on" \in Elements(Calls(e, w))
      /\ e = "PowerOff" => "off" \in Elements(Calls(e, w))
      /\ e = "Run" => "resume" \in Elements(Calls(e, w))
  BY <1>1, CallsBring
<1>3. e \in {"PowerOff", "PowerOn", "Stop", "Run"}
  BY DEF Event
<1>4. ASSUME NEW calls \in Seq(Call), kernel'[i] = post(kernel[i], calls)
      PROVE  /\ kernel'[i].live /\ kernel'[i].power = kernel[i].power
             /\ kernel'[i].stop = kernel[i].stop /\ kernel'[i].queue = kernel[i].queue
             /\ Elements(kernel'[i].posted) = Elements(kernel[i].posted) \cup Elements(calls)
  BY <1>0, <1>4, PostKeeps, PostSends
<1>7. /\ e = "Stop" \/ (e = "Run" /\ world.power) => NotTold(e) = ranOn
      /\ e = "Run" /\ ~world.power /\ status[i] = "Online" => i \in NotTold(e)
  BY DEF NotTold
<1> HIDE DEF w
<1>5. CASE /\ world' = w
           /\ kernel' = [j \in Interface |-> post(kernel[j], Calls(e, w))]
           /\ ranOn' = NotTold(e)
  <2>1. kernel'[i] = post(kernel[i], Calls(e, w))
    BY <1>5
  <2>2. /\ kernel'[i].live /\ kernel'[i].power = kernel[i].power
        /\ kernel'[i].stop = kernel[i].stop /\ kernel'[i].queue = kernel[i].queue
        /\ Elements(kernel'[i].posted) = Elements(kernel[i].posted) \cup Elements(Calls(e, w))
    BY <1>2, <1>4, <2>1
  <2>3. world' = w /\ ranOn' = NotTold(e)
    BY <1>5
  <2>4. CASE e = "PowerOff"
    BY <1>1, <1>2, <2>2, <2>3, <2>4
  <2>5. CASE e = "PowerOn"
    BY <1>1, <1>2, <2>2, <2>3, <2>5
  <2>6. CASE e = "Stop"
    BY <1>1, <1>2, <1>7, <2>2, <2>3, <2>6
  <2>7. CASE e = "Run"
    <3>1. world.power => world'.power = world.power
      BY <1>0, <1>1, <2>3, <2>7 DEF World
    <3> QED
      BY <1>1, <1>2, <1>7, <2>2, <2>3, <2>7, <3>1
  <2> QED
    BY <1>3, <2>4, <2>5, <2>6, <2>7
<1>6. CASE \E c \in ScriptCalls :
             /\ world' = After(w, c)
             /\ kernel' = [j \in Interface |-> post(kernel[j], Calls(c, After(w, c)) \o Calls(e, w))]
             /\ ranOn' = IF c = "PowerOff" THEN {} ELSE NotTold(e)
  <2>0. PICK c \in ScriptCalls :
             /\ world' = After(w, c)
             /\ kernel' = [j \in Interface |-> post(kernel[j], Calls(c, After(w, c)) \o Calls(e, w))]
             /\ ranOn' = IF c = "PowerOff" THEN {} ELSE NotTold(e)
    BY <1>6
  <2>1. c \in Event /\ c \in {"PowerOff", "Stop"}
    BY WorldAssumption DEF ScriptCallable, Event
  <2> DEFINE first == Calls(c, After(w, c))
             calls == first \o Calls(e, w)
  <2>2. /\ After(w, c) \in World /\ ~After(w, c).run
        /\ c = "PowerOff" => ~After(w, c).power
        /\ c = "Stop" => After(w, c).power = w.power
    BY <1>1, <2>1 DEF After, World, Event
  <2>3. first \in Seq(Call) /\ (c = "PowerOff" => "off" \in Elements(first))
    BY <2>1, <2>2, CallsBring
  <2>4. kernel'[i] = post(kernel[i], calls)
    BY <2>0
  <2> HIDE DEF first
  <2>5. calls \in Seq(Call) /\ Elements(calls) = Elements(first) \cup Elements(Calls(e, w))
    BY <1>2, <2>3, HeldByConcat
  <2> HIDE DEF calls
  <2>6. /\ kernel'[i].live /\ kernel'[i].power = kernel[i].power
        /\ kernel'[i].stop = kernel[i].stop /\ kernel'[i].queue = kernel[i].queue
        /\ Elements(kernel'[i].posted) =
             Elements(kernel[i].posted) \cup (Elements(first) \cup Elements(Calls(e, w)))
    BY <1>4, <2>4, <2>5
  <2>7. world' = After(w, c) /\ ~world'.run
    BY <2>0, <2>2
  <2>8. CASE c = "PowerOff"
    BY <2>2, <2>3, <2>6, <2>7, <2>8
  <2>9. CASE c = "Stop"
    <3>0. ranOn' = NotTold(e)
      BY <2>0, <2>9
    <3>1. world'.power = w.power
      BY <2>2, <2>7, <2>9
    <3>2. CASE e = "PowerOff"
      BY <1>1, <1>2, <2>6, <2>7, <3>1, <3>2
    <3>3. CASE e = "PowerOn"
      BY <1>1, <1>2, <2>6, <2>7, <3>1, <3>3
    <3>4. CASE e = "Stop"
      BY <1>1, <1>7, <2>6, <2>7, <3>0, <3>1, <3>4
    <3>5. CASE e = "Run"
      <4>1. world.power => world'.power = world.power
        BY <1>0, <1>1, <3>1, <3>5 DEF World
      <4> QED
        BY <1>1, <1>7, <2>6, <2>7, <3>0, <3>1, <3>5, <4>1
    <3> QED
      BY <1>3, <3>2, <3>3, <3>4, <3>5
  <2> QED
    BY <2>1, <2>8, <2>9
<1> QED
  BY <1>5, <1>6 DEF event, w

\* An event that no callback of interface i, or one that tells of this event, brings about.
LEMMA EventInforms ==
  ASSUME IInv, AllInformed, NEW e \in Event, event(e), UNCHANGED status,
         NEW i \in Interface,
         \/ UNCHANGED events
         \/ /\ events # <<>> /\ events' = Tail(events)
            /\ Tells(Head(events), i, PowerChange) => e \in {"PowerOn", "PowerOff"}
            /\ Tells(Head(events), i, {"idle"}) => e = "Stop"
  PROVE  Informed(i, kernel[i], events)'
<1>1. /\ events \in Seq(Callback) /\ Informed(i, kernel[i], events)
      /\ world \in World /\ kernel \in [Interface -> Kernel]
  BY Parts DEF AllInformed
<1>2. kernel'[i].power = kernel[i].power
  BY <1>1, EventKeeps
<1>3. LastSays(events', i, kernel'[i].power)
  <2>1. LastSays(events, i, kernel[i].power)
    BY <1>1 DEF Informed
  <2>2. CASE UNCHANGED events
    BY <1>2, <2>1, <2>2
  <2>3. CASE events # <<>> /\ events' = Tail(events)
    BY <1>1, <1>2, <2>1, <2>3, SaysAfterFirst
  <2> QED
    BY <2>2, <2>3
<1>4. ASSUME status'[i] = "Online"
      PROVE  kernel[i].live
  BY <1>4, Parts DEF StatusTellsKernel
<1>5. ASSUME status'[i] = "Online", Silent(events', i, PowerChange)
      PROVE  IF world'.power THEN Rising(kernel'[i]) \/ (i \in ranOn' /\ Falling(kernel'[i]))
                             ELSE Falling(kernel'[i])
  <2>1. /\ kernel'[i].queue = kernel[i].queue
        /\ Elements(kernel[i].posted) \subseteq Elements(kernel'[i].posted)
        /\ \/ e \in {"Stop", "Run"} /\ world'.power = world.power
              /\ (ranOn' = ranOn \/ ~world'.power)
           \/ IF world'.power THEN "on" \in Elements(kernel'[i].posted)
                              ELSE "off" \in Elements(kernel'[i].posted)
           \/ /\ e = "Run" /\ ~world.power /\ world'.power
              /\ status[i] = "Online" => i \in ranOn'
    BY <1>4, <1>5, EventSends
  <2>2. /\ Rising(kernel[i]) => Rising(kernel'[i])
        /\ Falling(kernel[i]) => Falling(kernel'[i])
    BY <1>2, <2>1 DEF Rising, Falling
  <2>3. ASSUME e \in {"Stop", "Run"} PROVE PowerComes(i, kernel[i])
    <3>1. Silent(events, i, PowerChange)
      BY <1>1, <1>5, <2>3, SilentAfterFirst
    <3> QED
      BY <1>1, <1>5, <3>1 DEF Informed
  <2>4. CASE e \in {"Stop", "Run"} /\ world'.power = world.power /\ (ranOn' = ranOn \/ ~world'.power)
    BY <2>2, <2>3, <2>4 DEF PowerComes
  <2>5. CASE IF world'.power THEN "on" \in Elements(kernel'[i].posted)
                             ELSE "off" \in Elements(kernel'[i].posted)
    BY <2>5 DEF Rising, Falling
  <2>6. CASE e = "Run" /\ ~world.power /\ world'.power /\ (status[i] = "Online" => i \in ranOn')
    <3>1. Falling(kernel'[i])
      BY <2>2, <2>3, <2>6 DEF PowerComes
    <3>2. i \in ranOn'
      BY <1>5, <2>6
    <3> QED
      BY <2>6, <3>1, <3>2
  <2> QED
    BY <2>1, <2>4, <2>5, <2>6
<1>6. ASSUME status'[i] = "Online", world'.run, Silent(events', i, {"idle"})
      PROVE  kernel'[i].stop = "False" \/ "resume" \in Elements(kernel'[i].posted)
  <2>1. /\ kernel'[i].stop = kernel[i].stop
        /\ Elements(kernel[i].posted) \subseteq Elements(kernel'[i].posted)
        /\ e = "Run" => "resume" \in Elements(kernel'[i].posted)
        /\ world.run \/ e = "Run"
        /\ e # "Stop"
    BY <1>4, <1>6, EventSends
  <2>2. CASE e = "Run"
    BY <2>1, <2>2
  <2>3. CASE e # "Run"
    <3>1. Silent(events, i, {"idle"})
      BY <1>1, <1>6, <2>1, SilentAfterFirst
    <3>2. kernel[i].stop = "False" \/ "resume" \in Elements(kernel[i].posted)
      BY <1>1, <1>6, <2>1, <2>3, <3>1 DEF Informed
    <3> QED
      BY <2>1, <3>2
  <2> QED
    BY <2>2, <2>3
<1> QED
  BY <1>3, <1>5, <1>6, InformedNext

-----------------------------------------------------------------------------
(* Interfaces that open and close *)

LEMMA OpenInforms ==
  ASSUME IInv, AllInformed, NEW opening \in SUBSET Interface, Opened(opening),
         world'.power = world.power, world'.run = world.run, UNCHANGED <<events, ranOn>>
  PROVE  AllInformed'
<1> SUFFICES ASSUME NEW i \in Interface PROVE Informed(i, kernel[i], events)'
  BY DEF AllInformed
<1>1. Informed(i, kernel[i], events)
  BY DEF AllInformed
<1>2. \/ kernel'[i] = kernel[i] /\ status'[i] = status[i]
      \/ ~kernel[i].live /\ status'[i] = "Initializing"
  BY Parts DEF Opened
<1>3. CASE kernel'[i] = kernel[i] /\ status'[i] = status[i]
  BY <1>1, <1>3, InformedNext DEF Informed, PowerComes
<1>4. CASE ~kernel[i].live /\ status'[i] = "Initializing"
  <2>1. Silent(events', i, PowerChange)
    BY <1>4, Parts DEF Silent, Tells
  <2>2. LastSays(events', i, kernel'[i].power)
    BY <2>1, SilenceSays
  <2> QED
    BY <1>4, <2>2, InformedNext
<1> QED
  BY <1>2, <1>3, <1>4

LEMMA CloseInforms ==
  ASSUME IInv, NEW closing \in SUBSET Interface, NEW s \in Seq(Callback),
         \A i \in Interface \ closing : Informed(i, kernel[i], s), Closed(closing, s),
         \A i \in Interface : IF i \in closing THEN status'[i] \in {"Offline", "Error"}
                                               ELSE status'[i] = status[i],
         world'.power = world.power, world'.run = world.run, UNCHANGED ranOn
  PROVE  AllInformed'
<1> SUFFICES ASSUME NEW i \in Interface PROVE Informed(i, kernel[i], events)'
  BY DEF AllInformed
<1>1. /\ events' = Orphaned(closing, s)
      /\ kernel'[i] = IF i \in closing THEN NoKernel ELSE kernel[i]
  BY DEF Closed
<1>2. CASE i \in closing
  <2>1. Silent(events', i, PowerChange)
    BY <1>1, <1>2, SaysOfOthers
  <2>2. LastSays(events', i, kernel'[i].power)
    BY <2>1, SilenceSays
  <2>3. status'[i] # "Online"
    BY <1>2
  <2> QED
    BY <2>2, <2>3, InformedNext
<1>3. CASE i \notin closing
  <2>1. Informed(i, kernel[i], s) /\ kernel'[i] = kernel[i] /\ status'[i] = status[i]
    BY <1>1, <1>3
  <2>2. LastSays(events', i, kernel'[i].power)
    BY <1>1, <1>3, <2>1, SaysOfOthers DEF Informed
  <2>3. /\ Silent(events', i, PowerChange) => Silent(s, i, PowerChange)
        /\ Silent(events', i, {"idle"}) => Silent(s, i, {"idle"})
    BY <1>1, <1>3, SaysOfOthers
  <2> QED
    BY <2>1, <2>2, <2>3, InformedNext DEF Informed, PowerComes
<1> QED
  BY <1>2, <1>3

-----------------------------------------------------------------------------
(* Steps of one kernel, callbacks t of which the event loop receives *)

LEMMA KernelInforms ==
  ASSUME IInv, AllInformed, NEW j \in Interface, kernel' \in [Interface -> Kernel],
         \A i \in Interface \ {j} : kernel'[i] = kernel[i],
         NEW t \in Seq(Callback), events' = events \o t,
         \A c \in Elements(t) : c.interface = j, UNCHANGED <<world, status, ranOn>>,
         LastSays(events', j, kernel'[j].power),
         Silent(t, j, PowerChange) =>
           /\ Rising(kernel[j]) => Rising(kernel'[j])
           /\ Falling(kernel[j]) => Falling(kernel'[j]),
         Silent(t, j, {"idle"}) /\ (kernel[j].stop = "False" \/ "resume" \in Elements(kernel[j].posted))
           => kernel'[j].stop = "False" \/ "resume" \in Elements(kernel'[j].posted)
  PROVE  AllInformed'
<1> SUFFICES ASSUME NEW i \in Interface PROVE Informed(i, kernel[i], events)'
  BY DEF AllInformed
<1>1. events \in Seq(Callback) /\ Informed(i, kernel[i], events)
  BY Parts DEF AllInformed
<1>2. /\ Silent(events', i, PowerChange) => Silent(events, i, PowerChange) /\ Silent(t, i, PowerChange)
      /\ Silent(events', i, {"idle"}) => Silent(events, i, {"idle"}) /\ Silent(t, i, {"idle"})
  BY <1>1, SilentParts
<1>3. CASE i = j
  BY <1>1, <1>2, <1>3, InformedNext DEF Informed, PowerComes
<1>4. CASE i # j
  <2>1. Silent(t, i, PowerChange)
    BY <1>4 DEF Silent, Tells
  <2>2. LastSays(events', i, kernel'[i].power)
    BY <1>1, <1>4, <2>1, SaysNothingMore DEF Informed
  <2> QED
    BY <1>1, <1>2, <1>4, <2>2, InformedNext DEF Informed, PowerComes
<1> QED
  BY <1>3, <1>4

\* The same when the kernel learns nothing of the power and tells nothing of it.
LEMMA QuietKernelInforms ==
  ASSUME IInv, AllInformed, NEW j \in Interface, NEW k \in Kernel,
         kernel' = [kernel EXCEPT ![j] = k], UNCHANGED <<world, status, ranOn>>,
         \/ UNCHANGED events
         \/ \E what \in {"started", "error"} : events' = events \o Callbacks(j, <<what>>),
         k.power = kernel[j].power,
         Rising(kernel[j]) => Rising(k), Falling(kernel[j]) => Falling(k),
         kernel[j].stop = "False" \/ "resume" \in Elements(kernel[j].posted)
           => k.stop = "False" \/ "resume" \in Elements(k.posted)
  PROVE  AllInformed'
<1>1. /\ events \in Seq(Callback) /\ kernel' \in [Interface -> Kernel] /\ kernel'[j] = k
      /\ \A i \in Interface \ {j} : kernel'[i] = kernel[i]
      /\ LastSays(events, j, kernel[j].power)
  BY Parts DEF AllInformed, Informed
<1>2. \E t \in Seq(Callback) :
        /\ events' = events \o t /\ \A c \in Elements(t) : c.interface = j
        /\ Silent(t, j, PowerChange)
  <2>1. CASE UNCHANGED events
    <3>1. <<>> \in Seq(Callback) /\ Elements(<<>>) = {} /\ events \o <<>> = events
      BY <1>1, EmptySeq, ConcatEmptySeq DEF Elements
    <3> QED
      BY <2>1, <3>1 DEF Silent
  <2>2. ASSUME NEW what \in {"started", "error"}, events' = events \o Callbacks(j, <<what>>)
        PROVE  \E t \in Seq(Callback) :
                 /\ events' = events \o t /\ \A c \in Elements(t) : c.interface = j
                 /\ Silent(t, j, PowerChange)
    <3>1. what \in What /\ what \notin PowerChange
      BY DEF What, PowerChange
    <3>2. <<what>> \in Seq(What) /\ Elements(<<what>>) = {what}
      BY <3>1, HeldByFew
    <3>3. /\ Callbacks(j, <<what>>) \in Seq(Callback)
          /\ \A c \in Elements(Callbacks(j, <<what>>)) : c.interface = j /\ c.what \in {what}
      BY <3>2, CallbacksHeld
    <3>4. Silent(Callbacks(j, <<what>>), j, PowerChange)
      BY <3>1, <3>3 DEF Silent, Tells
    <3> QED
      BY <2>2, <3>3, <3>4
  <2> QED
    BY <2>1, <2>2
<1>3. PICK t \in Seq(Callback) :
        /\ events' = events \o t /\ \A c \in Elements(t) : c.interface = j
        /\ Silent(t, j, PowerChange)
  BY <1>2
<1>4. LastSays(events', j, kernel'[j].power)
  BY <1>1, <1>3, SaysNothingMore
<1> QED
  BY <1>1, <1>3, <1>4, KernelInforms

LEMMA CallInforms ==
  ASSUME IInv, AllInformed, NEW j \in Interface, KernelRuns(j)
  PROVE  AllInformed'
<1> DEFINE call == Head(kernel[j].posted)
           k == [kernel[j] EXCEPT !.posted = Tail(@)]
<1>1. /\ kernel[j].posted # <<>> /\ UNCHANGED <<world, status, ranOn>>
      /\ \/ call = "start" /\ RunsStart(j, k)
         \/ call = "on" /\ RunsPower(j, k, "True", "GPON")
         \/ call = "off" /\ RunsPower(j, k, "False", "GPOFF")
         \/ call = "stop" /\ RunsEmergencyStop(j, k)
         \/ call = "resume" /\ RunsResume(j, k)
  BY DEF KernelRuns
<1>2. /\ k \in Kernel /\ k.power = kernel[j].power /\ k.queue = kernel[j].queue
      /\ Elements(kernel[j].posted) = Elements(k.posted) \cup {call}
  BY <1>1, NextCall
<1>3. k.stop = kernel[j].stop
  BY Parts DEF Kernel
<1>4. "GPON" \in Message /\ "GPOFF" \in Message /\ "IDLE" \in Message
  BY DEF Message
<1> HIDE DEF k, call
<1>5. /\ Rising(kernel[j]) => Rising(k) \/ call = "on"
      /\ Falling(kernel[j]) => Falling(k) \/ call = "off"
      /\ kernel[j].stop = "False" \/ "resume" \in Elements(kernel[j].posted)
           => k.stop = "False" \/ "resume" \in Elements(k.posted) \/ call = "resume"
  BY <1>2, <1>3 DEF Rising, Falling
<1>6. ASSUME NEW message \in Message, NEW r, r = [k EXCEPT !.queue = Append(@, message)]
      PROVE  /\ r \in Kernel /\ r.power = k.power /\ r.posted = k.posted /\ r.stop = k.stop
             /\ Elements(r.queue) = Elements(k.queue) \cup {message}
  <2>1. r.stop = k.stop
    BY <1>2, <1>6 DEF Kernel
  <2> QED
    BY <1>2, <1>6, <2>1, Queued
<1>10. CASE call = "start" /\ RunsStart(j, k)
  <2>1. /\ \E what \in {"started", "error"} : events' = events \o Callbacks(j, <<what>>)
        /\ kernel' = [kernel EXCEPT ![j] = k]
    BY <1>10 DEF RunsStart
  <2> QED
    BY <1>1, <1>2, <1>5, <1>10, <2>1, QuietKernelInforms
<1>11. CASE call = "on" /\ RunsPower(j, k, "True", "GPON")
  <2> DEFINE r == IF k.power = "True" THEN k ELSE [k EXCEPT !.queue = Append(@, "GPON")]
  <2>1. kernel' = [kernel EXCEPT ![j] = r] /\ UNCHANGED events
    BY <1>11 DEF RunsPower
  <2>2. CASE k.power = "True"
    <3>1. r = k /\ Rising(k)
      BY <2>2 DEF Rising
    <3> QED
      BY <1>1, <1>2, <1>5, <1>11, <2>1, <3>1, QuietKernelInforms
  <2>3. CASE k.power # "True"
    <3>1. /\ r \in Kernel /\ r.power = k.power /\ r.posted = k.posted /\ r.stop = k.stop
          /\ Elements(r.queue) = Elements(k.queue) \cup {"GPON"}
      BY <1>4, <1>6, <2>3
    <3> HIDE DEF r
    <3>2. Rising(r) /\ (Falling(k) => Falling(r))
      BY <3>1 DEF Rising, Falling
    <3> QED
      BY <1>1, <1>2, <1>5, <1>11, <2>1, <3>1, <3>2, QuietKernelInforms
  <2> QED
    BY <2>2, <2>3
<1>12. CASE call = "off" /\ RunsPower(j, k, "False", "GPOFF")
  <2> DEFINE r == IF k.power = "False" THEN k ELSE [k EXCEPT !.queue = Append(@, "GPOFF")]
  <2>1. kernel' = [kernel EXCEPT ![j] = r] /\ UNCHANGED events
    BY <1>12 DEF RunsPower
  <2>2. CASE k.power = "False"
    <3>1. r = k /\ Falling(k)
      BY <2>2 DEF Falling
    <3> QED
      BY <1>1, <1>2, <1>5, <1>12, <2>1, <3>1, QuietKernelInforms
  <2>3. CASE k.power # "False"
    <3>1. /\ r \in Kernel /\ r.power = k.power /\ r.posted = k.posted /\ r.stop = k.stop
          /\ Elements(r.queue) = Elements(k.queue) \cup {"GPOFF"}
      BY <1>4, <1>6, <2>3
    <3> HIDE DEF r
    <3>2. Falling(r) /\ (Rising(k) => Rising(r))
      BY <3>1 DEF Rising, Falling
    <3> QED
      BY <1>1, <1>2, <1>5, <1>12, <2>1, <3>1, <3>2, QuietKernelInforms
  <2> QED
    BY <2>2, <2>3
<1>13. CASE call = "stop" /\ RunsEmergencyStop(j, k)
  <2> DEFINE r == IF k.stop = "True" THEN k ELSE [k EXCEPT !.queue = Append(@, "IDLE")]
  <2>1. kernel' = [kernel EXCEPT ![j] = r] /\ UNCHANGED events
    BY <1>13 DEF RunsEmergencyStop
  <2>2. CASE k.stop = "True"
    <3>1. r = k
      BY <2>2
    <3> QED
      BY <1>1, <1>2, <1>5, <1>13, <2>1, <3>1, QuietKernelInforms
  <2>3. CASE k.stop # "True"
    <3>1. /\ r \in Kernel /\ r.power = k.power /\ r.posted = k.posted /\ r.stop = k.stop
          /\ Elements(r.queue) = Elements(k.queue) \cup {"IDLE"}
      BY <1>4, <1>6, <2>3
    <3> HIDE DEF r
    <3>2. (Rising(k) => Rising(r)) /\ (Falling(k) => Falling(r))
      BY <3>1 DEF Rising, Falling
    <3> QED
      BY <1>1, <1>2, <1>5, <1>13, <2>1, <3>1, <3>2, QuietKernelInforms
  <2> QED
    BY <2>2, <2>3
<1>14. CASE call = "resume" /\ RunsResume(j, k)
  <2> DEFINE r == [k EXCEPT !.stop = "False"]
  <2>1. kernel' = [kernel EXCEPT ![j] = r] /\ UNCHANGED events
    BY <1>14 DEF RunsResume
  <2>2. r \in Kernel
    BY <1>2 DEF Kernel, TriState
  <2>3. r.power = k.power /\ r.posted = k.posted /\ r.queue = k.queue /\ r.stop = "False"
    BY <1>2 DEF Kernel
  <2> HIDE DEF r
  <2>4. (Rising(k) => Rising(r)) /\ (Falling(k) => Falling(r))
    BY <2>3 DEF Rising, Falling
  <2> QED
    BY <1>1, <1>2, <1>5, <1>14, <2>1, <2>2, <2>3, <2>4, QuietKernelInforms
<1> QED
  BY <1>1, <1>10, <1>11, <1>12, <1>13, <1>14

-----------------------------------------------------------------------------
(* Messages on the bus *)

LEMMA FewCallbacks ==
  ASSUME NEW j \in Interface, NEW what \in What
  PROVE  /\ Callbacks(j, <<>>) = <<>>
         /\ Callbacks(j, <<what>>) = <<[interface |-> j, live |-> TRUE, what |-> what]>>
<1>1. Len(<<>>) = 0 /\ 1 .. 0 = {}
  OBVIOUS
<1>2. Callbacks(j, <<>>) = <<>>
  <2>1. Callbacks(j, <<>>) \in Seq(Callback)
    BY HeldByFew, CallbacksHeld
  <2>2. Len(Callbacks(j, <<>>)) = 0
    BY <1>1 DEF Callbacks
  <2> QED
    BY <2>1, <2>2, EmptySeq
<1> DEFINE c == [interface |-> j, live |-> TRUE, what |-> what]
<1>3. Callbacks(j, <<what>>) = <<c>>
  <2>1. Len(<<what>>) = 1 /\ <<what>>[1] = what /\ 1 .. 1 = {1} /\ <<what>> \in Seq(What)
    OBVIOUS
  <2>2. Callbacks(j, <<what>>) \in Seq(Callback)
    BY <2>1, CallbacksHeld
  <2>3. Len(Callbacks(j, <<what>>)) = 1 /\ Callbacks(j, <<what>>)[1] = c
    <3>1. Callbacks(j, <<what>>) = [n \in 1 .. 1 |-> [interface |-> j, live |-> TRUE, what |-> <<what>>[n]]]
      BY <2>1 DEF Callbacks
    <3>2. DOMAIN Callbacks(j, <<what>>) = 1 .. 1 /\ 1 \in 1 .. 1
      BY <3>1
    <3>3. Callbacks(j, <<what>>)[1] = c
      BY <2>1, <3>1, <3>2
    <3>4. DOMAIN Callbacks(j, <<what>>) = 1 .. Len(Callbacks(j, <<what>>)) /\ Len(Callbacks(j, <<what>>)) \in Nat
      BY <2>2, LenProperties
    <3>5. 1 \in 1 .. Len(Callbacks(j, <<what>>)) /\ Len(Callbacks(j, <<what>>)) \in 1 .. 1
      BY <3>2, <3>4
    <3> QED
      BY <3>3, <3>5
  <2>4. c \in Callback
    BY DEF Callback
  <2> HIDE DEF c
  <2>5. <<c>> \in Seq(Callback) /\ Len(<<c>>) = 1 /\ <<c>>[1] = c
    BY <2>4
  <2>6. \A n \in 1 .. 1 : Callbacks(j, <<what>>)[n] = <<c>>[n]
    BY <2>3, <2>5
  <2> QED
    BY <2>2, <2>3, <2>5, <2>6, SeqEqual
<1> QED
  BY <1>2, <1>3

\* What the receiving kernel k becomes, and what it tells of it.
LEMMA ReceivedTells ==
  ASSUME NEW k \in Kernel, NEW message \in Message, NEW j \in Interface, NEW s \in Seq(Callback),
         LastSays(s, j, k.power)
  PROVE  LET r == received(k, message)
             t == Callbacks(j, CallbacksOf(k, message))
         IN  /\ t \in Seq(Callback) /\ \A c \in Elements(t) : c.interface = j
             /\ LastSays(s \o t, j, r.power)
             /\ Silent(t, j, PowerChange) => r.power = k.power
             /\ Silent(t, j, {"idle"}) => r.stop = k.stop
<1> DEFINE r == received(k, message)
           says(what) == [interface |-> j, live |-> TRUE, what |-> what]
           t == Callbacks(j, CallbacksOf(k, message))
<1>1. ASSUME CallbacksOf(k, message) = <<>>, r.power = k.power, r.stop = k.stop
      PROVE  /\ t \in Seq(Callback) /\ \A c \in Elements(t) : c.interface = j
             /\ LastSays(s \o t, j, r.power)
             /\ Silent(t, j, PowerChange) => r.power = k.power
             /\ Silent(t, j, {"idle"}) => r.stop = k.stop
  <2>1. t = <<>>
    <3>1. "idle" \in What
      BY DEF What
    <3> QED
      BY <1>1, <3>1, FewCallbacks
  <2>2. <<>> \in Seq(Callback) /\ Elements(<<>>) = {}
    BY EmptySeq DEF Elements
  <2>3. Silent(<<>>, j, PowerChange)
    BY <2>2 DEF Silent
  <2> HIDE DEF r, t
  <2>4. LastSays(s \o t, j, r.power)
    BY <1>1, <2>1, <2>2, <2>3, SaysNothingMore
  <2> QED
    BY <1>1, <2>1, <2>2, <2>4
<1>2. ASSUME NEW what \in What, CallbacksOf(k, message) = <<what>>
      PROVE  t = <<says(what)>> /\ says(what) \in Callback /\ t \in Seq(Callback) /\ Elements(t) = {says(what)}
  <2>1. t = <<says(what)>>
    BY <1>2, FewCallbacks
  <2>2. says(what) \in Callback
    BY DEF Callback
  <2> HIDE DEF t, says
  <2> QED
    BY <2>1, <2>2, HeldByFew
<1>3. "powerOn" \in What /\ "powerOff" \in What /\ "idle" \in What
  BY DEF What
<1>4. ASSUME NEW what \in PowerChange, CallbacksOf(k, message) = <<what>>,
             r.power = IF what = "powerOn" THEN "True" ELSE "False", r.stop = k.stop
      PROVE  /\ t \in Seq(Callback) /\ \A c \in Elements(t) : c.interface = j
             /\ LastSays(s \o t, j, r.power)
             /\ Silent(t, j, PowerChange) => r.power = k.power
             /\ Silent(t, j, {"idle"}) => r.stop = k.stop
  <2>1. /\ t = <<says(what)>> /\ says(what) \in Callback /\ t \in Seq(Callback)
        /\ Elements(t) = {says(what)}
    BY <1>2, <1>3, <1>4 DEF PowerChange
  <2>2. says(what).interface = j /\ says(what).what = what /\ Tells(says(what), j, PowerChange)
    BY DEF Tells
  <2> HIDE DEF r, t, says
  <2>3. LastSays(s \o t, j, r.power)
    BY <1>4, <2>1, <2>2, SaysLast
  <2>4. ~Silent(t, j, PowerChange)
    BY <2>1, <2>2 DEF Silent
  <2> QED
    BY <1>4, <2>1, <2>2, <2>3, <2>4
<1>5. CASE message = "GPON"
  <2>1. r = [k EXCEPT !.power = "True"]
    BY <1>5 DEF received
  <2>2. r.power = "True" /\ r.stop = k.stop
    BY <2>1 DEF Kernel
  <2>3. CASE k.power = "True"
    <3>1. CallbacksOf(k, message) = <<>>
      BY <1>5, <2>3 DEF CallbacksOf
    <3> HIDE DEF r, t
    <3> QED
      BY <1>1, <2>2, <2>3, <3>1 DEF r, t
  <2>4. CASE k.power # "True"
    <3>1. CallbacksOf(k, message) = <<"powerOn">> /\ "powerOn" \in PowerChange
      BY <1>5, <2>4 DEF CallbacksOf, PowerChange
    <3> HIDE DEF r, t
    <3> QED
      BY <1>4, <2>2, <3>1 DEF r, t
  <2> QED
    BY <2>3, <2>4
<1>6. CASE message = "GPOFF"
  <2>1. r = [k EXCEPT !.power = "False"]
    BY <1>6 DEF received
  <2>2. r.power = "False" /\ r.stop = k.stop
    BY <2>1 DEF Kernel
  <2>3. CASE k.power = "False"
    <3>1. CallbacksOf(k, message) = <<>>
      BY <1>6, <2>3 DEF CallbacksOf
    <3> HIDE DEF r, t
    <3> QED
      BY <1>1, <2>2, <2>3, <3>1 DEF r, t
  <2>4. CASE k.power # "False"
    <3>1. CallbacksOf(k, message) = <<"powerOff">> /\ "powerOff" \in PowerChange
      BY <1>6, <2>4 DEF CallbacksOf, PowerChange
    <3> HIDE DEF r, t
    <3> QED
      BY <1>4, <2>2, <3>1 DEF r, t
  <2> QED
    BY <2>3, <2>4
<1>7. CASE message = "IDLE"
  <2>1. r = [k EXCEPT !.stop = "True"]
    BY <1>7 DEF received
  <2>2. r.power = k.power /\ r.stop = "True"
    BY <2>1 DEF Kernel
  <2>3. CASE k.stop = "True"
    <3>1. CallbacksOf(k, message) = <<>>
      BY <1>7, <2>3 DEF CallbacksOf
    <3> HIDE DEF r, t
    <3> QED
      BY <1>1, <2>2, <2>3, <3>1 DEF r, t
  <2>4. CASE k.stop # "True"
    <3>1. CallbacksOf(k, message) = <<"idle">>
      BY <1>7, <2>4 DEF CallbacksOf
    <3>2. /\ t = <<says("idle")>> /\ t \in Seq(Callback) /\ Elements(t) = {says("idle")}
      BY <1>2, <1>3, <3>1
    <3>3. /\ says("idle").interface = j /\ ~Tells(says("idle"), j, PowerChange)
          /\ Tells(says("idle"), j, {"idle"})
      BY DEF Tells, PowerChange
    <3> HIDE DEF r, t, says
    <3>4. Silent(t, j, PowerChange) /\ ~Silent(t, j, {"idle"})
      BY <3>2, <3>3 DEF Silent
    <3>5. LastSays(s \o t, j, r.power)
      BY <2>2, <3>2, <3>4, SaysNothingMore
    <3> QED
      BY <2>2, <3>2, <3>3, <3>4, <3>5 DEF r, t
  <2> QED
    BY <2>3, <2>4
<1> QED
  BY <1>5, <1>6, <1>7 DEF Message

LEMMA CarriedInforms ==
  ASSUME IInv, AllInformed, NEW j \in Interface, NEW message \in Message, NEW k \in Kernel,
         k.live = kernel[j].live, k.power = kernel[j].power, k.posted = kernel[j].posted,
         k.stop = kernel[j].stop,
         Elements(kernel[j].queue) \subseteq Elements(k.queue) \cup {message},
         Carried(j, k, message), UNCHANGED <<world, status, ranOn>>
  PROVE  AllInformed'
<1>1. /\ kernel' = [kernel EXCEPT ![j] = IF k.live THEN received(k, message) ELSE k]
      /\ events' = IF k.live THEN events \o Callbacks(j, CallbacksOf(k, message)) ELSE events
  BY DEF Carried
<1>2. events \in Seq(Callback) /\ kernel \in [Interface -> Kernel] /\ LastSays(events, j, k.power)
  BY Parts DEF AllInformed, Informed
<1>3. CASE ~k.live
  <2>1. kernel' = [kernel EXCEPT ![j] = k] /\ events' = events
    BY <1>1, <1>3
  <2> SUFFICES ASSUME NEW i \in Interface PROVE Informed(i, kernel[i], events)'
    BY DEF AllInformed
  <2>2. CASE i = j
    <3>1. status'[i] # "Online"
      BY <1>3, <2>2, Parts DEF StatusTellsKernel
    <3>2. LastSays(events', i, kernel'[i].power)
      BY <1>2, <2>1, <2>2
    <3> QED
      BY <3>1, <3>2, InformedNext
  <2>3. CASE i # j
    <3>1. kernel'[i] = kernel[i] /\ Informed(i, kernel[i], events)
      BY <1>2, <2>1, <2>3 DEF AllInformed
    <3> QED
      BY <2>1, <3>1, InformedNext DEF Informed, PowerComes
  <2> QED
    BY <2>2, <2>3
<1>4. CASE k.live
  <2> DEFINE r == received(k, message)
             t == Callbacks(j, CallbacksOf(k, message))
  <2>1. kernel' = [kernel EXCEPT ![j] = r] /\ events' = events \o t
    BY <1>1, <1>4
  <2>2. /\ r \in Kernel /\ r.posted = k.posted /\ r.queue = k.queue
        /\ message = "GPON" => r.power = "True"
        /\ message = "GPOFF" => r.power = "False"
    BY ReceivedKeeps
  <2>3. /\ t \in Seq(Callback) /\ \A c \in Elements(t) : c.interface = j
        /\ LastSays(events \o t, j, r.power)
        /\ Silent(t, j, PowerChange) => r.power = k.power
        /\ Silent(t, j, {"idle"}) => r.stop = k.stop
    BY <1>2, ReceivedTells
  <2> HIDE DEF r, t
  <2>4. /\ kernel' \in [Interface -> Kernel] /\ kernel'[j] = r
        /\ \A i \in Interface \ {j} : kernel'[i] = kernel[i]
    BY <1>2, <2>1, <2>2
  <2>5. ASSUME r.power = k.power
        PROVE  /\ Rising(kernel[j]) => Rising(r)
               /\ Falling(kernel[j]) => Falling(r)
    BY <2>2, <2>5 DEF Rising, Falling
  <2>6. /\ Silent(t, j, PowerChange) =>
             /\ Rising(kernel[j]) => Rising(kernel'[j])
             /\ Falling(kernel[j]) => Falling(kernel'[j])
        /\ LastSays(events', j, kernel'[j].power)
    BY <2>1, <2>3, <2>4, <2>5
  <2>7. Silent(t, j, {"idle"}) /\ (kernel[j].stop = "False" \/ "resume" \in Elements(kernel[j].posted))
          => kernel'[j].stop = "False" \/ "resume" \in Elements(kernel'[j].posted)
    BY <2>2, <2>3, <2>4
  <2> QED
    BY <2>1, <2>3, <2>4, <2>6, <2>7, KernelInforms
<1> QED
  BY <1>3, <1>4

LEMMA BusInforms ==
  ASSUME IInv, AllInformed, NEW j \in Interface, BusCarries(j) \/ OtherDevice(j)
  PROVE  AllInformed'
<1>1. kernel[j] \in Kernel /\ kernel[j].queue \in Seq(Message)
  BY Parts DEF Kernel
<1>2. CASE BusCarries(j)
  <2> DEFINE message == Head(kernel[j].queue)
             k == [kernel[j] EXCEPT !.queue = Tail(@)]
  <2>1. /\ kernel[j].queue # <<>> /\ Carried(j, k, message) /\ UNCHANGED <<world, status, ranOn>>
    BY <1>2 DEF BusCarries
  <2>2. /\ message \in Message /\ Tail(kernel[j].queue) \in Seq(Message)
        /\ Elements(kernel[j].queue) = Elements(Tail(kernel[j].queue)) \cup {message}
    BY <1>1, <2>1, HeldByTail
  <2>3. k \in Kernel /\ k.queue = Tail(kernel[j].queue)
    BY <1>1, <2>2 DEF Kernel
  <2>4. /\ k.live = kernel[j].live /\ k.power = kernel[j].power /\ k.posted = kernel[j].posted
        /\ k.stop = kernel[j].stop
    BY <1>1 DEF Kernel
  <2>5. Elements(kernel[j].queue) \subseteq Elements(k.queue) \cup {message}
    BY <2>2, <2>3
  <2> HIDE DEF k, message
  <2> QED
    BY <2>1, <2>2, <2>3, <2>4, <2>5, CarriedInforms
<1>3. CASE OtherDevice(j)
  <2>1. PICK message \in Message : Carried(j, kernel[j], message)
    BY <1>3 DEF OtherDevice
  <2>2. UNCHANGED <<world, status, ranOn>>
    BY <1>3 DEF OtherDevice
  <2> QED
    BY <1>1, <2>1, <2>2, CarriedInforms
<1> QED
  BY <1>2, <1>3

LEMMA FailureInforms ==
  ASSUME IInv, AllInformed, NEW j \in Interface, Fails(j)
  PROVE  AllInformed'
<1>1. /\ events' = events \o Callbacks(j, <<"error">>) /\ UNCHANGED <<world, status, kernel, ranOn>>
  BY DEF Fails
<1>2. kernel[j] \in Kernel /\ kernel' = [kernel EXCEPT ![j] = kernel[j]]
  BY <1>1, Parts
<1> QED
  BY <1>1, <1>2, QuietKernelInforms

-----------------------------------------------------------------------------
(* Callbacks *)

LEMMA StartInforms ==
  ASSUME IInv, AllInformed, events # <<>>, NEW j \in Interface, kernel[j].live, OnStarted(j),
         \A i \in Interface : Informed(i, kernel[i], Tail(events))
  PROVE  AllInformed'
<1> DEFINE a == IF world.power THEN "on" ELSE "off"
           b == IF world.run THEN "resume" ELSE "stop"
           calls == <<a, b>>
<1>1. calls \in Seq(Call) /\ Elements(calls) = {a, b}
  <2>1. a \in Call /\ b \in Call
    BY DEF Call
  <2> HIDE DEF a, b
  <2> QED
    BY <2>1, HeldByTwo
<1>2. /\ kernel' = [kernel EXCEPT ![j] = post(kernel[j], calls)]
      /\ status' = [status EXCEPT ![j] = "Online"]
      /\ events' = Tail(events) /\ UNCHANGED world /\ ranOn' = ranOn \ {j}
  BY DEF OnStarted
<1>3. /\ (world.power => a = "on") /\ (~world.power => a = "off")
      /\ world.run => b = "resume"
  OBVIOUS
<1> HIDE DEF calls, a, b
<1>4. /\ kernel[j] \in Kernel /\ post(kernel[j], calls) \in Kernel
      /\ post(kernel[j], calls).power = kernel[j].power
      /\ Elements(post(kernel[j], calls).posted) = Elements(kernel[j].posted) \cup {a, b}
  <2>1. kernel[j] \in Kernel
    BY Parts
  <2> DEFINE p == post(kernel[j], calls)
  <2>2. /\ p \in Kernel /\ p.power = kernel[j].power
        /\ Elements(p.posted) =
             Elements(kernel[j].posted) \cup (IF kernel[j].live THEN Elements(calls) ELSE {})
    BY <1>1, <2>1, PostKeeps
  <2> QED
    BY <1>1, <2>1, <2>2
<1> SUFFICES ASSUME NEW i \in Interface PROVE Informed(i, kernel[i], events)'
  BY DEF AllInformed
<1>5. Informed(i, kernel[i], Tail(events))
  OBVIOUS
<1>6. CASE i = j
  <2>1. kernel'[i] = post(kernel[j], calls)
    BY <1>2, <1>6, Parts
  <2>2. IF world'.power THEN Rising(kernel'[i]) ELSE Falling(kernel'[i])
    BY <1>2, <1>3, <1>4, <2>1 DEF Rising, Falling
  <2>3. world'.run => "resume" \in Elements(kernel'[i].posted)
    BY <1>2, <1>3, <1>4, <2>1
  <2>4. LastSays(events', i, kernel'[i].power)
    BY <1>2, <1>4, <1>5, <1>6, <2>1 DEF Informed
  <2> QED
    BY <2>2, <2>3, <2>4, InformedNext
<1>7. CASE i # j
  <2>1. kernel'[i] = kernel[i] /\ status'[i] = status[i] /\ (i \in ranOn => i \in ranOn')
    BY <1>2, <1>7, Parts
  <2>2. events' = Tail(events) /\ UNCHANGED world
    BY <1>2
  <2> QED
    BY <1>5, <2>1, <2>2, InformedNext DEF Informed, PowerComes
<1> QED
  BY <1>6, <1>7

LEMMA FollowInforms ==
  ASSUME IInv, AllInformed, events # <<>>,
         NEW e \in Event, NEW there \in BOOLEAN, WorldFollows(e, there),
         \/ Head(events).what = "powerOn" /\ e = "PowerOn" /\ there = world.power
         \/ Head(events).what = "powerOff" /\ e = "PowerOff" /\ there = ~world.power
         \/ Head(events).what = "idle" /\ e = "Stop" /\ there = ~world.run
  PROVE  AllInformed'
<1> SUFFICES ASSUME NEW i \in Interface PROVE Informed(i, kernel[i], events)'
  BY DEF AllInformed
<1>1. events' = Tail(events) /\ UNCHANGED status
  BY DEF WorldFollows
<1>2. /\ Tells(Head(events), i, PowerChange) => e \in {"PowerOn", "PowerOff"}
      /\ Tells(Head(events), i, {"idle"}) => e = "Stop"
      /\ e # "Run"
  BY DEF Tells, PowerChange
<1>3. CASE ~there
  <2>1. event(e)
    BY <1>3 DEF WorldFollows
  <2> QED
    BY <1>1, <1>2, <2>1, EventInforms
<1>4. CASE there
  <2>1. UNCHANGED <<world, kernel, ranOn>>
    BY <1>4 DEF WorldFollows
  <2>2. events \in Seq(Callback) /\ Informed(i, kernel[i], events)
    BY Parts DEF AllInformed
  <2>3. LastSays(Tail(events), i, kernel[i].power)
    BY <2>2, SaysAfterFirst DEF Informed
  <2>4. ASSUME status[i] = "Online", Silent(Tail(events), i, PowerChange)
        PROVE  PowerComes(i, kernel[i])
    <3>1. CASE Tells(Head(events), i, PowerChange)
      <4>1. kernel[i].power = IF Head(events).what = "powerOn" THEN "True" ELSE "False"
        BY <2>2, <2>4, <3>1, SaysAfterFirst DEF Informed
      <4>2. CASE Head(events).what = "powerOn" /\ world.power
        <5>1. kernel[i].power = "True"
          BY <4>1, <4>2
        <5> QED
          BY <4>2, <5>1 DEF PowerComes, Rising
      <4>3. CASE Head(events).what = "powerOff" /\ ~world.power
        <5>1. kernel[i].power = "False"
          BY <4>1, <4>3
        <5> QED
          BY <4>3, <5>1 DEF PowerComes, Falling
      <4> QED
        BY <1>4, <3>1, <4>2, <4>3 DEF Tells, PowerChange
    <3>2. CASE ~Tells(Head(events), i, PowerChange)
      BY <2>2, <2>4, <3>2, SilentAfterFirst DEF Informed
    <3> QED
      BY <3>1, <3>2
  <2>5. ASSUME status[i] = "Online", world.run, Silent(Tail(events), i, {"idle"})
        PROVE  kernel[i].stop = "False" \/ "resume" \in Elements(kernel[i].posted)
    <3>1. ~Tells(Head(events), i, {"idle"})
      BY <1>4, <2>5 DEF Tells
    <3> QED
      BY <2>2, <2>5, <3>1, SilentAfterFirst DEF Informed
  <2> QED
    BY <1>1, <2>1, <2>3, <2>4, <2>5, InformedNext DEF PowerComes
<1> QED
  BY <1>3, <1>4

LEMMA CallbackInforms ==
  ASSUME IInv, AllInformed, CallbackRuns \/ OrphanRuns
  PROVE  AllInformed'
<1> DEFINE j == Head(events).interface
           what == Head(events).what
<1>1. /\ events # <<>>
      /\ \/ Called(j, what) /\ (what = "started" => kernel[j].live)
         \/ ~Head(events).live /\ events' = Tail(events) /\ UNCHANGED <<world, status, kernel, ranOn>>
  BY FirstCallback DEF CallbackRuns, OrphanRuns
<1>2. j \in Interface /\ Tail(events) \in Seq(Callback)
  BY <1>1, FirstCallback
<1>3. ASSUME NEW i \in Interface, what \in {"started", "error"} \/ ~Head(events).live
      PROVE  Informed(i, kernel[i], Tail(events))
  <2>1. ~Tells(Head(events), i, PowerChange) /\ ~Tells(Head(events), i, {"idle"})
    BY <1>3 DEF Tells, PowerChange
  <2> QED
    BY <1>1, <2>1, FirstLeaves
<1>4. CASE ~Head(events).live /\ events' = Tail(events) /\ UNCHANGED <<world, status, kernel, ranOn>>
  <2> SUFFICES ASSUME NEW i \in Interface PROVE Informed(i, kernel[i], events)'
    BY DEF AllInformed
  <2>1. Informed(i, kernel[i], Tail(events))
    BY <1>3, <1>4
  <2> QED
    BY <1>4, <2>1, InformedNext DEF Informed, PowerComes
<1>5. CASE what = "started" /\ OnStarted(j) /\ kernel[j].live
  BY <1>1, <1>2, <1>3, <1>5, StartInforms
<1>6. CASE what = "error" /\ OnError(j)
  <2>1. /\ status' = [status EXCEPT ![j] = "Error"]
        /\ Closed({j}, Tail(events)) /\ UNCHANGED <<world, ranOn>>
    BY <1>6 DEF OnError
  <2>2. \A i \in Interface : IF i \in {j} THEN status'[i] \in {"Offline", "Error"}
                                          ELSE status'[i] = status[i]
    BY <2>1, Parts
  <2>3. {j} \in SUBSET Interface /\ \A i \in Interface \ {j} : Informed(i, kernel[i], Tail(events))
    BY <1>2, <1>3, <1>6
  <2> HIDE DEF j, what
  <2> QED
    BY <1>2, <2>1, <2>2, <2>3, CloseInforms
<1>7. world.power \in BOOLEAN /\ world.run \in BOOLEAN
  BY Parts DEF World
<1>8. CASE what = "powerOn" /\ WorldFollows("PowerOn", world.power)
  BY <1>1, <1>7, <1>8, FollowInforms DEF Event
<1>9. CASE what = "powerOff" /\ WorldFollows("PowerOff", ~world.power)
  BY <1>1, <1>7, <1>9, FollowInforms DEF Event
<1>10. CASE what = "idle" /\ WorldFollows("Stop", ~world.run)
  BY <1>1, <1>7, <1>10, FollowInforms DEF Event
<1> QED
  BY <1>1, <1>4, <1>5, <1>6, <1>8, <1>9, <1>10 DEF Called

-----------------------------------------------------------------------------
(* The user *)

LEMMA UserInforms ==
  ASSUME IInv, AllInformed, UserCalls
  PROVE  AllInformed'
<1> SUFFICES ASSUME NEW i \in Interface PROVE Informed(i, kernel[i], events)'
  BY DEF AllInformed
<1>1. UNCHANGED <<status, events>>
  BY DEF UserCalls
<1>2. \E e \in {"PowerOn", "PowerOff", "Stop", "Run"} : event(e)
  BY DEF UserCalls, PowerOn, PowerOff, Stop, Run
<1> QED
  BY <1>1, <1>2, EventInforms DEF Event

LEMMA OnlineInforms ==
  ASSUME IInv, AllInformed, GoOnline \/ GoOffline \/ \E i \in Interface : ToggleOnline(i)
  PROVE  AllInformed'
<1>0. world \in World /\ events \in Seq(Callback)
  BY Parts
<1>1. CASE GoOnline
  <2>1. /\ Opened(Interface) /\ UNCHANGED <<events, ranOn>> /\ Interface \in SUBSET Interface
        /\ world'.power = world.power /\ world'.run = world.run
    BY <1>0, <1>1 DEF GoOnline, World
  <2> QED
    BY <2>1, OpenInforms
<1>2. CASE GoOffline
  <2>1. /\ Closed(Interface, events) /\ UNCHANGED ranOn /\ Interface \in SUBSET Interface
        /\ \A i \in Interface : IF i \in Interface THEN status'[i] \in {"Offline", "Error"}
                                                   ELSE status'[i] = status[i]
        /\ world'.power = world.power /\ world'.run = world.run
    BY <1>0, <1>2 DEF GoOffline, World
  <2> QED
    BY <1>0, <2>1, CloseInforms DEF AllInformed
<1>3. ASSUME NEW j \in Interface, ToggleOnline(j) PROVE AllInformed'
  <2>1. UNCHANGED <<world, ranOn>> /\ {j} \in SUBSET Interface
    BY <1>3 DEF ToggleOnline
  <2>2. CASE ~kernel[j].live /\ Opened({j}) /\ UNCHANGED events
    BY <2>1, <2>2, OpenInforms
  <2>3. CASE kernel[j].live /\ Closed({j}, events) /\ status' = [status EXCEPT ![j] = "Offline"]
    <3>1. \A i \in Interface : IF i \in {j} THEN status'[i] \in {"Offline", "Error"}
                                            ELSE status'[i] = status[i]
      BY <2>3, Parts
    <3> QED
      BY <1>0, <2>1, <2>3, <3>1, CloseInforms DEF AllInformed
  <2> QED
    BY <1>3, <2>2, <2>3 DEF ToggleOnline
<1> QED
  BY <1>1, <1>2, <1>3

-----------------------------------------------------------------------------
(* Theorems *)

LEMMA InformedInit == Init => AllInformed
<1> SUFFICES ASSUME Init, NEW i \in Interface PROVE Informed(i, kernel[i], events)
  BY DEF AllInformed
<1>1. Silent(events, i, PowerChange) /\ status[i] # "Online"
  BY NewKernelIsIdle DEF Init, Silent
<1>2. LastSays(events, i, kernel[i].power)
  BY <1>1, SilenceSays
<1> QED
  BY <1>1, <1>2 DEF Informed

LEMMA InformedStep == IInv /\ AllInformed /\ [Next]_vars => AllInformed'
<1> SUFFICES ASSUME IInv, AllInformed, [Next]_vars PROVE AllInformed'
  OBVIOUS
<1>1. CASE UserCalls
  BY <1>1, UserInforms
<1>2. CASE GoOnline \/ GoOffline \/ \E i \in Interface : ToggleOnline(i)
  BY <1>2, OnlineInforms
<1>3. ASSUME NEW i \in Interface, KernelRuns(i) \/ BusCarries(i) \/ OtherDevice(i) \/ Fails(i)
      PROVE  AllInformed'
  BY <1>3, CallInforms, BusInforms, FailureInforms
<1>4. CASE CallbackRuns \/ OrphanRuns
  BY <1>4, CallbackInforms
<1>5. CASE UNCHANGED vars
  <2>1. UNCHANGED <<world, status, kernel, events, ranOn>>
    BY <1>5 DEF vars
  <2> SUFFICES ASSUME NEW i \in Interface PROVE Informed(i, kernel[i], events)'
    BY DEF AllInformed
  <2>2. Informed(i, kernel[i], events)
    BY DEF AllInformed
  <2> QED
    BY <2>1, <2>2, InformedNext DEF Informed, PowerComes
<1> QED
  BY <1>1, <1>2, <1>3, <1>4, <1>5 DEF Next

LEMMA InformedAlways == Spec => [](IInv /\ AllInformed)
BY InitInvariant, StepInvariant, InformedInit, InformedStep, PTL DEF Spec

LEMMA SettledIsSilent ==
  ASSUME NEW i \in Interface, Settled(i)
  PROVE  /\ status[i] = "Online" /\ kernel[i].posted = <<>> /\ kernel[i].queue = <<>>
         /\ Elements(<<>>) = {} /\ \A whats : Silent(events, i, whats)
BY NewKernelIsIdle DEF Settled, Silent

\* A world that runs has resumed the kernels of its interfaces, whatever stops and resumes are
\* on their way in between, whoever asks for them (RunAgrees).
THEOREM RunsAreResumed == Spec => []RunAgrees
<1>1. IInv /\ AllInformed => RunAgrees
  BY SettledIsSilent DEF AllInformed, Informed, RunAgrees
<1> QED
  BY <1>1, InformedAlways, PTL

\* When nothing is on its way between them, a kernel knows whether its command station gives
\* power, no station gives power to a world without it, and none is without the power the world
\* has unless World::run put it on, which does not ask the interfaces for power (PowerAgrees).
THEOREM PowersAgree == Spec => []PowerAgrees
<1>1. IInv /\ AllInformed => PowerAgrees
  <2> SUFFICES ASSUME IInv, AllInformed, NEW i \in Interface, Settled(i)
               PROVE  /\ (kernel[i].power = "True") = station[i]
                      /\ station[i] = world.power \/ (world.power /\ i \in ranOn)
    BY DEF PowerAgrees
  <2>1. IF world.power THEN kernel[i].power = "True" \/ (i \in ranOn /\ kernel[i].power = "False")
                       ELSE kernel[i].power = "False"
    BY SettledIsSilent DEF AllInformed, Informed, PowerComes, Rising, Falling
  <2>2. kernel[i].live
    BY SettledIsSilent, Parts DEF StatusTellsKernel
  <2>3. kernel[i].power = "True" <=> station[i]
    BY <2>1, <2>2, Parts DEF KernelKnows
  <2>4. station[i] \in BOOLEAN /\ world.power \in BOOLEAN
    BY Parts DEF World
  <2> QED
    BY <2>1, <2>3, <2>4
<1> QED
  BY <1>1, InformedAlways, PTL
=============================================================================
