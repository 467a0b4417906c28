--------------------------- MODULE ProtocolV5Proofs ---------------------------
(***************************************************************************)
(* A v5 connection.  If only the task that logs in sends, one packet after *)
(* the other, the server can read every frame up to the first that is too  *)
(* long for its length field.  However many tasks send, read() returns     *)
(* what the server sent unless a frame came before the key.                *)
(***************************************************************************)
EXTENDS ProtocolV5, DataInduction

-----------------------------------------------------------------------------
(* The sending side *)

\* The calls are serial.
Serial == Senders = {LoginTask}

\* The generator takes a natural number of steps for a frame.
LEMMA StepsType ==
  ASSUME NEW type, NEW size \in Nat
  PROVE  Steps(type, size) \in Nat
  BY DEF Steps, IteratorLimit

\* Sizes are natural numbers.
LEMMA SizesAreNat == \A size \in Sizes \cup {0} : size \in Nat
<1>1. Sizes \subseteq Nat \ {0}
  BY ConstantsOK DEF ConstantsOK
<1> QED BY <1>1

\* A frame begins with no masks.
LEMMA NewFrameType ==
  ASSUME NEW size \in Sizes \cup {0}, NEW from \in Nat
  PROVE  NewFrame(size, from) \in Frame
<1>1. <<>> \in Masks
  BY DEF Masks
<1> QED BY <1>1 DEF NewFrame, Frame

\* A frame's masks are a sequence of sets of states.
LEMMA MaskTypes ==
  ASSUME NEW f \in Frame
  PROVE  /\ Len(f.masks) \in Nat
         /\ \A g \in 1..Len(f.masks) : f.masks[g] \in SUBSET Nat
         /\ Append(f.masks, {}) \in Masks
<1>1. f.masks \in Masks
  BY DEF Frame
<1>2. f.masks \in Seq(SUBSET Nat)
  BY <1>1 DEF Masks
<1>3. {} \in SUBSET Nat
  OBVIOUS
<1>4. Append(f.masks, {}) \in Seq(SUBSET Nat)
  BY <1>2, <1>3, AppendProperties
<1>5. Len(f.masks) \in Nat
  BY <1>2, LenProperties
<1> QED BY <1>2, <1>4, <1>5, ElementOfSeq DEF Masks

\* A connection starts with every variable of its type.
LEMMA InitType == Init => TypeOK
<1> SUFFICES ASSUME Init PROVE TypeOK
  OBVIOUS
<1>1. NewFrame(0, 0) \in Frame
  BY NewFrameType
<1>2. job \in [Senders -> Frame]
  BY <1>1 DEF Init
<1>3. pc \in [Senders -> {"login", "idle", "step", "mask", "length", "type", "lock",
                          "write", "setKey"}]
  BY DEF Init
<1>4. /\ wire \in Seq(Frame) /\ sent \in Seq(Reply)
      /\ fetched \in 0..Len(sent)
  BY DEF Init
<1>5. /\ outState \in Nat /\ inState \in Nat /\ srvState \in Nat
      /\ writer \in Senders \cup {Nobody}
      /\ reader \in {"read", "fetched", "failed", "panicked"}
      /\ reader # "read" => fetched > 0
  BY DEF Init
<1>6. key \in BOOLEAN /\ early \in BOOLEAN
  BY Zenon DEF Init
<1> QED BY <1>2, <1>3, <1>4, <1>5, <1>6, Zenon DEF TypeOK

\* A connection starts in a state of the inductive invariant.
LEMMA InitInv == Serial /\ Init => IInv
<1> SUFFICES ASSUME Serial, Init PROVE IInv
  OBVIOUS
<1>0. LoginTask \in Senders /\ \A s \in Senders : s = LoginTask
  BY ConstantsOK DEF ConstantsOK, Serial
<1>b. writer = Nobody /\ Nobody \notin Senders
  BY ConstantsOK DEF ConstantsOK, Init
<1>1. TypeOK
  BY InitType
<1>2. SerialInv
  BY <1>0, <1>b DEF Init, SerialInv, JobInv, NextStart, LastEnd, Building
<1>3. ServerCanRead
  BY DEF Init, ServerCanRead, KeystreamInOrder
<1> QED BY <1>1, <1>2, <1>3 DEF IInv

\* Every step keeps the types.
LEMMA TypeStep == ASSUME TypeOK, [Next]_vars PROVE TypeOK'
<1> USE DEF TypeOK
<1> USE DEF sendVars, readVars, srvVars, Go
<1>0. ASSUME NEW s \in Senders, NEW f \in Frame, job' = [job EXCEPT ![s] = f]
      PROVE  job' \in [Senders -> Frame]
  BY <1>0
<1>1. ASSUME NEW s \in Senders, StartSend(s) PROVE TypeOK'
  <2>1. PICK size \in Sizes : job' = [job EXCEPT ![s] = NewFrame(size, outState)]
    BY <1>1 DEF StartSend
  <2>3. NewFrame(size, outState) \in Frame
    BY NewFrameType
  <2>4. job' \in [Senders -> Frame]
    BY <2>1, <2>3, <1>0
  <2> QED BY <1>1, <2>4 DEF StartSend
<1>2. ASSUME NEW s \in Senders, StepState(s) PROVE TypeOK'
  <2> DEFINE f == [job[s] EXCEPT !.masks = Append(job[s].masks, {})]
  <2>0. job[s] \in Frame
    OBVIOUS
  <2>1. f \in Frame
    BY <2>0, MaskTypes DEF Frame
  <2>2. job' = [job EXCEPT ![s] = f] \/ job' = job
    BY <1>2 DEF StepState
  <2>3. job' \in [Senders -> Frame]
    BY <2>1, <2>2, <1>0
  <2>4. outState' \in Nat
    BY <1>2 DEF StepState
  <2>5. pc' \in [Senders -> {"login", "idle", "step", "mask", "length", "type", "lock",
                             "write", "setKey"}]
    BY <1>2 DEF StepState
  <2> QED BY <1>2, <2>3, <2>4, <2>5 DEF StepState
<1>3. ASSUME NEW s \in Senders, Mask(s) PROVE TypeOK'
  <2> DEFINE n == Len(job[s].masks)
             m == [job[s].masks EXCEPT ![n] = @ \cup {outState}]
             f == [job[s] EXCEPT !.masks = m]
  <2>0. job[s] \in Frame
    OBVIOUS
  <2>1. job[s].masks \in Masks /\ n \in Nat
    BY <2>0, MaskTypes DEF Frame
  <2>2. m \in Masks
    <3>1. CASE n \in 1..Len(job[s].masks)
      <4>1. job[s].masks[n] \cup {outState} \in SUBSET Nat
        BY <2>0, <3>1, MaskTypes
      <4> HIDE DEF n
      <4> QED BY <2>1, <3>1, <4>1, ExceptSeq DEF Masks
    <3>2. CASE n \notin 1..Len(job[s].masks)
      <4>1. n \notin DOMAIN job[s].masks
        BY <2>1, <3>2, LenProperties DEF Masks
      <4>2. m = job[s].masks
        BY <2>1, <4>1, LenProperties DEF Masks
      <4> QED BY <2>1, <4>2
    <3> QED BY <3>1, <3>2
  <2>3. f \in Frame
    BY <2>2 DEF Frame
  <2>4. job' = [job EXCEPT ![s] = f]
    BY <1>3 DEF Mask
  <2>5. job' \in [Senders -> Frame]
    BY <2>3, <2>4, <1>0
  <2> QED BY <1>3, <2>5 DEF Mask
<1>4. ASSUME NEW s \in Senders, FrameLength(s) PROVE TypeOK'
  <2>0. job[s] \in Frame
    OBVIOUS
  <2>1. U16(job[s].size + IF key THEN 1 ELSE 0) \in Nat
    <3>1. job[s].size \in Nat
      BY <2>0, SizesAreNat DEF Frame
    <3> QED BY <3>1 DEF U16
  <2>2. ASSUME NEW l \in Nat PROVE [job[s] EXCEPT !.length = l] \in Frame
    BY <2>0 DEF Frame
  <2>3. job' = [job EXCEPT ![s] =
                 [job[s] EXCEPT !.length = U16(job[s].size + IF key THEN 1 ELSE 0)]]
    BY <1>4 DEF FrameLength
  <2>4. job' \in [Senders -> Frame]
    BY <2>1, <2>2, <2>3, <1>0
  <2> QED BY <1>4, <2>4 DEF FrameLength
<1>5. ASSUME NEW s \in Senders, TypeByte(s) PROVE TypeOK'
  <2>1. job' \in [Senders -> Frame]
    BY <1>5 DEF TypeByte, Frame
  <2> QED BY <1>5, <2>1 DEF TypeByte
<1>6. ASSUME NEW s \in Senders, LockWriter(s) PROVE TypeOK'
  BY <1>6 DEF LockWriter
<1>7. ASSUME NEW s \in Senders, WriteFrame(s) PROVE TypeOK'
  BY <1>7 DEF WriteFrame
<1>8. ASSUME NEW s \in Senders, SetKey(s) PROVE TypeOK'
  BY <1>8 DEF SetKey
<1>9. CASE Fetch
  BY <1>9 DEF Fetch
<1>10. CASE Decode
  <2>1. sent[fetched] \in Reply
    BY <1>10, ElementOfSeq DEF Decode
  <2>2. Steps(sent[fetched].type, sent[fetched].size) \in Nat
    BY <2>1, ConstantsOK, StepsType DEF Reply, ConstantsOK
  <2>3. inState' \in Nat
    BY <1>10, <2>2 DEF Decode
  <2>4. early' \in BOOLEAN
    BY <1>10, Zenon DEF Decode
  <2>5. reader' \in {"read", "failed"}
    BY <1>10 DEF Decode
  <2> QED BY <1>10, <2>3, <2>4, <2>5 DEF Decode
<1>11. CASE DecodeRefused
  BY <1>11 DEF DecodeRefused
<1>12. CASE Pop
  BY <1>12 DEF Pop
<1>13. CASE ServerSend
  BY <1>13, ConstantsOK, StepsType DEF ConstantsOK, ServerSend, Reply
<1>14. CASE UNCHANGED vars
  BY <1>14 DEF vars
<1> QED BY <1>1, <1>2, <1>3, <1>4, <1>5, <1>6, <1>7, <1>8, <1>9, <1>10, <1>11, <1>12, <1>13, <1>14
        DEF Next, SendStep

\* What the generator's state and the frame under construction say about the
\* next step of the only sender.
LEMMA JobStep == ASSUME Serial, IInv, [Next]_vars, TypeOK' PROVE SerialInv'
<1> DEFINE s == LoginTask
<1>0. s \in Senders /\ (\A t \in Senders : t = s) /\ Nobody # s
  BY ConstantsOK DEF ConstantsOK, Serial
<1>1. /\ pc \in [Senders -> {"login", "idle", "step", "mask", "length", "type", "lock",
                             "write", "setKey"}]
      /\ job \in [Senders -> Frame] /\ wire \in Seq(Frame) /\ outState \in Nat
      /\ job[s] \in Frame
  BY <1>0 DEF IInv, TypeOK
<1>2. /\ job[s].size \in Nat /\ job[s].from \in Nat /\ job[s].masks \in Masks
      /\ Len(job[s].masks) \in Nat
      /\ \A g \in 1..Len(job[s].masks) : job[s].masks[g] \in SUBSET Nat
  BY <1>1, SizesAreNat, MaskTypes DEF Frame
<1>3. Steps("zlib", job[s].size) \in Nat
  BY <1>2, StepsType
<1>4. SerialInv
  BY DEF IInv
<1> HIDE DEF s
<1>5. ASSUME StartSend(s) PROVE SerialInv'
  <2>1. PICK size \in Sizes : job' = [job EXCEPT ![s] = NewFrame(size, outState)]
    BY <1>5 DEF StartSend
  <2>2. job'[s] = [size |-> size, from |-> outState, masks |-> <<>>, length |-> 0, typed |-> FALSE]
    BY <1>0, <1>1, <2>1 DEF NewFrame
  <2>3. Steps("zlib", size) \in Nat
    BY StepsType, SizesAreNat
  <2>4. /\ pc'[s] = IF key THEN "step" ELSE "length"
        /\ pc[s] \in {"login", "idle"} /\ outState' = outState
        /\ UNCHANGED <<key, wire, writer>>
    BY <1>0, <1>1, <1>5 DEF StartSend, Go
  <2>5. JobInv(s)'
    BY <1>1, <2>2, <2>3, <2>4 DEF JobInv, Building
  <2>6. NextStart(s)' = LastEnd'
    BY <1>4, <2>2, <2>4 DEF SerialInv, NextStart, LastEnd, Building, s
  <2> QED BY <1>4, <2>4, <2>5, <2>6 DEF SerialInv, s
<1>6. ASSUME StepState(s) PROVE SerialInv'
  <2> USE DEF s
  <2>1. CASE Len(job[s].masks) < Steps("zlib", job[s].size)
    <3>1. job'[s] = [job[s] EXCEPT !.masks = Append(job[s].masks, {})]
      BY <1>0, <1>1, <1>6, <2>1 DEF StepState
    <3>2. /\ Len(Append(job[s].masks, {})) = Len(job[s].masks) + 1
          /\ \A g \in 1..Len(job[s].masks) : Append(job[s].masks, {})[g] = job[s].masks[g]
          /\ Append(job[s].masks, {})[Len(job[s].masks) + 1] = {}
      <4>1. job[s].masks \in Seq(SUBSET Nat) /\ {} \in SUBSET Nat
        BY <1>2 DEF Masks
      <4> QED BY <4>1, AppendProperties
    <3>3. /\ pc[s] = "step" /\ pc'[s] = "mask" /\ outState' = outState + 1
          /\ UNCHANGED <<key, wire, writer>>
      BY <1>0, <1>1, <1>6, <2>1 DEF StepState, Go
    <3>4. /\ job'[s].size = job[s].size /\ job'[s].from = job[s].from
          /\ job'[s].masks = Append(job[s].masks, {})
      BY <1>1, <3>1 DEF Frame
    <3>5. /\ job[s].size \in Sizes /\ job[s].from + Len(job[s].masks) = outState /\ key
          /\ \A g \in 1..Len(job[s].masks) : job[s].masks[g] = {job[s].from + g}
      BY <1>4, <3>3 DEF SerialInv, JobInv, Building
    <3>6. \A g \in 1..(Len(job[s].masks) + 1) :
             IF g = Len(job[s].masks) + 1
               THEN Append(job[s].masks, {})[g] \subseteq {job[s].from + g}
               ELSE Append(job[s].masks, {})[g] = {job[s].from + g}
      BY <1>2, <3>2, <3>5
    <3>7. job[s].from + (Len(job[s].masks) + 1) = outState + 1 /\ Len(job[s].masks) + 1 > 0
      <4>1. /\ job[s].from \in Nat /\ Len(job[s].masks) \in Nat
            /\ job[s].from + Len(job[s].masks) = outState
        BY <1>2, <3>5
      <4> QED BY <4>1
    <3>8. Len(job[s].masks) + 1 <= Steps("zlib", job[s].size)
      BY <1>2, <1>3, <2>1
    <3>9. JobInv(s)'
      BY <3>2, <3>3, <3>4, <3>5, <3>6, <3>7, <3>8 DEF JobInv, Building
    <3>10. NextStart(s)' = LastEnd'
      BY <1>4, <3>3, <3>4 DEF SerialInv, NextStart, LastEnd, Building
    <3> QED BY <1>4, <3>3, <3>9, <3>10 DEF SerialInv
  <2>2. CASE ~(Len(job[s].masks) < Steps("zlib", job[s].size))
    <3>1. /\ pc[s] = "step" /\ pc'[s] = "length"
          /\ UNCHANGED <<job, outState, key, wire, writer>>
      BY <1>0, <1>1, <1>6, <2>2 DEF StepState, Go
    <3>2. JobInv(s)'
      BY <1>1, <1>2, <1>3, <1>4, <2>2, <3>1 DEF SerialInv, JobInv, Building
    <3>3. NextStart(s)' = LastEnd'
      BY <1>4, <3>1 DEF SerialInv, NextStart, LastEnd, Building
    <3> QED BY <1>4, <3>1, <3>2, <3>3 DEF SerialInv
  <2> QED BY <2>1, <2>2
<1>7. ASSUME Mask(s) PROVE SerialInv'
  <2> USE DEF s
  <2> DEFINE n == Len(job[s].masks)
             e == job[s].masks[n] \cup {outState}
             m == [job[s].masks EXCEPT ![n] = e]
  <2>1. /\ pc[s] = "mask" /\ pc'[s] \in {"mask", "step"}
        /\ UNCHANGED <<outState, key, wire, writer>>
    BY <1>0, <1>1, <1>7 DEF Mask, Go
  <2>2. /\ n > 0 /\ job[s].masks[n] \subseteq {outState} /\ job[s].from + n = outState
        /\ job[s].size \in Sizes /\ key /\ n <= Steps("zlib", job[s].size)
        /\ \A g \in 1..n : g # n => job[s].masks[g] = {job[s].from + g}
    <3>1. /\ n > 0 /\ job[s].from + n = outState
          /\ job[s].size \in Sizes /\ key /\ n <= Steps("zlib", job[s].size)
          /\ \A g \in 1..n : IF g = n THEN job[s].masks[g] \subseteq {job[s].from + g}
                                       ELSE job[s].masks[g] = {job[s].from + g}
      BY <1>4, <2>1 DEF SerialInv, JobInv, Building
    <3>2. n \in 1..n
      BY <1>2, <3>1
    <3> HIDE DEF n
    <3> QED BY <3>1, <3>2
  <2>3. e = {outState} /\ e \in SUBSET Nat
    BY <1>1, <2>2
  <2>4. /\ Len(m) = n
        /\ \A g \in 1..n : m[g] = IF g = n THEN e ELSE job[s].masks[g]
    <3>1. job[s].masks \in Seq(SUBSET Nat) /\ n \in 1..Len(job[s].masks)
      BY <1>2, <2>2 DEF Masks
    <3> HIDE DEF n, e
    <3> QED BY <2>3, <3>1, ExceptSeq DEF n
  <2>5. job'[s] = [job[s] EXCEPT !.masks = m]
    BY <1>0, <1>1, <1>7 DEF Mask
  <2>6. job'[s].size = job[s].size /\ job'[s].from = job[s].from /\ job'[s].masks = m
    BY <1>1, <2>5 DEF Frame
  <2>7. \A g \in 1..n : m[g] = {job[s].from + g}
    BY <2>2, <2>3, <2>4
  <2> HIDE DEF m, n, e
  <2>8. JobInv(s)'
    BY <1>2, <2>1, <2>2, <2>4, <2>6, <2>7 DEF JobInv, Building, n
  <2>9. NextStart(s)' = LastEnd'
    BY <1>4, <2>1, <2>6 DEF SerialInv, NextStart, LastEnd, Building
  <2> QED BY <1>4, <2>1, <2>8, <2>9 DEF SerialInv
<1>8. ASSUME FrameLength(s) PROVE SerialInv'
  <2> USE DEF s
  <2> DEFINE l == U16(job[s].size + IF key THEN 1 ELSE 0)
  <2>1. /\ pc[s] = "length" /\ pc'[s] = "type"
        /\ UNCHANGED <<outState, key, wire, writer>>
    BY <1>0, <1>1, <1>8 DEF FrameLength, Go
  <2>2. /\ job[s].size \in Sizes /\ job[s].from + Len(job[s].masks) = outState
        /\ \A g \in 1..Len(job[s].masks) : job[s].masks[g] = {job[s].from + g}
        /\ Len(job[s].masks) = IF key THEN Steps("zlib", job[s].size) ELSE 0
    BY <1>4, <2>1 DEF SerialInv, JobInv, Building
  <2>4. job'[s] = [job[s] EXCEPT !.length = l]
    BY <1>0, <1>1, <1>8 DEF FrameLength
  <2>5. /\ job'[s].size = job[s].size /\ job'[s].from = job[s].from
        /\ job'[s].masks = job[s].masks /\ job'[s].length = l
    BY <1>1, <2>4 DEF Frame
  <2>6. JobInv(s)'
    <3>1. job'[s].length = U16(job'[s].size + IF key' THEN 1 ELSE 0)
      BY <2>1, <2>5
    <3> HIDE DEF l
    <3> QED BY <2>1, <2>2, <2>5, <3>1 DEF JobInv, Building
  <2>7. NextStart(s)' = LastEnd'
    BY <1>4, <2>1, <2>5 DEF SerialInv, NextStart, LastEnd, Building
  <2> QED BY <1>4, <2>1, <2>6, <2>7 DEF SerialInv
<1>9. ASSUME TypeByte(s) PROVE SerialInv'
  <2> USE DEF s
  <2>1. /\ pc[s] = "type" /\ pc'[s] = "lock"
        /\ UNCHANGED <<outState, key, wire, writer>>
        /\ job'[s] = [job[s] EXCEPT !.typed = key]
    BY <1>0, <1>1, <1>9 DEF TypeByte, Go
  <2>2. /\ job'[s].size = job[s].size /\ job'[s].from = job[s].from
        /\ job'[s].masks = job[s].masks /\ job'[s].length = job[s].length
    BY <1>1, <2>1 DEF Frame
  <2>3. job'[s].typed = key
    BY <1>1, <2>1, Zenon DEF Frame
  <2>4. /\ job[s].size \in Sizes /\ job[s].from + Len(job[s].masks) = outState
        /\ \A g \in 1..Len(job[s].masks) : job[s].masks[g] = {job[s].from + g}
        /\ Len(job[s].masks) = IF key THEN Steps("zlib", job[s].size) ELSE 0
        /\ job[s].length = U16(job[s].size + IF key THEN 1 ELSE 0)
    BY <1>4, <2>1 DEF SerialInv, JobInv, Building
  <2>5. JobInv(s)'
    BY <2>1, <2>2, <2>3, <2>4 DEF JobInv, Building
  <2>6. NextStart(s)' = LastEnd'
    BY <1>4, <2>1, <2>2 DEF SerialInv, NextStart, LastEnd, Building
  <2> QED BY <1>4, <2>1, <2>5, <2>6 DEF SerialInv
<1>10. ASSUME LockWriter(s) PROVE SerialInv'
  <2> USE DEF s
  <2>1. /\ pc[s] = "lock" /\ pc'[s] = "write" /\ writer' = s
        /\ UNCHANGED <<outState, key, wire, job>>
    BY <1>0, <1>1, <1>10 DEF LockWriter, Go
  <2>2. JobInv(s)'
    BY <1>4, <2>1 DEF SerialInv, JobInv, Building
  <2>3. NextStart(s)' = LastEnd'
    BY <1>4, <2>1 DEF SerialInv, NextStart, LastEnd, Building
  <2> QED BY <1>4, <2>1, <2>2, <2>3 DEF SerialInv
<1>11. ASSUME WriteFrame(s) PROVE SerialInv'
  <2> USE DEF s
  <2>1. /\ pc[s] = "write" /\ pc'[s] = IF ~key THEN "setKey" ELSE "idle"
        /\ wire' = Append(wire, job[s]) /\ writer' = Nobody
        /\ UNCHANGED <<outState, key, job>>
    BY <1>0, <1>1, <1>11 DEF WriteFrame, Go
  <2>2. wire' # <<>> /\ Len(wire') = Len(wire) + 1 /\ wire'[Len(wire')] = job[s]
    BY <1>1, <2>1, AppendProperties
  <2>3. NextStart(s)' = LastEnd'
    BY <1>4, <2>1, <2>2 DEF SerialInv, JobInv, NextStart, LastEnd, Building
  <2>4. JobInv(s)'
    BY <2>1 DEF JobInv, Building
  <2> QED BY <1>0, <1>4, <2>1, <2>2, <2>3, <2>4 DEF SerialInv
<1>12. ASSUME SetKey(s) PROVE SerialInv'
  <2> USE DEF s
  <2>1. /\ pc[s] = "setKey" /\ pc'[s] = "idle" /\ key'
        /\ UNCHANGED <<outState, wire, writer, job>>
    BY <1>0, <1>1, <1>12 DEF SetKey, Go
  <2>2. NextStart(s)' = LastEnd' /\ JobInv(s)'
    BY <1>4, <2>1 DEF SerialInv, JobInv, NextStart, LastEnd, Building
  <2>3. wire # <<>>
    BY <1>4, <2>1 DEF SerialInv
  <2> QED BY <1>4, <2>1, <2>2, <2>3 DEF SerialInv
<1>13. ASSUME UNCHANGED <<key, sendVars>> PROVE SerialInv'
  BY <1>4, <1>13 DEF SerialInv, JobInv, NextStart, LastEnd, Building, sendVars
<1> QED BY <1>0, <1>5, <1>6, <1>7, <1>8, <1>9, <1>10, <1>11, <1>12, <1>13
        DEF Next, SendStep, Fetch, Decode, DecodeRefused, Pop, ServerSend, vars

\* The frame that a write adds continues the keystream, and is framed as the
\* server expects of its place.
LEMMA WireStep == ASSUME Serial, IInv, [Next]_vars, TypeOK' PROVE ServerCanRead'
<1> DEFINE s == LoginTask
<1>0. s \in Senders /\ \A t \in Senders : t = s
  BY ConstantsOK DEF ConstantsOK, Serial
<1>1. wire \in Seq(Frame) /\ job[s] \in Frame /\ Len(wire) \in Nat
  BY <1>0 DEF IInv, TypeOK
<1>2. ServerCanRead
  BY DEF IInv
<1>3. ASSUME WriteFrame(s) PROVE ServerCanRead'
  <2> DEFINE n == Len(wire)
  <2>1. pc[s] = "write" /\ wire' = Append(wire, job[s])
    BY <1>3 DEF WriteFrame
  <2>2. /\ Len(wire') = n + 1 /\ wire'[n + 1] = job[s] /\ wire' # <<>>
        /\ \A i \in 1..n : wire'[i] = wire[i]
    BY <1>1, <2>1, AppendProperties
  <2>3. /\ job[s].from = LastEnd
        /\ \A g \in 1..Len(job[s].masks) : job[s].masks[g] = {job[s].from + g}
        /\ Len(job[s].masks) = IF key THEN Steps("zlib", job[s].size) ELSE 0
        /\ job[s].length = U16(job[s].size + IF key THEN 1 ELSE 0)
        /\ job[s].typed = key
    BY <2>1 DEF IInv, SerialInv, JobInv, NextStart, Building
  <2>4. key <=> n > 0
    BY <1>1, <2>1 DEF IInv, SerialInv
  <2>5. Fits(job[s], n + 1) => Framed(job[s], n + 1)
    <3>1. key \in BOOLEAN /\ (key <=> n + 1 # 1)
      BY <1>1, <2>4 DEF IInv, TypeOK
    <3>2. job[s].typed = (n + 1 # 1)
      <4>1. job[s].typed = key
        BY <2>3
      <4> HIDE DEF n
      <4>2. key = (n + 1 # 1)
        BY <3>1, Zenon
      <4> QED BY <4>1, <4>2, Zenon
    <3>3. (IF key THEN 1 ELSE 0) = TypeBytes(n + 1)
      BY <3>1 DEF TypeBytes
    <3>4. Fits(job[s], n + 1) => job[s].length = job[s].size + TypeBytes(n + 1)
      <4>1. job[s].size \in Nat /\ TypeBytes(n + 1) \in {0, 1}
        BY <1>1, SizesAreNat DEF Frame, TypeBytes
      <4>2. \A k \in Nat : k < 65536 => U16(k) = k
        BY SMT DEF U16
      <4> HIDE DEF n
      <4>3. job[s].length = U16(job[s].size + TypeBytes(n + 1))
        BY <2>3, <3>3
      <4>4. job[s].size + TypeBytes(n + 1) \in Nat
        BY <4>1
      <4> QED BY <4>2, <4>3, <4>4 DEF Fits
    <3>5. Len(job[s].masks) = IF n + 1 = 1 THEN 0 ELSE Steps("zlib", job[s].size)
      BY <2>3, <3>1
    <3> QED BY <3>2, <3>4, <3>5, Zenon DEF Framed
  <2>6. \A i \in 1..(n + 1) : (\A j \in 1..i : Fits(wire'[j], j)) => Framed(wire'[i], i)
    <3>1. \A i \in 1..n : (\A j \in 1..i : Fits(wire[j], j)) => Framed(wire[i], i)
      BY <1>2 DEF ServerCanRead
    <3>2. n \in Nat /\ n + 1 \in 1..(n + 1)
      BY <1>1
    <3> HIDE DEF n
    <3>3. Fits(wire'[n + 1], n + 1) => Framed(wire'[n + 1], n + 1)
      BY <2>2, <2>5
    <3>4. ASSUME NEW i \in 1..n, \A j \in 1..i : Fits(wire'[j], j) PROVE Framed(wire'[i], i)
      <4>1. \A j \in 1..i : Fits(wire[j], j)
        <5>1. \A j \in 1..i : j \in 1..n
          BY <3>2
        <5> QED BY <2>2, <3>4, <5>1
      <4> QED BY <2>2, <3>1, <4>1
    <3>5. \A i \in 1..(n + 1) : i \in 1..n \/ i = n + 1
      BY <3>2
    <3> QED BY <3>2, <3>3, <3>4, <3>5, Zenon
  <2>7. \A i \in 1..(n + 1) : \A g \in 1..Len(wire'[i].masks) :
          wire'[i].masks[g] = {wire'[i].from + g}
    BY <1>1, <1>2, <2>2, <2>3 DEF ServerCanRead, KeystreamInOrder
  <2>8. \A i \in 2..(n + 1) : wire'[i].from = wire'[i - 1].from + Len(wire'[i - 1].masks)
    <3>1. \A i \in 2..n : wire[i].from = wire[i - 1].from + Len(wire[i - 1].masks)
      BY <1>2 DEF ServerCanRead, KeystreamInOrder
    <3>2. n > 0 => job[s].from = wire[n].from + Len(wire[n].masks)
      BY <1>1, <2>3 DEF LastEnd
    <3>3. ASSUME NEW i \in 2..n PROVE wire'[i] = wire[i] /\ wire'[i - 1] = wire[i - 1]
      BY <1>1, <2>2
    <3>4. n > 0 => wire'[(n + 1) - 1] = wire[n]
      BY <1>1, <2>2
    <3> HIDE DEF n
    <3>5. ASSUME NEW i \in 2..(n + 1)
          PROVE  wire'[i].from = wire'[i - 1].from + Len(wire'[i - 1].masks)
      <4>1. CASE i = n + 1
        BY <1>1, <2>2, <3>2, <3>4, <4>1 DEF n
      <4>2. CASE i # n + 1
        <5>1. i \in 2..n
          BY <1>1, <4>2 DEF n
        <5> QED BY <3>1, <3>3, <5>1
      <4> QED BY <4>1, <4>2
    <3> QED BY <3>5
  <2>9. wire'[1].from = 0
    <3>1. CASE n = 0
      BY <1>1, <2>2, <2>3, <3>1 DEF LastEnd
    <3>2. CASE n # 0
      BY <1>1, <1>2, <2>2, <3>2 DEF ServerCanRead
    <3> QED BY <3>1, <3>2
  <2> QED BY <2>2, <2>6, <2>7, <2>8, <2>9 DEF ServerCanRead, KeystreamInOrder
<1>4. CASE UNCHANGED wire
  BY <1>2, <1>4 DEF ServerCanRead, KeystreamInOrder
<1> QED BY <1>0, <1>3, <1>4
        DEF Next, SendStep, StartSend, StepState, Mask, FrameLength, TypeByte, LockWriter, SetKey,
            Fetch, Decode, DecodeRefused, Pop, ServerSend, vars, sendVars

\* A connection with serial calls keeps the inductive invariant.
LEMMA InvStep == Serial /\ IInv /\ [Next]_vars => IInv'
<1> SUFFICES ASSUME Serial, IInv, [Next]_vars PROVE IInv'
  OBVIOUS
<1>1. TypeOK'
  BY TypeStep DEF IInv
<1> QED BY <1>1, JobStep, WireStep DEF IInv

\* The invariant holds throughout a connection with serial calls.
THEOREM SerialInvariance == ASSUME Serial PROVE Spec => []IInv
<1>1. Init => IInv
  BY InitInv
<1>2. IInv /\ [Next]_vars => IInv'
  BY InvStep
<1> QED BY <1>1, <1>2, PTL DEF Spec

\* With serial calls the server can read every frame the client writes, of any
\* sizes, up to the first that does not fit its length field.
THEOREM SerialSendsAreReadable == ASSUME Serial PROVE Spec => []ServerCanRead
<1>1. IInv => ServerCanRead
  BY DEF IInv
<1> QED BY <1>1, SerialInvariance, PTL

-----------------------------------------------------------------------------
(* The reading side *)

\* The ids that packets may have.
PacketIds == Known \cup UNION {Range(c) : c \in Contents}

\* The generator's state after a frame of the server.
StateAfter(f) == IF f.type \in Compressions THEN f.from + Steps(f.type, f.size) ELSE f.from

\* The server's state at the start of the frame after the first n.
NextFrom(n) == IF n < Len(sent) THEN sent[n + 1].from ELSE srvState

\* What the packets of the first n frames are read as.
Read(n) == [i \in 1..n |-> IF sent[i].type \in Compressions THEN Parsed(sent[i].packets) ELSE <<>>]

\* What read() returns are ids.
QueueOK == queue \in Seq(PacketIds) /\ delivered \in Seq(PacketIds)

\* Each frame takes the server's generator to where the next one starts.
SentInv == \A i \in 1..Len(sent) : NextFrom(i) = StateAfter(sent[i])

\* Between two frames the client's generator is where the server's is.
InStep == /\ reader = "read" => inState = NextFrom(fetched)
          /\ reader = "fetched" => inState = sent[fetched].from /\ queue = <<>>

\* The inductive invariant of the reading side.
ReadInv == TypeOK /\ QueueOK /\ SentInv /\ (~early => InStep /\ ReadsWhatWasSent)

\* Packets that are read are packets.
LEMMA ParsedType ==
  ASSUME NEW c \in Contents PROVE Parsed(c) \in Seq(PacketIds)
<1>1. c \in Seq(PacketIds)
  <2>1. c \in Seq(UNION {Range(d) : d \in Contents})
    BY ConstantsOK, Zenon DEF ConstantsOK
  <2>2. UNION {Range(d) : d \in Contents} \subseteq PacketIds
    BY Zenon DEF PacketIds
  <2> HIDE DEF PacketIds
  <2> DEFINE U == UNION {Range(d) : d \in Contents}
  <2>3. c \in Seq(U) /\ U \subseteq PacketIds
    BY <2>1, <2>2
  <2> HIDE DEF U
  <2>4. Len(c) \in Nat /\ c \in [1..Len(c) -> U]
    BY <2>3, LenProperties
  <2>5. c \in [1..Len(c) -> PacketIds]
    BY <2>3, <2>4
  <2> QED BY <2>4, <2>5, SeqDef
<1> DEFINE bad == {i \in 1..Len(c) : c[i] \notin Known}
<1>2. CASE bad = {}
  BY <1>1, <1>2 DEF Parsed
<1>3. CASE bad # {}
  <2>1. bad \in SUBSET Nat
    OBVIOUS
  <2>2. PICK m \in bad : \A j \in bad : m <= j
    BY <1>3, <2>1, LeastElement
  <2>3. Min(bad) \in bad
    BY <2>2, Zenon DEF Min
  <2> DEFINE k == Min(bad) - 1
  <2>4. k \in 0..Len(c)
    BY <1>1, <2>3, LenProperties
  <2>5. Parsed(c) = SubSeq(c, 1, k)
    BY <1>3, Zenon DEF Parsed
  <2> HIDE DEF bad, k
  <2>6. SubSeq(c, 1, k) \in Seq(PacketIds)
    <3>1. \A i \in 1..k : c[i] \in PacketIds
      BY <1>1, <2>4, ElementOfSeq, LenProperties
    <3> QED BY <1>1, <2>4, <3>1, SubSeqProperties, LenProperties
  <2> QED BY <2>5, <2>6
<1> QED BY <1>2, <1>3

\* A reply's contents and size.
LEMMA ReplyFacts ==
  ASSUME TypeOK, NEW i \in 1..Len(sent)
  PROVE  /\ sent[i] \in Reply /\ sent[i].packets \in Contents
         /\ (IF sent[i].type \in Compressions THEN Parsed(sent[i].packets) ELSE <<>>) \in Seq(PacketIds)
         /\ sent[i].from \in Nat /\ sent[i].size \in Sizes
<1>1. sent[i] \in Reply
  BY ElementOfSeq DEF TypeOK
<1>2. sent[i].packets \in Contents /\ sent[i].from \in Nat /\ sent[i].size \in Sizes
  BY <1>1 DEF Reply
<1>3. <<>> \in Seq(PacketIds) /\ Parsed(sent[i].packets) \in Seq(PacketIds)
  BY <1>2, ParsedType
<1> QED BY <1>1, <1>2, <1>3, Zenon

\* One more frame adds its packets.
LEMMA ReadNext ==
  ASSUME TypeOK, NEW n \in Nat, n < Len(sent)
  PROVE  FlattenSeq(Read(n + 1))
           = FlattenSeq(Read(n)) \o (IF sent[n + 1].type \in Compressions
                                       THEN Parsed(sent[n + 1].packets) ELSE <<>>)
<1> DEFINE x(i) == IF sent[i].type \in Compressions THEN Parsed(sent[i].packets) ELSE <<>>
<1>1. \A i \in 1..(n + 1) : i \in 1..Len(sent) /\ (i \in 1..n \/ i = n + 1)
  BY DEF TypeOK
<1>2. \A i \in 1..(n + 1) : x(i) \in Seq(PacketIds)
  BY <1>1, ReplyFacts
<1>3. Read(n) = [i \in 1..n |-> x(i)] /\ Read(n + 1) = [i \in 1..(n + 1) |-> x(i)]
  BY Zenon DEF Read
<1> HIDE DEF x
<1> DEFINE r == Read(n)
<1>4. r \in Seq(Seq(PacketIds)) /\ Len(r) = n
  <2>1. \A i \in 1..n : i \in 1..(n + 1)
    OBVIOUS
  <2>2. r \in [1..n -> Seq(PacketIds)]
    BY <1>2, <1>3, <2>1, Zenon
  <2>3. r \in Seq(Seq(PacketIds))
    BY <2>2, SeqDef
  <2> QED BY <2>2, <2>3, LenProperties
<1> HIDE DEF r
<1>5. n + 1 \in 1..(n + 1)
  OBVIOUS
<1>6. x(n + 1) \in Seq(PacketIds)
  BY <1>2, <1>5, Zenon
<1>7. Read(n + 1) = Append(r, x(n + 1))
  <2>1. /\ Append(r, x(n + 1)) \in Seq(Seq(PacketIds)) /\ Len(Append(r, x(n + 1))) = n + 1
        /\ Append(r, x(n + 1))[n + 1] = x(n + 1)
        /\ \A i \in 1..n : Append(r, x(n + 1))[i] = r[i]
    BY <1>4, <1>6, AppendProperties
  <2>2. \A i \in 1..(n + 1) : Append(r, x(n + 1))[i] = x(i)
    BY <1>1, <1>3, <2>1, Zenon DEF r
  <2>3. Append(r, x(n + 1)) = [i \in 1..(n + 1) |-> Append(r, x(n + 1))[i]]
    BY <2>1, LenProperties
  <2> QED BY <1>3, <2>2, <2>3, Zenon
<1>8. FlattenSeq(Append(r, x(n + 1))) = FlattenSeq(r) \o x(n + 1)
  BY <1>4, <1>6, FlattenSnoc
<1> QED BY <1>7, <1>8, Zenon DEF r, x

\* The server's frames go on from where its generator is.
LEMMA SentStep == ASSUME ReadInv, [Next]_vars PROVE SentInv'
<1>1. CASE ServerSend
  <2> DEFINE n == Len(sent)
  <2>1. PICK type \in Types, size \in Sizes, packets \in Contents :
          /\ sent' = Append(sent, [type |-> type, size |-> size, from |-> srvState,
                                   packets |-> packets])
          /\ srvState' = IF type \in Compressions THEN srvState + Steps(type, size) ELSE srvState
    BY <1>1 DEF ServerSend
  <2> DEFINE f == [type |-> type, size |-> size, from |-> srvState, packets |-> packets]
  <2>2. f \in Reply
    BY DEF ReadInv, TypeOK, Reply
  <2>3. srvState' = StateAfter(f)
    BY <2>1 DEF StateAfter
  <2> HIDE DEF f
  <2>4. /\ n \in Nat /\ Len(sent') = n + 1 /\ sent'[n + 1] = f
        /\ \A i \in 1..n : sent'[i] = sent[i]
    BY <2>1, <2>2, AppendProperties, LenProperties DEF ReadInv, TypeOK, f
  <2>5. f.from = srvState
    BY DEF f
  <2> HIDE DEF n
  <2>6. ASSUME NEW i \in 1..(n + 1)
        PROVE  (IF i < n + 1 THEN sent'[i + 1].from ELSE srvState') = StateAfter(sent'[i])
    <3>1. CASE i = n + 1
      <4>1. ~ (i < n + 1)
        BY <2>4, <3>1
      <4> QED BY <2>3, <2>4, <3>1, <4>1, Zenon
    <3>2. CASE i # n + 1
      <4>1. i \in 1..n /\ i < n + 1 /\ (i < n => i + 1 \in 1..n) /\ (~ (i < n) => i + 1 = n + 1)
        BY <2>4, <3>2
      <4>2. sent'[i] = sent[i]
        BY <2>4, <4>1, Zenon
      <4>3. (IF i < n THEN sent[i + 1].from ELSE srvState) = StateAfter(sent[i])
        BY <4>1, Zenon DEF ReadInv, SentInv, NextFrom, n
      <4>4. sent'[i + 1].from = IF i < n THEN sent[i + 1].from ELSE srvState
        <5>1. CASE i < n
          BY <2>4, <4>1, <5>1, Zenon
        <5>2. CASE ~ (i < n)
          BY <2>4, <2>5, <4>1, <5>2
        <5> QED BY <5>1, <5>2
      <4> QED BY <4>1, <4>2, <4>3, <4>4, Zenon
    <3> QED BY <3>1, <3>2
  <2> QED BY <2>4, <2>6, Zenon DEF SentInv, NextFrom, StateAfter
<1>2. CASE UNCHANGED srvVars
  BY <1>2, Zenon DEF srvVars, ReadInv, SentInv, NextFrom, StateAfter
<1>3. ASSUME NEW s \in Senders, SendStep(s) PROVE UNCHANGED srvVars
  <2>1. StartSend(s) => UNCHANGED srvVars
    BY Zenon DEF StartSend
  <2>2. StepState(s) => UNCHANGED srvVars
    BY Zenon DEF StepState
  <2>3. Mask(s) => UNCHANGED srvVars
    BY Zenon DEF Mask
  <2>4. FrameLength(s) \/ TypeByte(s) => UNCHANGED srvVars
    BY SMT DEF FrameLength, TypeByte
  <2>5. LockWriter(s) \/ WriteFrame(s) \/ SetKey(s) => UNCHANGED srvVars
    BY Zenon DEF LockWriter, WriteFrame, SetKey
  <2> QED BY <1>3, <2>1, <2>2, <2>3, <2>4, <2>5, Zenon DEF SendStep
<1>4. CASE Fetch \/ Decode \/ DecodeRefused \/ Pop
  BY <1>2, <1>4, Zenon DEF Fetch, Decode, DecodeRefused, Pop
<1>5. CASE UNCHANGED vars
  BY <1>2, <1>5, Zenon DEF vars
<1> QED BY <1>1, <1>2, <1>3, <1>4, <1>5, Zenon DEF Next

\* A sender's step leaves the reader and the server alone.
LEMMA SendersApart ==
  ASSUME NEW s \in Senders, SendStep(s) PROVE UNCHANGED <<readVars, srvVars>>
<1> DEFINE apart == UNCHANGED <<readVars, srvVars>>
<1>1. StartSend(s) => apart
  BY Zenon DEF StartSend
<1>2. StepState(s) => apart
  BY Zenon DEF StepState
<1>3. Mask(s) => apart
  BY Zenon DEF Mask
<1>4. FrameLength(s) \/ TypeByte(s) => apart
  BY SMT DEF FrameLength, TypeByte
<1>5. LockWriter(s) \/ WriteFrame(s) \/ SetKey(s) => apart
  BY Zenon DEF LockWriter, WriteFrame, SetKey
<1> QED BY <1>1, <1>2, <1>3, <1>4, <1>5, Zenon DEF SendStep

\* What read() has returned and queued stays a sequence of ids.
LEMMA QueueStep == ASSUME ReadInv, [Next]_vars PROVE QueueOK'
<1> USE DEF ReadInv, QueueOK
<1>1. CASE Decode
  <2> DEFINE f == sent[fetched]
  <2>1. reader = "fetched" /\ delivered' = delivered
        /\ \/ queue' = Parsed(f.packets) \/ queue' = queue
           \/ \E p \in Known : queue' = <<p>>
    BY <1>1 DEF Decode
  <2>2. fetched \in 1..Len(sent)
    BY <2>1 DEF TypeOK
  <2>3. Parsed(f.packets) \in Seq(PacketIds)
    BY <2>2, ReplyFacts, ParsedType
  <2>4. \A p \in Known : <<p>> \in Seq(PacketIds)
    BY DEF PacketIds
  <2> HIDE DEF f
  <2> QED BY <2>1, <2>3, <2>4, Zenon
<1>2. CASE Pop
  <2>1. queue # <<>> /\ delivered' = Append(delivered, Head(queue)) /\ queue' = Tail(queue)
    BY <1>2 DEF Pop
  <2> QED BY <2>1, HeadTailProperties, AppendProperties
<1>3. CASE UNCHANGED <<queue, delivered>>
  BY <1>3
<1>4. CASE Fetch \/ DecodeRefused
  BY <1>3, <1>4, Zenon DEF Fetch, DecodeRefused
<1>5. CASE ServerSend \/ UNCHANGED vars
  <2>1. UNCHANGED readVars
    BY <1>5 DEF ServerSend, vars
  <2> QED BY <1>3, <2>1, Zenon DEF readVars
<1>6. ASSUME NEW s \in Senders, SendStep(s) PROVE QueueOK'
  BY <1>3, <1>6, SendersApart, Zenon DEF readVars
<1> QED BY <1>1, <1>2, <1>4, <1>5, <1>6, Zenon DEF Next

\* What ReadInv says while no frame came early, in terms of Read.
Reads ==
  /\ InStep
  /\ delivered \o queue = FlattenSeq(Read(IF reader = "fetched" THEN fetched - 1 ELSE fetched))
  /\ reader = "failed" => ~Understood(sent[fetched])

\* It is the same.
LEMMA ReadInvText ==
  /\ ReadInv <=> TypeOK /\ QueueOK /\ SentInv /\ (~early => Reads)
  /\ ReadInv' <=> TypeOK' /\ QueueOK' /\ SentInv' /\ (~early' => Reads')
BY Zenon DEF ReadInv, Reads, ReadsWhatWasSent, Decoded, Read

\* A frame is fetched when the queue is empty.
LEMMA FetchReads == ASSUME TypeOK, Reads, Fetch PROVE Reads'
<1>1. /\ reader = "read" /\ queue = <<>> /\ fetched < Len(sent)
      /\ fetched' = fetched + 1 /\ reader' = "fetched"
      /\ UNCHANGED <<inState, queue, delivered, srvState, sent>>
  BY DEF Fetch, srvVars
<1>2. fetched \in Nat /\ fetched' - 1 = fetched
  BY <1>1 DEF TypeOK
<1>3. inState = sent[fetched + 1].from
  BY <1>1, Zenon DEF Reads, InStep, NextFrom
<1>4. delivered \o queue = FlattenSeq(Read(fetched))
  BY <1>1 DEF Reads
<1>5. Read(fetched - 1)' = Read(fetched)
  BY <1>1, <1>2, Zenon DEF Read
<1> QED BY <1>1, <1>3, <1>4, <1>5, Zenon DEF Reads, InStep

\* What decoding a frame in step makes of it.
LEMMA DecodeReads ==
  ASSUME TypeOK, QueueOK, SentInv, Decode, ~early => Reads, ~early' PROVE Reads'
<1> DEFINE f == sent[fetched]
<1>1. /\ reader = "fetched" /\ f.type \in Compressions /\ key /\ ~early
      /\ inState' = inState + Steps(f.type, f.size)
      /\ UNCHANGED <<fetched, delivered, srvState, sent>>
  BY DEF Decode, srvVars
<1>2. inState = f.from /\ queue = <<>>
      /\ delivered \o queue = FlattenSeq(Read(fetched - 1))
  BY <1>1, Zenon DEF Reads, InStep
<1>3. /\ queue' = Parsed(f.packets)
      /\ reader' = IF f.packets # <<>> /\ queue' = f.packets THEN "read" ELSE "failed"
  BY <1>1, <1>2 DEF Decode
<1>4. /\ fetched \in 1..Len(sent) /\ fetched - 1 \in Nat /\ fetched - 1 < Len(sent)
      /\ (fetched - 1) + 1 = fetched
  BY <1>1 DEF TypeOK
<1>5. inState' = NextFrom(fetched)'
  <2>1. NextFrom(fetched) = StateAfter(f)
    BY <1>4, Zenon DEF SentInv
  <2>2. NextFrom(fetched)' = NextFrom(fetched)
    BY <1>1, Zenon DEF NextFrom
  <2> QED BY <1>1, <1>2, <2>1, <2>2, Zenon DEF StateAfter
<1>6. delivered' \o queue' = FlattenSeq(Read(fetched))'
  <2>1. FlattenSeq(Read(fetched)) = FlattenSeq(Read(fetched - 1)) \o Parsed(f.packets)
    BY <1>1, <1>4, ReadNext
  <2>2. delivered \o <<>> = delivered
    BY ConcatEmptySeq DEF QueueOK
  <2>3. Read(fetched)' = Read(fetched)
    BY <1>1, Zenon DEF Read
  <2> QED BY <1>1, <1>2, <1>3, <2>1, <2>2, <2>3, Zenon
<1>7. reader' # "fetched" /\ (reader' = "failed" => ~Understood(f))
  BY <1>3 DEF Understood
<1> QED BY <1>1, <1>5, <1>6, <1>7, Zenon DEF Reads, InStep, Understood, Parsed

\* A frame of a wrong type adds nothing.
LEMMA RefusedReads ==
  ASSUME TypeOK, QueueOK, DecodeRefused, Reads PROVE Reads'
<1> DEFINE f == sent[fetched]
<1>1. /\ reader = "fetched" /\ f.type \notin Compressions /\ reader' \in {"failed", "panicked"}
      /\ UNCHANGED <<inState, queue, fetched, delivered, srvState, sent>>
  BY DEF DecodeRefused, srvVars
<1>2. delivered \o queue = FlattenSeq(Read(fetched - 1)) /\ queue = <<>>
  BY <1>1, Zenon DEF Reads, InStep
<1>3. /\ fetched - 1 \in Nat /\ fetched - 1 < Len(sent) /\ (fetched - 1) + 1 = fetched
  BY <1>1 DEF TypeOK
<1>4. FlattenSeq(Read(fetched)) = FlattenSeq(Read(fetched - 1)) \o <<>>
  BY <1>1, <1>3, ReadNext
<1>5. (delivered \o queue) \o <<>> = delivered \o queue
  <2>1. delivered \o queue = delivered
    BY <1>2, ConcatEmptySeq DEF QueueOK
  <2> QED BY <2>1, ConcatEmptySeq DEF QueueOK
<1>6. FlattenSeq(Read(fetched))' = FlattenSeq(Read(fetched))
  BY <1>1, Zenon DEF Read
<1>7. reader' # "fetched" /\ reader' # "read"
  BY <1>1
<1>8. ~Understood(f)'
  BY <1>1, Zenon DEF Understood
<1> QED BY <1>1, <1>2, <1>4, <1>5, <1>6, <1>7, <1>8, Zenon DEF Reads, InStep

\* read() takes a packet off the queue.
LEMMA PopReads == ASSUME TypeOK, QueueOK, Pop, Reads PROVE Reads'
<1>1. /\ queue # <<>> /\ reader = "read" /\ delivered' = Append(delivered, Head(queue))
      /\ queue' = Tail(queue) /\ UNCHANGED <<inState, reader, fetched, srvState, sent>>
  BY DEF Pop, srvVars
<1>2. delivered' \o queue' = delivered \o queue
  <2> DEFINE h == Head(queue)  t == Tail(queue)
  <2>1. h \in PacketIds /\ t \in Seq(PacketIds) /\ delivered \in Seq(PacketIds)
    BY <1>1, HeadTailProperties DEF QueueOK
  <2>2. <<h>> \in Seq(PacketIds) /\ queue = <<h>> \o t
    BY <1>1, <2>1 DEF QueueOK
  <2> HIDE DEF h, t
  <2>3. Append(delivered, h) = delivered \o <<h>>
    BY <2>1, AppendIsConcat
  <2>4. (delivered \o <<h>>) \o t = delivered \o (<<h>> \o t)
    BY <2>1, <2>2, ConcatAssociative
  <2> QED BY <1>1, <2>2, <2>3, <2>4, Zenon DEF h, t
<1>3. FlattenSeq(Read(fetched))' = FlattenSeq(Read(fetched)) /\ NextFrom(fetched)' = NextFrom(fetched)
  BY <1>1, Zenon DEF Read, NextFrom
<1>4. reader' # "fetched" /\ reader' # "failed"
  BY <1>1
<1> QED BY <1>1, <1>2, <1>3, <1>4, Zenon DEF Reads, InStep

\* What the server sends does not change what it has sent.
LEMMA ServerReads == ASSUME TypeOK, ServerSend, Reads PROVE Reads'
<1>1. UNCHANGED <<inState, queue, reader, fetched, delivered>>
  BY DEF ServerSend, readVars
<1>2. PICK type \in Types, size \in Sizes, packets \in Contents :
        sent' = Append(sent, [type |-> type, size |-> size, from |-> srvState, packets |-> packets])
  BY DEF ServerSend
<1> DEFINE f == [type |-> type, size |-> size, from |-> srvState, packets |-> packets]
<1>3. f \in Reply /\ f.from = srvState
  BY DEF TypeOK, Reply
<1> HIDE DEF f
<1>4. /\ Len(sent) \in Nat /\ Len(sent') = Len(sent) + 1 /\ sent'[Len(sent) + 1] = f
      /\ \A i \in 1..Len(sent) : sent'[i] = sent[i]
  BY <1>2, <1>3, AppendProperties, LenProperties DEF TypeOK, f
<1>5. /\ fetched \in 0..Len(sent) /\ (reader # "read" => fetched \in 1..Len(sent))
      /\ \A i \in 1..fetched : i \in 1..Len(sent)
      /\ \A i \in 1..(fetched - 1) : i \in 1..Len(sent)
  BY <1>4 DEF TypeOK
<1>6. Read(fetched)' = Read(fetched) /\ Read(fetched - 1)' = Read(fetched - 1)
  BY <1>1, <1>4, <1>5, Zenon DEF Read
<1>7. NextFrom(fetched)' = NextFrom(fetched)
  <2>1. CASE fetched < Len(sent)
    <3>1. fetched + 1 \in 1..Len(sent) /\ fetched < Len(sent')
      BY <1>4, <1>5, <2>1
    <3> QED BY <1>1, <1>4, <2>1, <3>1, Zenon DEF NextFrom
  <2>2. CASE ~ (fetched < Len(sent))
    <3>1. fetched = Len(sent) /\ fetched < Len(sent')
      BY <1>4, <1>5, <2>2
    <3> QED BY <1>1, <1>3, <1>4, <2>2, <3>1, Zenon DEF NextFrom
  <2> QED BY <2>1, <2>2
<1>8. reader # "read" => sent'[fetched] = sent[fetched]
  BY <1>4, <1>5, Zenon
<1>9. reader = "fetched" => reader # "read"
  OBVIOUS
<1>10. reader = "failed" => reader # "read"
  OBVIOUS
<1> QED BY <1>1, <1>6, <1>7, <1>8, <1>9, <1>10, Zenon DEF Reads, InStep, Understood

\* Every step keeps what is known of the reading side.
LEMMA ReadInvStep == ASSUME ReadInv, [Next]_vars PROVE ReadInv'
<1>1. TypeOK /\ QueueOK /\ SentInv /\ (~early => Reads)
  BY ReadInvText
<1>2. TypeOK' /\ QueueOK' /\ SentInv'
  BY <1>1, TypeStep, QueueStep, SentStep
<1>3. ASSUME ~early' PROVE Reads'
  <2>1. CASE Decode
    BY <1>1, <1>3, <2>1, DecodeReads
  <2>2. CASE early' = early
    <3>1. Reads
      BY <1>1, <1>3, <2>2
    <3>2. CASE UNCHANGED <<readVars, srvVars>>
      BY <3>1, <3>2, Zenon DEF readVars, srvVars, Reads, InStep, Read, NextFrom, Understood
    <3>3. ASSUME NEW s \in Senders, SendStep(s) PROVE Reads'
      BY <3>2, <3>3, SendersApart
    <3>4. CASE UNCHANGED vars
      BY <3>2, <3>4, Zenon DEF vars
    <3> QED BY <1>1, <2>1, <3>1, <3>3, <3>4, FetchReads, RefusedReads, PopReads, ServerReads, Zenon
            DEF Next
  <2>3. Fetch \/ DecodeRefused \/ Pop \/ ServerSend \/ UNCHANGED vars => early' = early
    BY DEF Fetch, DecodeRefused, Pop, ServerSend, vars, readVars
  <2>4. ASSUME NEW s \in Senders, SendStep(s) PROVE early' = early
    BY <2>4, SendersApart, Zenon DEF readVars
  <2> QED BY <2>1, <2>2, <2>3, <2>4, Zenon DEF Next
<1> QED BY <1>2, <1>3, ReadInvText, Zenon

\* A connection starts with nothing sent or read, and both generators at 0.
LEMMA InitRead == Init => ReadInv
<1> SUFFICES ASSUME Init PROVE ReadInv
  OBVIOUS
<1>1. TypeOK
  BY InitType
<1>2. /\ inState = 0 /\ queue = <<>> /\ reader = "read" /\ fetched = 0 /\ delivered = <<>>
      /\ srvState = 0 /\ sent = <<>>
  BY DEF Init
<1>3. Len(<<>>) = 0 /\ 1..0 = {} /\ <<>> \o <<>> = <<>> /\ <<>> \in Seq(PacketIds) /\ ~ (0 < 0)
  OBVIOUS
<1>4. Read(0) = <<>>
  BY DEF Read
<1>5. Reads
  <2>1. delivered \o queue = FlattenSeq(Read(fetched))
    BY <1>2, <1>3, <1>4, FlattenEmpty, Zenon
  <2>2. inState = NextFrom(fetched)
    BY <1>2 DEF NextFrom
  <2>3. reader # "fetched" /\ reader # "failed"
    BY <1>2
  <2> QED BY <2>1, <2>2, <2>3, Zenon DEF Reads, InStep
<1>6. QueueOK /\ SentInv
  BY <1>2, <1>3, Zenon DEF QueueOK, SentInv
<1> QED BY <1>1, <1>5, <1>6, ReadInvText, Zenon

\* The invariant of the reading side holds throughout, however many tasks send.
THEOREM ReadInvariance == Spec => []ReadInv
<1>1. ReadInv /\ [Next]_vars => ReadInv'
  BY ReadInvStep
<1> QED BY <1>1, InitRead, PTL DEF Spec

\* Unless a frame came in before the key was set, read() returns what the server
\* sent, in order, up to the first frame it cannot understand, and only for such
\* a frame is there an error.
THEOREM ReadsAll == Spec => []ReadsWhatWasSent
<1>1. ReadInv => ReadsWhatWasSent
  BY Zenon DEF ReadInv, ReadsWhatWasSent
<1> QED BY <1>1, ReadInvariance, PTL
=============================================================================
