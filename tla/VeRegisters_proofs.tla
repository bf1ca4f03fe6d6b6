------------------------- MODULE VeRegisters_proofs -------------------------
(***************************************************************************)
(* Theorems about the shared mode register, for any number of threads.     *)
(***************************************************************************)
EXTENDS VeRegisters, FiniteSetTheorems, SequenceTheorems, TLAPS

Function == SetsMode \cup SetsOther \cup {"VeReset"}
Word == [Field -> Nat]
Assignment == Field \X Nat

\* What a thread in function f may have left to assign.
RestOf(f, s) ==
  /\ f = "idle" => s = <<>>
  /\ f \in {"VeReset", "VeSetDramType"} =>
       s \in {DramType, <<<<"rec_wr_mode", 1>>>>, <<>>}
  /\ f = "VeEnableEncoder" =>
       s \in {<<<<"mode", 11>>, <<"enc_enable", 1>>, <<"enc_isp_enable", 1>>>>,
              <<<<"enc_enable", 1>>, <<"enc_isp_enable", 1>>>>,
              <<<<"enc_isp_enable", 1>>>>, <<>>}
  /\ f = "VeDisableEncoder" =>
       s \in {<<<<"mode", 7>>, <<"enc_enable", 0>>, <<"enc_isp_enable", 0>>>>,
              <<<<"enc_enable", 0>>, <<"enc_isp_enable", 0>>>>,
              <<<<"enc_isp_enable", 0>>>>, <<>>}
  /\ f \in {"VeEnableDecoder", "VeDisableDecoder"} =>
       s = <<>> \/ \E v \in Nat : s = <<<<"mode", v>>>>
  /\ f = "VeDecoderWidthMode" =>
       s = <<>> \/ \E v \in Nat : s = <<<<"pic_width_more_2048", v>>>>

HasDramType(w) == w.ddr_mode = 3 /\ w.rec_wr_mode = 1
Enabled(w) == w.mode = 11 /\ w.enc_enable = 1 /\ w.enc_isp_enable = 1

Types ==
  /\ word \in Word
  /\ gVeRefCount \in Nat
  /\ users \subseteq Threads /\ IsFiniteSet(users) /\ gVeRefCount = Cardinality(users)
  /\ gVeMutex \subseteq Threads /\ gVeRegisterMutex \subseteq Threads
  /\ pc \in [Threads -> Function \cup {"idle"}]
  /\ todo \in [Threads -> Seq(Assignment)]
  /\ loaded \in [Threads -> {<<>>} \cup {<<w>> : w \in Word}]
  /\ \A t \in Threads : RestOf(pc[t], todo[t])

\* Who may be where: a function that sets the mode is in the engine lock, and so
\* is VeReset, but for the first user's.
Locked ==
  /\ \A t, u \in gVeMutex : t = u
  /\ \A t, u \in gVeRegisterMutex : t = u
  /\ \A t, u \in gVeDecoderMutex : t = u
  /\ encoding \subseteq gVeDecoderMutex /\ gVeDecoderMutex \subseteq users
  /\ users \cap gVeMutex = {}
  /\ \A t \in Threads :
       /\ pc[t] # "idle" => t \in users \cup gVeMutex
       /\ pc[t] \in SetsMode => t \in gVeDecoderMutex
       /\ pc[t] = "VeReset" => t \in gVeDecoderMutex \/ (t \in gVeMutex /\ users = {})
       /\ t \in gVeMutex => pc[t] \in {"idle", "VeReset"}
       /\ t \in encoding => pc[t] \notin SetsMode /\ pc[t] # "VeReset"
       /\ loaded[t] # <<>> => todo[t] # <<>>
       /\ todo[t] # <<>> => t \in gVeRegisterMutex
       /\ t \in gVeRegisterMutex => pc[t] # "idle"
       /\ pc[t] \notin {"idle", "VeReset"} => t \in gVeRegisterMutex

NobodyResets == \A t \in Threads : pc[t] # "VeReset"

\* While nobody resets, the register and every word in flight have the type; who
\* resets has brought back what it has already assigned.
DramInv ==
  /\ (users # {} \/ gVeMutex # {}) /\ NobodyResets =>
       /\ HasDramType(word)
       /\ \A t \in Threads : loaded[t] # <<>> => HasDramType(loaded[t][1])
  /\ \A t \in gVeRegisterMutex :
       pc[t] = "VeReset" =>
         /\ loaded[t] # <<>> => loaded[t][1] = word
         /\ Len(todo[t]) <= 1 => word.ddr_mode = 3
         /\ Len(todo[t]) = 0 => word.rec_wr_mode = 1

\* The same for an encoder that is being enabled and one that is enabled.
EncoderInv ==
  /\ \A t \in Threads :
       pc[t] = "VeEnableEncoder" =>
         /\ loaded[t] # <<>> => loaded[t][1] = word
         /\ Len(todo[t]) <= 2 => word.mode = 11
         /\ Len(todo[t]) <= 1 => word.enc_enable = 1
         /\ Len(todo[t]) = 0 => word.enc_isp_enable = 1
  /\ encoding # {} =>
       /\ Enabled(word)
       /\ \A t \in Threads : loaded[t] # <<>> => Enabled(loaded[t][1])

Inv == Types /\ Locked /\ DramInv /\ EncoderInv
-----------------------------------------------------------------------------
(* What is left to assign.                                                 *)

\* Short sequences, element by element.
LEMMA Short ==
  ASSUME NEW a, NEW b, NEW c
  PROVE  /\ Len(<<a, b, c>>) = 3 /\ Head(<<a, b, c>>) = a /\ Tail(<<a, b, c>>) = <<b, c>>
         /\ Len(<<a, b>>) = 2 /\ Head(<<a, b>>) = a /\ Tail(<<a, b>>) = <<b>>
         /\ Len(<<a>>) = 1 /\ Head(<<a>>) = a /\ Tail(<<a>>) = <<>>
         /\ Len(<<>>) = 0
OBVIOUS

\* How much is left, as the invariants ask for it.
LEMMA NotShort ==
  ASSUME NEW n
  PROVE  /\ n = 2 => ~ (n <= 1) /\ n # 0
         /\ n = 3 => ~ (n <= 2) /\ ~ (n <= 1) /\ n # 0
OBVIOUS

\* A function's next assignment, and that it leaves what its place in the
\* function says.
LEMMA RestStep ==
  ASSUME NEW f \in Function \cup {"idle"}, NEW s \in Seq(Assignment), RestOf(f, s), s # <<>>
  PROVE  /\ Head(s) \in Assignment /\ Tail(s) \in Seq(Assignment)
         /\ Len(s) \in Nat \ {0} /\ Len(Tail(s)) = Len(s) - 1
         /\ RestOf(f, Tail(s))
         /\ Head(s)[1] = "ddr_mode" => Head(s)[2] = 3
         /\ Head(s)[1] = "rec_wr_mode" => Head(s)[2] = 1
         /\ f \notin SetsMode => Head(s)[1] \notin {"mode", "enc_enable", "enc_isp_enable"}
         /\ f = "VeReset" =>
              /\ Len(s) = 1 => Head(s) = <<"rec_wr_mode", 1>>
              /\ Len(s) > 1 => Len(s) = 2 /\ Head(s) = <<"ddr_mode", 3>>
         /\ f = "VeEnableEncoder" =>
              /\ Len(s) = 1 => Head(s) = <<"enc_isp_enable", 1>>
              /\ Len(s) = 2 => Head(s) = <<"enc_enable", 1>>
              /\ Len(s) > 2 => Len(s) = 3 /\ Head(s) = <<"mode", 11>>
<1>1. /\ Head(s) \in Assignment /\ Tail(s) \in Seq(Assignment)
      /\ Len(s) \in Nat \ {0} /\ Len(Tail(s)) = Len(s) - 1
  BY HeadTailProperties, EmptySeq
<1>2. CASE f \in {"VeReset", "VeSetDramType"}
  <2> DEFINE a == <<"ddr_mode", 3>>
             b == <<"rec_wr_mode", 1>>
  <2>1. s \in {<<a, b>>, <<b>>} /\ RestOf(f, <<b>>) /\ RestOf(f, <<>>)
    BY <1>2 DEF RestOf, DramType
  <2>2. a[1] = "ddr_mode" /\ a[2] = 3 /\ b[1] = "rec_wr_mode" /\ b[2] = 1
    OBVIOUS
  <2>3. a = <<"ddr_mode", 3>> /\ b = <<"rec_wr_mode", 1>>
    OBVIOUS
  <2> HIDE DEF a, b
  <2>4. \/ Head(s) = a /\ Tail(s) = <<b>> /\ Len(s) = 2
        \/ Head(s) = b /\ Tail(s) = <<>> /\ Len(s) = 1
    <3>1. s = <<a, b>> => Head(s) = a /\ Tail(s) = <<b>> /\ Len(s) = 2
      OBVIOUS
    <3>2. s = <<b>> => Head(s) = b /\ Tail(s) = <<>> /\ Len(s) = 1
      OBVIOUS
    <3> QED
      BY <2>1, <3>1, <3>2, Zenon
  <2>5. RestOf(f, Tail(s))
    BY <2>1, <2>4, Zenon
  <2> QED
    BY <1>1, <1>2, <2>2, <2>3, <2>4, <2>5
<1>3. CASE f = "VeEnableEncoder"
  <2> DEFINE a == <<"mode", 11>>
             b == <<"enc_enable", 1>>
             c == <<"enc_isp_enable", 1>>
  <2>1. /\ s \in {<<a, b, c>>, <<b, c>>, <<c>>}
        /\ RestOf(f, <<b, c>>) /\ RestOf(f, <<c>>) /\ RestOf(f, <<>>)
    BY <1>3 DEF RestOf
  <2>2. /\ a[1] = "mode" /\ b[1] = "enc_enable" /\ c[1] = "enc_isp_enable"
        /\ f \in SetsMode
    BY <1>3 DEF SetsMode
  <2>3. a = <<"mode", 11>> /\ b = <<"enc_enable", 1>> /\ c = <<"enc_isp_enable", 1>>
    OBVIOUS
  <2> HIDE DEF a, b, c
  <2>4. \/ Head(s) = a /\ Tail(s) = <<b, c>> /\ Len(s) = 3
        \/ Head(s) = b /\ Tail(s) = <<c>> /\ Len(s) = 2
        \/ Head(s) = c /\ Tail(s) = <<>> /\ Len(s) = 1
    <3>1. s = <<a, b, c>> => Head(s) = a /\ Tail(s) = <<b, c>> /\ Len(s) = 3
      OBVIOUS
    <3>2. s = <<b, c>> => Head(s) = b /\ Tail(s) = <<c>> /\ Len(s) = 2
      OBVIOUS
    <3>3. s = <<c>> => Head(s) = c /\ Tail(s) = <<>> /\ Len(s) = 1
      OBVIOUS
    <3> QED
      BY <2>1, <3>1, <3>2, <3>3, Zenon
  <2>5. RestOf(f, Tail(s))
    BY <2>1, <2>4, Zenon
  <2>6. /\ Len(s) = 1 => Head(s) = <<"enc_isp_enable", 1>>
        /\ Len(s) = 2 => Head(s) = <<"enc_enable", 1>>
        /\ Len(s) > 2 => Len(s) = 3 /\ Head(s) = <<"mode", 11>>
    <3>1. \/ Head(s) = a /\ Len(s) = 3
          \/ Head(s) = b /\ Len(s) = 2
          \/ Head(s) = c /\ Len(s) = 1
      BY <2>4, Zenon
    <3>2. /\ Len(s) = 1 => Head(s) = c
          /\ Len(s) = 2 => Head(s) = b
          /\ Len(s) > 2 => Len(s) = 3 /\ Head(s) = a
      <4> DEFINE h == Head(s)
                 n == Len(s)
      <4>1. (h = a /\ n = 3) \/ (h = b /\ n = 2) \/ (h = c /\ n = 1)
        BY <3>1
      <4> HIDE DEF h, n
      <4>2. (n = 1 => h = c) /\ (n = 2 => h = b) /\ (n > 2 => n = 3 /\ h = a)
        BY <4>1
      <4> QED
        BY <4>2 DEF h, n
    <3> QED
      BY <2>3, <3>2, Zenon
  <2> QED
    BY <1>1, <1>3, <2>2, <2>4, <2>5, <2>6
<1>4. CASE f = "VeDisableEncoder"
  <2> DEFINE a == <<"mode", 7>>
             b == <<"enc_enable", 0>>
             c == <<"enc_isp_enable", 0>>
  <2>1. /\ s \in {<<a, b, c>>, <<b, c>>, <<c>>}
        /\ RestOf(f, <<b, c>>) /\ RestOf(f, <<c>>) /\ RestOf(f, <<>>)
    BY <1>4 DEF RestOf
  <2>2. /\ a[1] = "mode" /\ b[1] = "enc_enable" /\ c[1] = "enc_isp_enable"
        /\ f \in SetsMode
    BY <1>4 DEF SetsMode
  <2> HIDE DEF a, b, c
  <2>3. \/ Head(s) = a /\ Tail(s) = <<b, c>> /\ Len(s) = 3
        \/ Head(s) = b /\ Tail(s) = <<c>> /\ Len(s) = 2
        \/ Head(s) = c /\ Tail(s) = <<>> /\ Len(s) = 1
    <3>1. s = <<a, b, c>> => Head(s) = a /\ Tail(s) = <<b, c>> /\ Len(s) = 3
      OBVIOUS
    <3>2. s = <<b, c>> => Head(s) = b /\ Tail(s) = <<c>> /\ Len(s) = 2
      OBVIOUS
    <3>3. s = <<c>> => Head(s) = c /\ Tail(s) = <<>> /\ Len(s) = 1
      OBVIOUS
    <3> QED
      BY <2>1, <3>1, <3>2, <3>3, Zenon
  <2>4. RestOf(f, Tail(s))
    BY <2>1, <2>3, Zenon
  <2> QED
    BY <1>1, <1>4, <2>2, <2>3, <2>4
<1>5. CASE f \in {"VeEnableDecoder", "VeDisableDecoder"}
  <2>1. PICK v \in Nat : s = <<<<"mode", v>>>>
    BY <1>5 DEF RestOf
  <2> QED
    BY <1>1, <1>5, <2>1, Short DEF RestOf, SetsMode
<1>6. CASE f = "VeDecoderWidthMode"
  <2>1. PICK v \in Nat : s = <<<<"pic_width_more_2048", v>>>>
    BY <1>6 DEF RestOf
  <2> QED
    BY <1>1, <1>6, <2>1, Short DEF RestOf, SetsMode
<1> QED
  BY <1>2, <1>3, <1>4, <1>5, <1>6 DEF Function, SetsMode, SetsOther, RestOf

\* VeSetDramType begins with both fields.
LEMMA DramTypeBegins == DramType \in Seq(Assignment) /\ Len(DramType) = 2
<1> DEFINE a == <<"ddr_mode", 3>>
           b == <<"rec_wr_mode", 1>>
<1>1. a \in Assignment /\ b \in Assignment /\ DramType = <<a, b>>
  BY DEF Assignment, Field, DramType
<1> HIDE DEF a, b
<1> QED
  BY <1>1, Short

\* What a function begins with.
LEMMA RestBegins ==
  ASSUME NEW f \in SetsMode \cup SetsOther, NEW s \in Assignments[f]
  PROVE  RestOf(f, s) /\ s \in Seq(Assignment) /\ (f = "VeEnableEncoder" => Len(s) = 3)
<1>1. /\ Assignments["VeEnableEncoder"]
           = {<<<<"mode", 11>>, <<"enc_enable", 1>>, <<"enc_isp_enable", 1>>>>}
      /\ Assignments["VeDisableEncoder"]
           = {<<<<"mode", 7>>, <<"enc_enable", 0>>, <<"enc_isp_enable", 0>>>>}
      /\ Assignments["VeEnableDecoder"] = {<<<<"mode", m>>>> : m \in {0, 1}}
      /\ Assignments["VeDisableDecoder"] = {<<<<"mode", 7>>>>}
      /\ Assignments["VeDecoderWidthMode"] = {<<<<"pic_width_more_2048", w>>>> : w \in {0, 1}}
      /\ Assignments["VeSetDramType"] = {DramType}
  BY DEF Assignments
<1>2. CASE f \in {"VeEnableEncoder", "VeDisableEncoder"}
  <2> DEFINE a(m) == <<"mode", m>>
             b(m) == <<"enc_enable", m>>
             c(m) == <<"enc_isp_enable", m>>
  <2>1. \A m \in Nat : a(m) \in Assignment /\ b(m) \in Assignment /\ c(m) \in Assignment
    BY DEF Assignment, Field
  <2>2. /\ f = "VeEnableEncoder" => s = <<a(11), b(1), c(1)>>
        /\ f = "VeDisableEncoder" => s = <<a(7), b(0), c(0)>>
        /\ RestOf(f, s)
    BY <1>1, <1>2 DEF RestOf
  <2> HIDE DEF a, b, c
  <2>3. s \in Seq(Assignment) /\ Len(s) = 3
    <3>1. CASE s = <<a(11), b(1), c(1)>>
      BY <2>1, <3>1
    <3>2. CASE s = <<a(7), b(0), c(0)>>
      BY <2>1, <3>2
    <3> QED
      BY <1>2, <2>2, <3>1, <3>2, Zenon
  <2> QED
    BY <2>2, <2>3
<1>3. CASE f \in {"VeEnableDecoder", "VeDisableDecoder", "VeDecoderWidthMode"}
  BY <1>1, <1>3, Short DEF RestOf, Assignment, Field
<1>4. CASE f = "VeSetDramType"
  BY <1>1, <1>4, DramTypeBegins DEF RestOf
<1> QED
  BY <1>2, <1>3, <1>4 DEF SetsMode, SetsOther

\* How many assignments may be left.
LEMMA Positive ==
  ASSUME NEW n \in Nat \ {0}
  PROVE  (n = 1 \/ n > 1) /\ (n = 1 \/ n = 2 \/ n > 2)
OBVIOUS

\* A loaded word is one.
LEMMA LoadedWord ==
  ASSUME Types, NEW t \in Threads
  PROVE  loaded[t] # <<>> => loaded[t][1] \in Word
BY DEF Types

-----------------------------------------------------------------------------
(* One lemma per action.                                                   *)

\* Initially nobody uses the register.
LEMMA InitInv == Init => Inv
<1> SUFFICES ASSUME Init PROVE Inv
  OBVIOUS
<1>1. word \in Word
  BY DEF Init, ResetWord, Word
<1>2. IsFiniteSet(users) /\ gVeRefCount = Cardinality(users)
  BY FS_EmptySet DEF Init
<1>3. Types
  BY <1>1, <1>2 DEF Init, Types, RestOf
<1>4. Locked
  BY DEF Init, Locked, SetsMode
<1> QED
  BY <1>3, <1>4 DEF Init, Inv, DramInv, EncoderInv

\* Load copies the register.
LEMMA LoadInv ==
  ASSUME Inv, NEW t \in Threads, Load(t)
  PROVE  Inv'
<1> USE DEF Inv
<1>1. /\ loaded'[t] = <<word>> /\ <<word>>[1] = word /\ <<word>> # <<>>
      /\ \A u \in Threads \ {t} : loaded'[u] = loaded[u]
  BY DEF Load, Types
<1>2. Types'
  BY DEF Load, Types, locks
<1>3. Locked'
  BY <1>1 DEF Load, Locked, locks
<1>4. DramInv'
  BY <1>1 DEF Load, DramInv, locks, NobodyResets, Locked, Types
<1>5. EncoderInv'
  BY <1>1 DEF Load, EncoderInv, locks, Types
<1> QED
  BY <1>2, <1>3, <1>4, <1>5

\* Store writes the loaded word with one field changed: under the mutex nobody
\* else has a word in flight, and the field is one the thread may set.
LEMMA StoreInv ==
  ASSUME Inv, NEW t \in Threads, Store(t)
  PROVE  Inv'
<1> USE DEF Inv
<1> DEFINE w == loaded[t][1]
           a == Head(todo[t])
<1>1. /\ loaded[t] # <<>> /\ todo[t] # <<>> /\ t \in gVeRegisterMutex /\ pc[t] # "idle"
      /\ \A u \in Threads : u # t => loaded[u] = <<>> /\ todo[u] = <<>>
      /\ w \in Word
  BY LoadedWord DEF Store, Locked
<1>2. /\ a \in Assignment /\ Tail(todo[t]) \in Seq(Assignment)
      /\ Len(todo[t]) \in Nat \ {0} /\ Len(Tail(todo[t])) = Len(todo[t]) - 1
      /\ RestOf(pc[t], Tail(todo[t]))
      /\ a[1] = "ddr_mode" => a[2] = 3
      /\ a[1] = "rec_wr_mode" => a[2] = 1
      /\ pc[t] \notin SetsMode => a[1] \notin {"mode", "enc_enable", "enc_isp_enable"}
      /\ pc[t] = "VeReset" =>
           /\ Len(todo[t]) = 1 => a = <<"rec_wr_mode", 1>>
           /\ Len(todo[t]) > 1 => Len(todo[t]) = 2 /\ a = <<"ddr_mode", 3>>
      /\ pc[t] = "VeEnableEncoder" =>
           /\ Len(todo[t]) = 1 => a = <<"enc_isp_enable", 1>>
           /\ Len(todo[t]) = 2 => a = <<"enc_enable", 1>>
           /\ Len(todo[t]) > 2 => Len(todo[t]) = 3 /\ a = <<"mode", 11>>
  <2>1. /\ pc[t] \in Function \cup {"idle"} /\ todo[t] \in Seq(Assignment)
        /\ RestOf(pc[t], todo[t])
    BY DEF Types
  <2> QED
    BY <1>1, <2>1, RestStep, Zenon
<1>3. word' = [w EXCEPT ![a[1]] = a[2]]
  BY DEF Store
<1>4. /\ todo'[t] = Tail(todo[t]) /\ \A u \in Threads \ {t} : todo'[u] = todo[u]
      /\ \A u \in Threads : loaded'[u] = <<>>
  BY <1>1 DEF Store, Types
<1> HIDE DEF w, a
<1>5. Len(todo[t]) \in Nat \ {0} /\ Len(todo'[t]) = Len(todo[t]) - 1
  BY <1>2, <1>4
<1>6. /\ word' \in Word
      /\ w.ddr_mode = 3 => word'.ddr_mode = 3
      /\ w.rec_wr_mode = 1 => word'.rec_wr_mode = 1
      /\ pc[t] \notin SetsMode => (Enabled(w) => Enabled(word'))
      /\ a = <<"ddr_mode", 3>> => word'.ddr_mode = 3
      /\ a = <<"rec_wr_mode", 1>> => word'.rec_wr_mode = 1 /\ word'.ddr_mode = w.ddr_mode
      /\ a = <<"mode", 11>> => word'.mode = 11
      /\ a = <<"enc_enable", 1>> => word'.enc_enable = 1 /\ word'.mode = w.mode
      /\ a = <<"enc_isp_enable", 1>> =>
           word'.enc_isp_enable = 1 /\ word'.mode = w.mode /\ word'.enc_enable = w.enc_enable
  <2>1. w \in Word /\ a \in Assignment
    BY <1>1, <1>2
  <2>2. /\ word' \in Word
        /\ (a[1] = "ddr_mode" => a[2] = 3) => (w.ddr_mode = 3 => word'.ddr_mode = 3)
        /\ (a[1] = "rec_wr_mode" => a[2] = 1) => (w.rec_wr_mode = 1 => word'.rec_wr_mode = 1)
        /\ a[1] \notin {"mode", "enc_enable", "enc_isp_enable"} =>
             (Enabled(w) => Enabled(word'))
        /\ a = <<"ddr_mode", 3>> => word'.ddr_mode = 3
        /\ a = <<"rec_wr_mode", 1>> => word'.rec_wr_mode = 1 /\ word'.ddr_mode = w.ddr_mode
        /\ a = <<"mode", 11>> => word'.mode = 11
        /\ a = <<"enc_enable", 1>> => word'.enc_enable = 1 /\ word'.mode = w.mode
        /\ a = <<"enc_isp_enable", 1>> =>
             word'.enc_isp_enable = 1 /\ word'.mode = w.mode /\ word'.enc_enable = w.enc_enable
    BY <1>3, <2>1 DEF Word, Assignment, Field, Enabled
  <2> QED
    BY <1>2, <2>2, Zenon
<1>7. Types'
  <2>1. todo' \in [Threads -> Seq(Assignment)] /\ loaded' \in [Threads -> {<<>>} \cup {<<x>> : x \in Word}]
    BY <1>2, <1>4 DEF Store, Types, a
  <2>2. \A u \in Threads : RestOf(pc[u], todo'[u])
    BY <1>2, <1>4 DEF Types
  <2> QED
    BY <1>6, <2>1, <2>2 DEF Store, Types, locks
<1>8. Locked'
  BY <1>1, <1>4 DEF Store, Locked, locks
<1>9. DramInv'
  <2>1. ASSUME users # {} \/ gVeMutex # {}, NobodyResets PROVE HasDramType(word')
    BY <1>1, <1>6, <2>1 DEF DramInv, HasDramType, w
  <2>2. ASSUME pc[t] = "VeReset"
        PROVE  /\ Len(todo'[t]) <= 1 => word'.ddr_mode = 3
               /\ Len(todo'[t]) = 0 => word'.rec_wr_mode = 1
    <3>1. w = word /\ (Len(todo[t]) <= 1 => word.ddr_mode = 3)
      BY <1>1, <2>2 DEF DramInv, w
    <3>2. CASE Len(todo[t]) = 1
      <4>1. a = <<"rec_wr_mode", 1>>
        BY <1>2, <2>2, <3>2, Zenon
      <4> QED
        BY <1>6, <3>1, <3>2, <4>1
    <3>3. CASE Len(todo[t]) > 1
      <4>1. Len(todo[t]) = 2 /\ a = <<"ddr_mode", 3>>
        BY <1>2, <2>2, <3>3, Zenon
      <4> QED
        BY <1>6, <1>5, <4>1
    <3>4. Len(todo[t]) = 1 \/ Len(todo[t]) > 1
      BY <1>5, Positive, Zenon
    <3> QED
      BY <3>2, <3>3, <3>4, Zenon
  <2> QED
    BY <1>1, <1>4, <2>1, <2>2 DEF Store, DramInv, NobodyResets, locks, Locked
<1>10. EncoderInv'
  <2>1. ASSUME pc[t] = "VeEnableEncoder"
        PROVE  /\ Len(todo'[t]) <= 2 => word'.mode = 11
               /\ Len(todo'[t]) <= 1 => word'.enc_enable = 1
               /\ Len(todo'[t]) = 0 => word'.enc_isp_enable = 1
    <3>1. /\ w = word
          /\ Len(todo[t]) <= 2 => w.mode = 11
          /\ Len(todo[t]) <= 1 => w.enc_enable = 1
      BY <1>1, <2>1 DEF EncoderInv, w
    <3>2. CASE Len(todo[t]) = 1
      <4>1. a = <<"enc_isp_enable", 1>>
        BY <1>2, <2>1, <3>2, Zenon
      <4> QED
        BY <1>6, <3>1, <3>2, <4>1
    <3>3. CASE Len(todo[t]) = 2
      <4>1. a = <<"enc_enable", 1>>
        BY <1>2, <2>1, <3>3, Zenon
      <4> QED
        BY <1>6, <1>5, <3>1, <3>3, <4>1
    <3>4. CASE Len(todo[t]) > 2
      <4>1. Len(todo[t]) = 3 /\ a = <<"mode", 11>>
        BY <1>2, <2>1, <3>4, Zenon
      <4> QED
        BY <1>6, <1>5, <4>1
    <3>5. Len(todo[t]) = 1 \/ Len(todo[t]) = 2 \/ Len(todo[t]) > 2
      BY <1>5, Positive, Zenon
    <3> QED
      BY <3>2, <3>3, <3>4, <3>5, Zenon
  <2>2. \A u \in Threads : pc[u] = "VeEnableEncoder" => u = t
    BY <1>1 DEF Locked
  <2>3. ASSUME encoding # {} PROVE Enabled(word')
    <3>1. pc[t] \notin SetsMode
      BY <2>3 DEF Locked, Types
    <3>2. Enabled(w)
      BY <1>1, <2>3 DEF EncoderInv, w
    <3> QED
      BY <1>6, <3>1, <3>2
  <2> QED
    BY <1>4, <2>1, <2>2, <2>3 DEF Store, EncoderInv, locks
<1> QED
  BY <1>7, <1>8, <1>9, <1>10

\* Leave: what was to be assigned has been.
LEMMA LeaveInv ==
  ASSUME Inv, NEW t \in Threads, Leave(t)
  PROVE  Inv'
<1> USE DEF Inv
<1>1. /\ t \in gVeRegisterMutex /\ todo[t] = <<>> /\ Len(todo[t]) = 0
      /\ \A u \in Threads : loaded[u] = <<>> /\ todo[u] = <<>>
      /\ gVeRegisterMutex' = {}
  BY DEF Leave, Locked, Types
<1>2. /\ pc'[t] = "idle" /\ \A u \in Threads \ {t} : pc'[u] = pc[u]
      /\ word' = word /\ loaded' = loaded /\ todo' = todo /\ users' = users
      /\ gVeMutex' = gVeMutex /\ gVeDecoderMutex' = gVeDecoderMutex
      /\ gVeRefCount' = gVeRefCount
      /\ encoding' = IF pc[t] = "VeEnableEncoder" THEN encoding \cup {t} ELSE encoding
  BY DEF Leave, Types
<1>3. Types'
  BY <1>1, <1>2 DEF Leave, Types, RestOf
<1>4. Locked'
  BY <1>1, <1>2 DEF Locked, SetsMode
<1>5. DramInv'
  <2>1. ASSUME users # {} \/ gVeMutex # {}, NobodyResets' PROVE HasDramType(word)
    <3>1. CASE pc[t] = "VeReset"
      BY <1>1, <3>1 DEF DramInv, HasDramType
    <3>2. CASE pc[t] # "VeReset"
      <4>1. NobodyResets
        BY <1>2, <2>1, <3>2 DEF NobodyResets
      <4> QED
        BY <2>1, <4>1 DEF DramInv
    <3> QED
      BY <3>1, <3>2
  <2> QED
    BY <1>1, <1>2, <2>1 DEF DramInv
<1>6. EncoderInv'
  <2>1. pc[t] = "VeEnableEncoder" => Enabled(word)
    BY <1>1 DEF EncoderInv, Enabled
  <2>2. encoding' # {} => Enabled(word)
    BY <1>2, <2>1 DEF EncoderInv
  <2>3. \A u \in Threads : pc'[u] # "VeEnableEncoder"
    BY <1>1, <1>2 DEF Locked
  <2> QED
    BY <1>1, <1>2, <2>2, <2>3 DEF EncoderInv
<1> QED
  BY <1>3, <1>4, <1>5, <1>6

\* VeReset goes on to VeSetDramType.
LEMMA EnterSetDramTypeInv ==
  ASSUME Inv, NEW t \in Threads, EnterSetDramType(t)
  PROVE  Inv'
<1> USE DEF Inv
<1>1. /\ pc[t] = "VeReset" /\ gVeRegisterMutex = {} /\ gVeRegisterMutex' = {t}
      /\ \A u \in Threads : loaded[u] = <<>> /\ todo[u] = <<>>
      /\ todo'[t] = DramType /\ \A u \in Threads \ {t} : todo'[u] = <<>>
      /\ todo' \in [Threads -> Seq(Assignment)]
  BY DramTypeBegins DEF EnterSetDramType, Enter, RegisterFree, Locked, Types
<1>2. /\ word' = word /\ loaded' = loaded /\ users' = users /\ pc' = pc
      /\ gVeMutex' = gVeMutex /\ gVeDecoderMutex' = gVeDecoderMutex
      /\ gVeRefCount' = gVeRefCount /\ encoding' = encoding
  BY DEF EnterSetDramType
<1>3. Types'
  <2>1. \A u \in Threads : RestOf(pc[u], todo'[u])
    <3>1. RestOf("VeReset", DramType)
      BY DEF RestOf
    <3> QED
      BY <1>1, <3>1 DEF Types
  <2> QED
    BY <1>1, <1>2, <2>1 DEF Types
<1>4. Locked'
  BY <1>1, <1>2 DEF Locked, SetsMode
<1>5. DramInv'
  <2>1. ~ NobodyResets'
    BY <1>1, <1>2 DEF NobodyResets
  <2>2. /\ \A u \in gVeRegisterMutex' : u = t
        /\ loaded'[t] = <<>> /\ Len(todo'[t]) = 2
    BY <1>1, <1>2, DramTypeBegins
  <2>3. ~ (Len(todo'[t]) <= 1) /\ Len(todo'[t]) # 0
    BY <2>2, NotShort, Zenon
  <2>4. \A u \in gVeRegisterMutex' :
          /\ loaded'[u] = <<>>
          /\ ~ (Len(todo'[u]) <= 1) /\ Len(todo'[u]) # 0
    BY <2>2, <2>3, Zenon
  <2> QED
    BY <2>1, <2>4, Zenon DEF DramInv
<1>6. EncoderInv'
  <2>1. \A u \in Threads : pc'[u] # "VeEnableEncoder"
    BY <1>1, <1>2 DEF Locked
  <2> QED
    BY <1>2, <2>1 DEF EncoderInv
<1> QED
  BY <1>3, <1>4, <1>5, <1>6

\* A function begins; it is not VeReset.
LEMMA CallInv ==
  ASSUME Inv, NEW t \in Threads, NEW f \in SetsMode \cup SetsOther, Call(t, f)
  PROVE  Inv'
<1> USE DEF Inv
<1>1. PICK s \in Assignments[f] : Enter(t, s)
  BY DEF Call
<1>2. RestOf(f, s) /\ s \in Seq(Assignment) /\ (f = "VeEnableEncoder" => Len(s) = 3)
  BY RestBegins
<1>3. /\ pc[t] = "idle" /\ gVeRegisterMutex = {} /\ gVeRegisterMutex' = {t}
      /\ \A u \in Threads : loaded[u] = <<>> /\ todo[u] = <<>>
      /\ todo'[t] = s /\ \A u \in Threads \ {t} : todo'[u] = <<>>
      /\ todo' \in [Threads -> Seq(Assignment)]
  BY <1>1, <1>2 DEF Call, Enter, RegisterFree, Locked, Types
<1>4. /\ word' = word /\ loaded' = loaded /\ users' = users
      /\ gVeMutex' = gVeMutex /\ gVeDecoderMutex' = gVeDecoderMutex
      /\ gVeRefCount' = gVeRefCount
      /\ encoding' = IF f \in SetsMode THEN encoding \ {t} ELSE encoding
      /\ t \in users /\ (f \in SetsMode => t \in gVeDecoderMutex)
      /\ pc'[t] = f /\ \A u \in Threads \ {t} : pc'[u] = pc[u]
      /\ pc' \in [Threads -> Function \cup {"idle"}]
      /\ f # "VeReset" /\ f # "idle"
  BY DEF Call, Types, Function, SetsMode, SetsOther
<1>5. Types'
  <2>1. \A u \in Threads : RestOf(pc'[u], todo'[u])
    BY <1>2, <1>3, <1>4 DEF Types
  <2> QED
    BY <1>3, <1>4, <2>1 DEF Types
<1>6. Locked'
  BY <1>3, <1>4 DEF Locked
<1>7. DramInv'
  <2>1. NobodyResets' => NobodyResets
    BY <1>3, <1>4 DEF NobodyResets
  <2> QED
    BY <1>3, <1>4, <2>1 DEF DramInv
<1>8. EncoderInv'
  <2>1. \A u \in Threads \ {t} : pc'[u] # "VeEnableEncoder"
    BY <1>3, <1>4 DEF Locked
  <2>2. pc'[t] = "VeEnableEncoder" => loaded'[t] = <<>> /\ Len(todo'[t]) = 3
    BY <1>2, <1>3, <1>4
  <2>3. pc'[t] = "VeEnableEncoder" =>
          /\ ~ (Len(todo'[t]) <= 2) /\ ~ (Len(todo'[t]) <= 1) /\ Len(todo'[t]) # 0
    BY <2>2, NotShort, Zenon
  <2>4. \A u \in Threads :
          pc'[u] = "VeEnableEncoder" =>
            /\ loaded'[u] = <<>>
            /\ ~ (Len(todo'[u]) <= 2) /\ ~ (Len(todo'[u]) <= 1) /\ Len(todo'[u]) # 0
    BY <2>1, <2>2, <2>3, Zenon
  <2>5. encoding' # {} => Enabled(word') /\ \A u \in Threads : loaded'[u] = <<>>
    BY <1>3, <1>4 DEF EncoderInv
  <2> QED
    BY <2>4, <2>5, Zenon DEF EncoderInv
<1> QED
  BY <1>5, <1>6, <1>7, <1>8

\* A reset: whoever is in the engine lock has it, and the first user is alone.
LEMMA ResetInv ==
  ASSUME Inv, NEW t \in Threads, pc[t] = "idle", ResetRegister(t),
         \/ t \in gVeDecoderMutex /\ gVeMutex' = gVeMutex
         \/ users = {} /\ gVeMutex = {} /\ gVeMutex' = {t},
         encoding' = encoding \ {t},
         UNCHANGED <<gVeRefCount, gVeRegisterMutex, gVeDecoderMutex, users, todo, loaded>>
  PROVE  Inv'
<1> USE DEF Inv
<1>1. /\ word' = ResetWord /\ ResetWord \in Word
      /\ pc'[t] = "VeReset" /\ \A u \in Threads \ {t} : pc'[u] = pc[u]
      /\ pc' \in [Threads -> Function \cup {"idle"}]
      /\ todo[t] = <<>> /\ t \notin gVeRegisterMutex
  BY DEF ResetRegister, ResetWord, Word, Types, Function, Locked
<1>2. encoding' = {} /\ \A u \in Threads : pc[u] # "VeReset" /\ pc[u] \notin SetsMode
  BY DEF Locked, SetsMode
<1>3. Types'
  <2>1. RestOf("VeReset", <<>>)
    BY DEF RestOf
  <2>2. \A u \in Threads : RestOf(pc'[u], todo[u])
    BY <1>1, <2>1 DEF Types
  <2> QED
    BY <1>1, <2>2 DEF Types
<1>4. Locked'
  BY <1>1, <1>2 DEF Locked, SetsMode
<1>5. DramInv'
  BY <1>1, <1>2 DEF DramInv, NobodyResets, Types
<1>6. EncoderInv'
  BY <1>1, <1>2 DEF EncoderInv, SetsMode
<1> QED
  BY <1>3, <1>4, <1>5, <1>6

\* Coming, going and the engine lock do not touch the register.
LEMMA UserInv ==
  ASSUME Inv, NEW t \in Threads,
         \/ VeInitialize(t) /\ ~ FirstUser
         \/ VeInitialized(t) \/ VeRelease(t) \/ VeLock(t) \/ VeUnLock(t)
  PROVE  Inv'
<1> USE DEF Inv
<1>1. /\ pc[t] = "idle"
      /\ UNCHANGED <<word, gVeRegisterMutex, pc, todo, loaded, encoding>>
  BY DEF VeInitialize, VeInitialized, VeRelease, VeLock, VeUnLock, locks
<1>2. /\ gVeRefCount' \in Nat /\ IsFiniteSet(users')
      /\ gVeRefCount' = Cardinality(users')
  <2>1. CASE UNCHANGED <<users, gVeRefCount>>
    BY <2>1 DEF Types
  <2>2. CASE VeInitialized(t)
    <3>1. t \notin users /\ users' = users \cup {t} /\ gVeRefCount' = gVeRefCount + 1
      BY <2>2 DEF VeInitialized, Locked
    <3> QED
      BY <3>1, FS_AddElement DEF Types
  <2>3. CASE VeRelease(t)
    <3>1. t \in users /\ users' = users \ {t} /\ gVeRefCount' = gVeRefCount - 1
      BY <2>3 DEF VeRelease
    <3>2. /\ IsFiniteSet(users') /\ Cardinality(users') = Cardinality(users) - 1
          /\ Cardinality(users') \in Nat
      BY <3>1, FS_RemoveElement, FS_CardinalityType DEF Types
    <3> QED
      BY <3>1, <3>2 DEF Types
  <2> QED
    BY <2>1, <2>2, <2>3 DEF VeInitialize, VeLock, VeUnLock
<1>3. users = {} => gVeRefCount = 0
  BY FS_EmptySet DEF Types
<1>4. Types'
  BY <1>1, <1>2 DEF Types, VeInitialize, VeInitialized, VeRelease, VeLock, VeUnLock, locks
<1>5. Locked'
  <2>1. CASE VeInitialize(t) /\ ~ FirstUser
    BY <1>1, <1>3, <2>1 DEF VeInitialize, FirstUser, Locked
  <2>2. CASE VeInitialized(t)
    BY <1>1, <2>2 DEF VeInitialized, Locked
  <2>3. CASE VeRelease(t)
    BY <1>1, <2>3 DEF VeRelease, Locked, locks
  <2>4. CASE VeLock(t)
    BY <1>1, <2>4 DEF VeLock, EngineFree, Locked
  <2>5. CASE VeUnLock(t)
    BY <1>1, <2>5 DEF VeUnLock, Locked, SetsMode
  <2> QED
    BY <2>1, <2>2, <2>3, <2>4, <2>5
<1>6. DramInv'
  <2>1. users' # {} \/ gVeMutex' # {} => users # {} \/ gVeMutex # {}
    BY <1>3 DEF VeInitialize, VeInitialized, VeRelease, VeLock, VeUnLock, FirstUser, locks
  <2> QED
    BY <1>1, <2>1 DEF DramInv, NobodyResets
<1>7. EncoderInv'
  BY <1>1 DEF EncoderInv
<1> QED
  BY <1>4, <1>5, <1>6, <1>7

-----------------------------------------------------------------------------

\* Every step of every thread.
LEMMA StepInv == Inv /\ [Next]_vars => Inv'
<1> SUFFICES ASSUME Inv, [Next]_vars PROVE Inv'
  OBVIOUS
<1>1. ASSUME NEW t \in Threads, VeInitialize(t), FirstUser PROVE Inv'
  <2>1. users = {}
    BY <1>1, FS_EmptySet DEF FirstUser, Inv, Types
  <2>2. /\ pc[t] = "idle" /\ ResetRegister(t) /\ gVeMutex = {} /\ gVeMutex' = {t}
        /\ encoding' = encoding \ {t}
        /\ UNCHANGED <<gVeRefCount, gVeRegisterMutex, gVeDecoderMutex, users, todo, loaded>>
    BY <1>1, <2>1 DEF VeInitialize, Inv, Locked
  <2> QED
    BY <2>1, <2>2, ResetInv
<1>2. ASSUME NEW t \in Threads, VeReset(t) PROVE Inv'
  <2>1. /\ pc[t] = "idle" /\ ResetRegister(t) /\ t \in gVeDecoderMutex /\ gVeMutex' = gVeMutex
        /\ encoding' = encoding \ {t}
        /\ UNCHANGED <<gVeRefCount, gVeRegisterMutex, gVeDecoderMutex, users, todo, loaded>>
    BY <1>2 DEF VeReset, locks
  <2> QED
    BY <2>1, ResetInv
<1>3. ASSUME NEW t \in Threads,
             \/ VeInitialize(t) /\ ~ FirstUser
             \/ VeInitialized(t) \/ VeRelease(t) \/ VeLock(t) \/ VeUnLock(t)
      PROVE  Inv'
  BY <1>3, UserInv
<1>4. ASSUME NEW t \in Threads, NEW f \in SetsMode \cup SetsOther, Call(t, f) PROVE Inv'
  BY <1>4, CallInv
<1>5. ASSUME NEW t \in Threads, EnterSetDramType(t) \/ Load(t) \/ Store(t) \/ Leave(t)
      PROVE  Inv'
  BY <1>5, EnterSetDramTypeInv, LoadInv, StoreInv, LeaveInv
<1>6. CASE UNCHANGED vars
  BY <1>6 DEF Inv, Types, Locked, DramInv, EncoderInv, NobodyResets, vars, locks
<1> QED
  BY <1>1, <1>2, <1>3, <1>4, <1>5, <1>6 DEF Next

\* For any number of threads: neither the reset outside gVeRegisterMutex nor a
\* store in flight ever takes the DRAM type from an engine that may be used.
THEOREM DramTypeKept == Spec => []DramTypeSet
<1>1. Inv => DramTypeSet
  BY DEF Inv, DramInv, NobodyResets, HasDramType, DramTypeSet
<1> QED
  BY <1>1, InitInv, StepInv, PTL DEF Spec

\* For any number of threads: an encoder that has been enabled stays enabled
\* until its thread says otherwise.
THEOREM EncoderKept == Spec => []EncoderStaysEnabled
<1>1. Inv => EncoderStaysEnabled
  BY DEF Inv, EncoderInv, Enabled, EncoderStaysEnabled
<1> QED
  BY <1>1, InitInv, StepInv, PTL DEF Spec
=============================================================================
