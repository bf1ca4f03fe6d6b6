----------------------------- MODULE VeRegisters -----------------------------
(***************************************************************************)
(* The mode register of the video engine (common/ve.c, ve_types.h), which  *)
(* encoders and decoders in several threads share.                         *)
(*                                                                         *)
(* The fields of vetop_reg_mode_sel_t are bits of one word: to assign one  *)
(* is to load the word and to store it again, two steps.  Every function   *)
(* that assigns fields holds gVeRegisterMutex.  VeReset does not: it       *)
(* resets the engine, and the register with it, before it calls            *)
(* VeSetDramType, which takes the mutex.                                   *)
(*                                                                         *)
(* VeLock and VeEncoderLock are the same lock.  Threads enable, disable    *)
(* and reset the engine while they hold it, as vencoder.c does around the  *)
(* device's init and encode; the width mode and the DRAM type are set with *)
(* or without it.                                                          *)
(***************************************************************************)
EXTENDS Integers, Sequences

CONSTANT Threads  \* encoders and decoders

VARIABLES
  word,             \* the register: the value of every field
  gVeRefCount,
  gVeMutex, gVeRegisterMutex, gVeDecoderMutex,  \* the threads that hold each
  users,            \* the threads between VeInitialize and VeRelease
  pc,               \* the function each thread is in
  todo,             \* the assignments it still has to make
  loaded,           \* the word it has loaded, <<>> when none
  encoding          \* the threads that have enabled the encoder

locks == <<gVeMutex, gVeRegisterMutex, gVeDecoderMutex>>
vars == <<word, gVeRefCount, locks, users, pc, todo, loaded, encoding>>

Field == {"mode", "enc_enable", "enc_isp_enable", "ddr_mode", "rec_wr_mode",
          "pic_width_more_2048"}

\* Hardware: what a reset leaves in the register.
ResetWord == [f \in Field |-> 0]

\* The case of the DRAM that src/util/config.h sets.
DramType == <<<<"ddr_mode", 3>>, <<"rec_wr_mode", 1>>>>

\* What each function assigns; a decoder's mode is 0 or 1, by its region.
Assignments ==
  [VeEnableEncoder    |-> {<<<<"mode", 11>>, <<"enc_enable", 1>>, <<"enc_isp_enable", 1>>>>},
   VeDisableEncoder   |-> {<<<<"mode", 7>>, <<"enc_enable", 0>>, <<"enc_isp_enable", 0>>>>},
   VeEnableDecoder    |-> {<<<<"mode", m>>>> : m \in {0, 1}},
   VeDisableDecoder   |-> {<<<<"mode", 7>>>>},
   VeDecoderWidthMode |-> {<<<<"pic_width_more_2048", w>>>> : w \in {0, 1}},
   VeSetDramType      |-> {DramType}]

SetsMode == {"VeEnableEncoder", "VeDisableEncoder", "VeEnableDecoder", "VeDisableDecoder"}
SetsOther == {"VeDecoderWidthMode", "VeSetDramType"}

Init ==
  /\ word = ResetWord
  /\ gVeRefCount = 0
  /\ gVeMutex = {} /\ gVeRegisterMutex = {} /\ gVeDecoderMutex = {}
  /\ users = {}
  /\ pc = [t \in Threads |-> "idle"]
  /\ todo = [t \in Threads |-> <<>>]
  /\ loaded = [t \in Threads |-> <<>>]
  /\ encoding = {}

-----------------------------------------------------------------------------
(* A function that assigns fields: it takes the mutex, loads and stores    *)
(* once for each field, and gives the mutex back.                          *)

\* Mutant: the functions do not lock.
NoMutex == TRUE

RegisterFree == gVeRegisterMutex = {}

Enter(t, assigned) ==
  /\ RegisterFree
  /\ gVeRegisterMutex' = gVeRegisterMutex \cup {t}
  /\ todo' = [todo EXCEPT ![t] = assigned]

Load(t) ==
  /\ todo[t] # <<>> /\ loaded[t] = <<>>
  /\ loaded' = [loaded EXCEPT ![t] = <<word>>]
  /\ UNCHANGED <<word, gVeRefCount, locks, users, pc, todo, encoding>>

Store(t) ==
  /\ loaded[t] # <<>>
  /\ word' = [loaded[t][1] EXCEPT ![Head(todo[t])[1]] = Head(todo[t])[2]]
  /\ loaded' = [loaded EXCEPT ![t] = <<>>]
  /\ todo' = [todo EXCEPT ![t] = Tail(@)]
  /\ UNCHANGED <<gVeRefCount, locks, users, pc, encoding>>

Leave(t) ==
  /\ t \in gVeRegisterMutex /\ todo[t] = <<>>
  /\ gVeRegisterMutex' = gVeRegisterMutex \ {t}
  /\ encoding' = IF pc[t] = "VeEnableEncoder" THEN encoding \cup {t} ELSE encoding
  /\ pc' = [pc EXCEPT ![t] = "idle"]
  /\ UNCHANGED <<word, gVeRefCount, gVeMutex, gVeDecoderMutex, users, todo, loaded>>

-----------------------------------------------------------------------------
(* VeReset                                                                 *)

\* IOCTL_RESET_VE, without gVeRegisterMutex.
ResetRegister(t) ==
  /\ word' = ResetWord
  /\ pc' = [pc EXCEPT ![t] = "VeReset"]

\* Its call of VeSetDramType.
EnterSetDramType(t) ==
  /\ pc[t] = "VeReset" /\ t \notin gVeRegisterMutex
  /\ Enter(t, DramType)
  /\ UNCHANGED <<word, gVeRefCount, gVeMutex, gVeDecoderMutex, users, pc, loaded, encoding>>

-----------------------------------------------------------------------------
(* VeInitialize and VeRelease                                              *)

FirstUser == gVeRefCount = 0

VeInitialize(t) ==
  /\ pc[t] = "idle" /\ t \notin users
  /\ gVeMutex = {}
  /\ gVeMutex' = {t}
  /\ \/ FirstUser /\ ResetRegister(t)
     \/ ~ FirstUser /\ UNCHANGED <<word, pc>>
  /\ UNCHANGED <<gVeRefCount, gVeRegisterMutex, gVeDecoderMutex, users, todo, loaded, encoding>>

VeInitialized(t) ==
  /\ pc[t] = "idle" /\ t \in gVeMutex
  /\ gVeRefCount' = gVeRefCount + 1
  /\ gVeMutex' = {}
  /\ users' = users \cup {t}
  /\ UNCHANGED <<word, gVeRegisterMutex, gVeDecoderMutex, pc, todo, loaded, encoding>>

VeRelease(t) ==
  /\ pc[t] = "idle" /\ t \in users \ gVeDecoderMutex
  /\ gVeMutex = {}
  /\ gVeRefCount' = gVeRefCount - 1
  /\ users' = users \ {t}
  /\ UNCHANGED <<word, locks, pc, todo, loaded, encoding>>

-----------------------------------------------------------------------------
(* What a user does.                                                       *)

\* Mutant: encoders have a lock of their own.
OtherLock == TRUE

EngineFree == gVeDecoderMutex = {}

VeLock(t) ==
  /\ pc[t] = "idle" /\ t \in users \ gVeDecoderMutex
  /\ EngineFree
  /\ gVeDecoderMutex' = gVeDecoderMutex \cup {t}
  /\ UNCHANGED <<word, gVeRefCount, gVeMutex, gVeRegisterMutex, users, pc, todo, loaded, encoding>>

\* The encoder was disabled or reset before.
VeUnLock(t) ==
  /\ pc[t] = "idle" /\ t \in gVeDecoderMutex \ encoding
  /\ gVeDecoderMutex' = gVeDecoderMutex \ {t}
  /\ UNCHANGED <<word, gVeRefCount, gVeMutex, gVeRegisterMutex, users, pc, todo, loaded, encoding>>

Call(t, function) ==
  /\ pc[t] = "idle" /\ t \in users
  /\ function \in SetsMode => t \in gVeDecoderMutex
  /\ \E assigned \in Assignments[function] : Enter(t, assigned)
  /\ pc' = [pc EXCEPT ![t] = function]
  /\ encoding' = IF function \in SetsMode THEN encoding \ {t} ELSE encoding
  /\ UNCHANGED <<word, gVeRefCount, gVeMutex, gVeDecoderMutex, users, loaded>>

VeReset(t) ==
  /\ pc[t] = "idle" /\ t \in gVeDecoderMutex
  /\ ResetRegister(t)
  /\ encoding' = encoding \ {t}
  /\ UNCHANGED <<gVeRefCount, locks, users, todo, loaded>>

-----------------------------------------------------------------------------

Next ==
  \E t \in Threads :
    \/ VeInitialize(t) \/ VeInitialized(t) \/ VeRelease(t)
    \/ VeLock(t) \/ VeUnLock(t)
    \/ \E function \in SetsMode \cup SetsOther : Call(t, function)
    \/ VeReset(t) \/ EnterSetDramType(t)
    \/ Load(t) \/ Store(t) \/ Leave(t)

Spec == Init /\ [][Next]_vars

-----------------------------------------------------------------------------
(* Properties.                                                             *)

\* The register has the DRAM type whenever it may be used and no thread is in
\* VeReset: although the reset itself is not under gVeRegisterMutex, neither it
\* nor a store in flight ever leaves the register without the type.
DramTypeSet ==
  users # {} /\ (\A t \in Threads : pc[t] # "VeReset") =>
    word.ddr_mode = 3 /\ word.rec_wr_mode = 1

\* From VeEnableEncoder to the thread's next call that sets the mode, the
\* encoder stays enabled, whatever the other threads initialize, release, set
\* and reset: nobody else's assignment or reset comes in between, and no store
\* of another field carries older values.
EncoderStaysEnabled ==
  \A t \in encoding :
    word.mode = 11 /\ word.enc_enable = 1 /\ word.enc_isp_enable = 1
=============================================================================
