---------------------------- MODULE InMemoryLink ----------------------------
(***************************************************************************)
(* Shared/inmemorylink.cpp: the pair of Links the EmuServer runs its       *)
(* IServer and its CPU over, each end used by one thread.                  *)
(*                                                                         *)
(* InMemoryLinkFactory makes two ByteRegisters and crosses them over: an   *)
(* end writes its own register and reads its peer's.  A register is a byte *)
(* and a flag behind a mutex, so read_maybe and write_maybe are atomic;    *)
(* readByte and writeByte poll them in a loop, yielding between attempts.  *)
(* An attempt that fails changes nothing and is a stuttering step here.    *)
(***************************************************************************)
EXTENDS Naturals, Sequences

CONSTANTS
  Byte,        \* the values a BYTE8 is drawn from, 0 among them
  MaxBytes     \* bound: how many bytes each end starts to write

ASSUME ByteAssumption == 0 \in Byte
ASSUME MaxBytesAssumption == MaxBytes \in Nat

VARIABLES
  m_register,  \* the byte in the register that each end writes
  m_storing,   \* is there a byte in it that the peer has not read?
  call,        \* the call each end's thread is in, or "none"
  bufstore,    \* the argument of each end's writeByte
  wrote,       \* history: the bytes each end has stored
  got          \* history: the bytes each end has read

vars == <<m_register, m_storing, call, bufstore, wrote, got>>

End == {"A", "B"}                       \* linkA, the IServer's; linkB, the CPU's
Peer(e) == IF e = "A" THEN "B" ELSE "A" \* whose register this end reads
Call == {"none", "readByte", "writeByte"}

-----------------------------------------------------------------------------
Init == /\ m_register = [e \in End |-> 0]
        /\ m_storing = [e \in End |-> FALSE]
        /\ call = [e \in End |-> "none"]
        /\ bufstore = [e \in End |-> 0]
        /\ wrote = [e \in End |-> <<>>]
        /\ got = [e \in End |-> <<>>]

CallReadByte(e) ==
  /\ call[e] = "none"
  /\ call' = [call EXCEPT ![e] = "readByte"]
  /\ UNCHANGED <<m_register, m_storing, bufstore, wrote, got>>

CallWriteByte(e, b) ==
  /\ call[e] = "none"
  /\ Len(wrote[e]) < MaxBytes
  /\ call' = [call EXCEPT ![e] = "writeByte"]
  /\ bufstore' = [bufstore EXCEPT ![e] = b]
  /\ UNCHANGED <<m_register, m_storing, wrote, got>>

(* A read_maybe that leaves m_storing set, so that a byte is read twice. *)
read_maybe_keeps(e) ==
  /\ call[e] = "readByte"
  /\ m_storing[Peer(e)]
  /\ got' = [got EXCEPT ![e] = Append(@, m_register[Peer(e)])]
  /\ call' = [call EXCEPT ![e] = "none"]
  /\ UNCHANGED <<m_register, m_storing, bufstore, wrote>>

(* The attempt of readByte's loop that finds a byte, and the return. *)
read_maybe(e) ==
  /\ call[e] = "readByte"
  /\ m_storing[Peer(e)]
  /\ m_storing' = [m_storing EXCEPT ![Peer(e)] = FALSE]
  /\ got' = [got EXCEPT ![e] = Append(@, m_register[Peer(e)])]
  /\ call' = [call EXCEPT ![e] = "none"]
  /\ UNCHANGED <<m_register, bufstore, wrote>>

(* A write_maybe that stores over a byte nobody has read yet. *)
write_maybe_unguarded(e) ==
  /\ call[e] = "writeByte"
  /\ m_register' = [m_register EXCEPT ![e] = bufstore[e]]
  /\ m_storing' = [m_storing EXCEPT ![e] = TRUE]
  /\ wrote' = [wrote EXCEPT ![e] = Append(@, bufstore[e])]
  /\ call' = [call EXCEPT ![e] = "none"]
  /\ UNCHANGED <<bufstore, got>>

(* A write_maybe that forgets to set m_storing. *)
write_maybe_unflagged(e) ==
  /\ call[e] = "writeByte"
  /\ ~m_storing[e]
  /\ m_register' = [m_register EXCEPT ![e] = bufstore[e]]
  /\ wrote' = [wrote EXCEPT ![e] = Append(@, bufstore[e])]
  /\ call' = [call EXCEPT ![e] = "none"]
  /\ UNCHANGED <<m_storing, bufstore, got>>

(* The attempt of writeByte's loop that finds the register empty. *)
write_maybe(e) ==
  /\ call[e] = "writeByte"
  /\ ~m_storing[e]
  /\ m_register' = [m_register EXCEPT ![e] = bufstore[e]]
  /\ m_storing' = [m_storing EXCEPT ![e] = TRUE]
  /\ wrote' = [wrote EXCEPT ![e] = Append(@, bufstore[e])]
  /\ call' = [call EXCEPT ![e] = "none"]
  /\ UNCHANGED <<bufstore, got>>

Next == \E e \in End :
          \/ CallReadByte(e)
          \/ \E b \in Byte : CallWriteByte(e, b)
          \/ read_maybe(e)
          \/ write_maybe(e)

(* The loops never give up, so each attempt is fair; a thread need not     *)
(* make another call.                                                      *)
Fairness == \A e \in End : WF_vars(read_maybe(e)) /\ WF_vars(write_maybe(e))

Spec == Init /\ [][Next]_vars
FairSpec == Spec /\ Fairness

-----------------------------------------------------------------------------
(* The types of the variables; the bound also says that a thread stores at *)
(* most the bytes it has been asked to.                                    *)
TypeOK ==
  /\ m_register \in [End -> Byte]
  /\ m_storing \in [End -> BOOLEAN]
  /\ call \in [End -> Call]
  /\ bufstore \in [End -> Byte]
  /\ wrote \in [End -> Seq(Byte)]
  /\ got \in [End -> Seq(Byte)]

Slot(e) == IF m_storing[e] THEN <<m_register[e]>> ELSE <<>>

(* No byte is lost, duplicated, reordered or altered between writeByte at  *)
(* one end and readByte at the other: the only byte the reader has not yet *)
(* had is the one in the register.                                         *)
NothingLost == \A e \in End : wrote[e] = got[Peer(e)] \o Slot(e)

(* Each direction of the pair is a one-byte first-in first-out channel.    *)
AtoB == INSTANCE ByteChannel WITH accepted <- wrote["A"], taken <- got["B"]
BtoA == INSTANCE ByteChannel WITH accepted <- wrote["B"], taken <- got["A"]
ImplementsChannel == AtoB!Spec /\ BtoA!Spec

(* writeByte and readByte meet: when one end is in writeByte and the other *)
(* in readByte, both calls return.                                         *)
CallsMeet ==
  \A e \in End :
    /\ call[e] = "writeByte" /\ call[Peer(e)] = "readByte" ~> call[e] = "none"
    /\ call[e] = "writeByte" /\ call[Peer(e)] = "readByte" ~> call[Peer(e)] = "none"
=============================================================================
