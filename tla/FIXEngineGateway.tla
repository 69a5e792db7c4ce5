-------------------------- MODULE FIXEngineGateway --------------------------
(***************************************************************************)
(* Inbound FIX sessions, src/src/gateway/fix/fix_gateway.py.               *)
(*                                                                         *)
(* The gateway keeps its sessions in two dicts, by session id (begin       *)
(* string and sender) and by sender, and hands the session objects out to  *)
(* its callers, who may hold on to them.  An object is modelled by the     *)
(* number of its creation.  Each call of process_inbound is one action:    *)
(* a frame the parser refuses, or a message.                               *)
(***************************************************************************)
EXTENDS Naturals

CONSTANTS
  Senders,      \* SenderCompIDs
  BeginStrings, \* supported BeginStrings
  SeqNums,      \* MsgSeqNum values, NoField where tag 34 is missing
  Heartbeats,   \* HeartBtInt values, NoField where tag 108 is missing
  NoField,      \* a missing field, or no sender
  MaxSessions   \* how many session objects a behaviour may create

ASSUME GatewayAssumption ==
  /\ MaxSessions \in Nat
  /\ NoField \notin Senders
  /\ SeqNums \subseteq Nat \cup {NoField} /\ Heartbeats \subseteq Nat \cup {NoField}
  /\ NoField \notin Nat

VARIABLES
  session,  \* the FIXSession objects, by number
  created,  \* how many there are
  bySender, \* _sessions_by_sender: sender -> object number, 0 for none
  byId,     \* _sessions: <<begin string, sender>> -> object number, 0 for none
  last      \* the sender named by the last frame (history)

vars == <<session, created, bySender, byId, last>>

Ids == BeginStrings \X Senders
Objects == 1 .. created
Messages ==
  [begin : BeginStrings, sender : Senders \cup {NoField}, ours : BOOLEAN,
   logon : BOOLEAN, seq : SeqNums, hb : Heartbeats]

Init ==
  /\ session = <<>>
  /\ created = 0
  /\ bySender = [s \in Senders |-> 0]
  /\ byId = [i \in Ids |-> 0]
  /\ last = NoField

Default(value, default) == IF value = NoField THEN default ELSE value
IdOf(n) == <<session[n].begin, session[n].sender>>

\* Only authenticated sessions count as present (is_authenticated).
Present(s) == bySender[s] # 0 /\ session[bySender[s]].state = "AUTHENTICATED"

MutForgetsId(n) == byId
IdsWithout(n) == [byId EXCEPT ![IdOf(n)] = 0]

Rejected(n) == [session EXCEPT ![n].state = "REJECTED"]

\* _terminate_session: out of both dicts, and marked for whoever still has it.
Terminate(s) ==
  IF s \in Senders /\ bySender[s] # 0
  THEN /\ session' = Rejected(bySender[s])
       /\ byId' = IdsWithout(bySender[s])
       /\ bySender' = [bySender EXCEPT ![s] = 0]
       /\ UNCHANGED created
  ELSE UNCHANGED <<session, byId, bySender, created>>

\* The parser raises; the sender is guessed from the raw bytes if it can be.
RejectFrame(s) ==
  /\ last' = s
  /\ Terminate(s)

\* A message for another target, or with no sender.
RejectTarget(m) ==
  /\ ~m.ours
  /\ last' = m.sender
  /\ Terminate(m.sender)

RejectSender(m) ==
  /\ m.ours
  /\ m.sender = NoField
  /\ last' = NoField
  /\ UNCHANGED <<session, created, bySender, byId>>

\* The first message of a sender is not a Logon.
RejectFirst(m) ==
  /\ m.ours
  /\ m.sender \in Senders
  /\ ~Present(m.sender)
  /\ ~m.logon
  /\ last' = m.sender
  /\ Terminate(m.sender)

NewSession(m) ==
  [begin |-> m.begin, sender |-> m.sender, hb |-> Default(m.hb, 30),
   inSeq |-> Default(m.seq, 1), state |-> "AUTHENTICATED"]

Registers(m) == byId' = [byId EXCEPT ![<<m.begin, m.sender>>] = created + 1]

\* A Logon opens a session.
Logon(m) ==
  /\ m.ours
  /\ m.sender \in Senders
  /\ ~Present(m.sender)
  /\ m.logon
  /\ created < MaxSessions
  /\ created' = created + 1
  /\ session' = [n \in 1 .. created + 1 |->
                   IF n = created + 1 THEN NewSession(m) ELSE session[n]]
  /\ Registers(m)
  /\ bySender' = [bySender EXCEPT ![m.sender] = created + 1]
  /\ last' = m.sender


MutNewest(m) == created
SessionOf(m) == bySender[m.sender]

\* Any message of an authenticated sender: the sequence number is taken as it
\* comes, a Logon may change the heartbeat interval.
Receive(m) ==
  /\ m.ours
  /\ m.sender \in Senders
  /\ Present(m.sender)
  /\ session' = [session EXCEPT
       ![SessionOf(m)].inSeq = Default(m.seq, @),
       ![SessionOf(m)].hb = IF m.logon THEN Default(m.hb, @) ELSE @]
  /\ last' = m.sender
  /\ UNCHANGED <<created, bySender, byId>>

Message(m) ==
  RejectTarget(m) \/ RejectSender(m) \/ RejectFirst(m) \/ Logon(m) \/ Receive(m)

Next ==
  \/ \E s \in Senders \cup {NoField} : RejectFrame(s)
  \/ \E m \in Messages : Message(m)

Spec == Init /\ [][Next]_vars

-----------------------------------------------------------------------------
(***************************************************************************)
(* Properties.                                                             *)
(***************************************************************************)
SessionRecords ==
  [begin : BeginStrings, sender : Senders, hb : Nat, inSeq : Nat,
   state : {"AUTHENTICATED", "REJECTED"}]

\* Every variable has the shape of the field it stands for.
TypeOK ==
  /\ created \in 0 .. MaxSessions
  /\ session \in [Objects -> SessionRecords]
  /\ bySender \in [Senders -> 0 .. created]
  /\ byId \in [Ids -> 0 .. created]
  /\ last \in Senders \cup {NoField}

\* The two dicts always agree, and they agree with the objects handed out: a
\* session object is AUTHENTICATED exactly as long as it is found under its
\* own sender and exactly as long as it is found under its own id.  A sender has
\* therefore one live session at most, whatever begin strings it logs on with.
RegistriesAgree ==
  /\ TypeOK
  /\ \A n \in Objects :
       /\ session[n].state = "AUTHENTICATED" <=> bySender[session[n].sender] = n
       /\ session[n].state = "AUTHENTICATED" <=> byId[IdOf(n)] = n
  /\ \A s \in Senders : bySender[s] # 0 => session[bySender[s]].sender = s
  /\ \A i \in Ids : byId[i] # 0 => IdOf(byId[i]) = i

\* A frame touches no session but those of the sender it names, and a session
\* once rejected is never touched again, though its owner may log on anew.
SenderIsolation ==
  [][\A n \in Objects : session'[n] # session[n] =>
       session[n].sender = last' /\ session[n].state = "AUTHENTICATED"]_vars
=============================================================================
