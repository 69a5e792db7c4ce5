------------------------- MODULE ConnectivityProofs -------------------------
(***************************************************************************)
(* Proofs about the FIX gateway, the exchange adapter and the WebSocket    *)
(* client, as MCConnectivity puts them together: for any senders, begin    *)
(* strings, sequence numbers, sessions, tasks, connections, retries and    *)
(* delays.                                                                 *)
(***************************************************************************)
EXTENDS MCConnectivity, FiniteSetTheorems, TLAPS

-----------------------------------------------------------------------------
(***************************************************************************)
(* The FIX gateway.                                                        *)
(*                                                                         *)
(* RegistriesAgree is inductive as it stands: a sender without a present   *)
(* session is in neither dict (NoStaleEntry), so a Logon overwrites no     *)
(* entry, and _terminate_session finds the one session of its sender under *)
(* the id it removes.                                                      *)
(***************************************************************************)
\* What the parser of a message promises of a field, with the code's defaults.
LEMMA DefaultIsNat ==
  ASSUME NEW value \in Nat \cup {NoField}, NEW default \in Nat
  PROVE  Default(value, default) \in Nat
BY DEF Default

\* Where no session of a sender is present, the dicts have no entry that a
\* Logon of this sender would overwrite.
LEMMA NoStaleEntry ==
  ASSUME RegistriesAgree, NEW s \in Senders, ~Present(s), NEW b \in BeginStrings
  PROVE  bySender[s] = 0 /\ byId[<<b, s>>] = 0
<1>1. bySender[s] = 0
  <2>1. CASE bySender[s] # 0
    <3>1. bySender[s] \in Objects /\ session[bySender[s]].sender = s
      BY <2>1 DEF RegistriesAgree, TypeOK, Objects
    <3>2. session[bySender[s]].state = "AUTHENTICATED"
      BY <3>1 DEF RegistriesAgree
    <3>. QED BY <2>1, <3>2 DEF Present
  <2>. QED BY <2>1
<1>2. byId[<<b, s>>] = 0
  <2>. DEFINE k == byId[<<b, s>>]
  <2>1. CASE k # 0
    <3>1. <<b, s>> \in Ids BY DEF Ids
    <3>2. k \in Objects /\ IdOf(k) = <<b, s>>
      BY <2>1, <3>1 DEF RegistriesAgree, TypeOK, Objects
    <3>3. session[k].state = "AUTHENTICATED" /\ session[k].sender = s
      BY <3>2 DEF RegistriesAgree, IdOf
    <3>4. bySender[s] = k BY <3>2, <3>3 DEF RegistriesAgree
    <3>. QED BY <1>1, <2>1, <3>4
  <2>. QED BY <2>1
<1>. QED BY <1>1, <1>2

\* _terminate_session keeps the dicts in agreement and touches the session of
\* its sender only.
LEMMA TerminateAgrees ==
  ASSUME RegistriesAgree, NEW s \in Senders \cup {NoField}, Terminate(s), last' = s
  PROVE  /\ RegistriesAgree'
         /\ \A n \in Objects : session'[n] # session[n] =>
              session[n].sender = last' /\ session[n].state = "AUTHENTICATED"
<1>1. CASE s \in Senders /\ bySender[s] # 0
  <2>. DEFINE k == bySender[s]
  <2>1. /\ session' = [session EXCEPT ![k].state = "REJECTED"]
        /\ byId' = [byId EXCEPT ![IdOf(k)] = 0]
        /\ bySender' = [bySender EXCEPT ![s] = 0]
        /\ created' = created
    BY <1>1 DEF Terminate, Rejected, IdsWithout
  <2>2. k \in Objects /\ session[k].sender = s /\ session[k].state = "AUTHENTICATED"
    BY <1>1 DEF RegistriesAgree, TypeOK, Objects
  <2>3. IdOf(k) \in Ids /\ byId[IdOf(k)] = k
    BY <2>2 DEF RegistriesAgree, TypeOK, SessionRecords, IdOf, Ids
  <2>4. TypeOK'
    <3>1. session' \in [Objects -> SessionRecords]
      <4>1. [session[k] EXCEPT !.state = "REJECTED"] \in SessionRecords
        BY <2>2 DEF RegistriesAgree, TypeOK, SessionRecords
      <4>. QED BY <2>1, <2>2, <4>1 DEF RegistriesAgree, TypeOK
    <3>. 0 \in 0 .. created BY GatewayAssumption DEF RegistriesAgree, TypeOK
    <3>2. bySender' \in [Senders -> 0 .. created]
      BY <2>1 DEF RegistriesAgree, TypeOK
    <3>3. byId' \in [Ids -> 0 .. created]
      BY <2>1 DEF RegistriesAgree, TypeOK
    <3>. QED BY <2>1, <3>1, <3>2, <3>3 DEF RegistriesAgree, TypeOK, Objects
  <2>5. \A n \in Objects : n # k => session'[n] = session[n]
    BY <2>1, <2>2 DEF RegistriesAgree, TypeOK, Objects
  <2>6. /\ session'[k].state = "REJECTED"
        /\ session'[k].sender = session[k].sender
        /\ session'[k].begin = session[k].begin
    BY <2>1, <2>2 DEF RegistriesAgree, TypeOK, SessionRecords, Objects
  <2>7. \A n \in Objects : IdOf(n)' = IdOf(n)
    BY <2>5, <2>6 DEF IdOf
  <2>8. \A n \in Objects :
          /\ session'[n].state = "AUTHENTICATED" <=> bySender'[session'[n].sender] = n
          /\ session'[n].state = "AUTHENTICATED" <=> byId'[IdOf(n)'] = n
    <3>. SUFFICES ASSUME NEW n \in Objects
                  PROVE  /\ session'[n].state = "AUTHENTICATED"
                              <=> bySender'[session'[n].sender] = n
                         /\ session'[n].state = "AUTHENTICATED" <=> byId'[IdOf(n)'] = n
      OBVIOUS
    <3>1. n # 0 BY DEF RegistriesAgree, TypeOK, Objects
    <3>2. session[n].sender \in Senders /\ IdOf(n) \in Ids
      BY DEF RegistriesAgree, TypeOK, SessionRecords, IdOf, Ids
    <3>3. bySender'[session[n].sender] =
            IF session[n].sender = s THEN 0 ELSE bySender[session[n].sender]
      BY <2>1, <3>2 DEF RegistriesAgree, TypeOK
    <3>4. byId'[IdOf(n)] = IF IdOf(n) = IdOf(k) THEN 0 ELSE byId[IdOf(n)]
      BY <2>1, <3>2 DEF RegistriesAgree, TypeOK
    <3>5. CASE n = k
      BY <2>2, <2>6, <2>7, <3>1, <3>3, <3>4, <3>5
    <3>6. CASE n # k
      <4>1. session[n].state = "AUTHENTICATED" <=> bySender[session[n].sender] = n
        BY DEF RegistriesAgree
      <4>2. session[n].state = "AUTHENTICATED" <=> byId[IdOf(n)] = n
        BY DEF RegistriesAgree
      <4>. QED BY <2>3, <2>5, <2>7, <3>1, <3>3, <3>4, <3>6, <4>1, <4>2
    <3>. QED BY <3>5, <3>6
  <2>9. \A t \in Senders : bySender'[t] # 0 => session'[bySender'[t]].sender = t
    <3>. SUFFICES ASSUME NEW t \in Senders, bySender'[t] # 0
                  PROVE  session'[bySender'[t]].sender = t
      OBVIOUS
    <3>1. t # s /\ bySender'[t] = bySender[t]
      BY <2>1 DEF RegistriesAgree, TypeOK
    <3>2. bySender[t] \in Objects /\ session[bySender[t]].sender = t
      BY <3>1 DEF RegistriesAgree, TypeOK, Objects
    <3>. QED BY <2>2, <2>5, <3>1, <3>2
  <2>10. \A i \in Ids : byId'[i] # 0 => IdOf(byId[i])' = i
    <3>. SUFFICES ASSUME NEW i \in Ids, byId'[i] # 0
                  PROVE  IdOf(byId[i])' = i
      OBVIOUS
    <3>1. byId'[i] = byId[i]
      BY <2>1, <2>3 DEF RegistriesAgree, TypeOK
    <3>2. byId[i] \in Objects /\ IdOf(byId[i]) = i
      BY <3>1 DEF RegistriesAgree, TypeOK, Objects
    <3>. QED BY <2>7, <3>1, <3>2 DEF IdOf
  <2>11. Objects' = Objects BY <2>1 DEF Objects
  <2>12. RegistriesAgree'
    BY <2>4, <2>8, <2>9, <2>10, <2>11 DEF RegistriesAgree
  <2>. QED BY <2>2, <2>5, <2>12
<1>2. CASE ~(s \in Senders /\ bySender[s] # 0)
  BY <1>2 DEF Terminate, RegistriesAgree, TypeOK, Objects, IdOf
<1>. QED BY <1>1, <1>2

\* A Logon adds the one session of its sender to both dicts.
LEMMA LogonAgrees ==
  ASSUME RegistriesAgree, NEW m \in Messages, Logon(m)
  PROVE  RegistriesAgree' /\ \A n \in Objects : session'[n] = session[n]
<1>. DEFINE s == m.sender
            k == created + 1
            i == <<m.begin, s>>
<1>1. /\ s \in Senders /\ m.begin \in BeginStrings
      /\ m.seq \in Nat \cup {NoField} /\ m.hb \in Nat \cup {NoField}
  BY GatewayAssumption DEF Logon, Messages
<1>2. /\ created \in Nat /\ k \in Nat /\ k \in 1 .. k /\ Objects \subseteq 1 .. k
      /\ k \notin Objects /\ 1 .. k = Objects \cup {k} /\ k \in 0 .. MaxSessions
      /\ 0 .. created \subseteq 0 .. k /\ k \in 0 .. k /\ k # 0
  BY GatewayAssumption DEF Logon, RegistriesAgree, TypeOK, Objects
<1>3. bySender[s] = 0 /\ byId[i] = 0
  BY <1>1, NoStaleEntry DEF Logon
<1>4. /\ created' = k
      /\ session' = [n \in 1 .. k |-> IF n = k THEN NewSession(m) ELSE session[n]]
      /\ byId' = [byId EXCEPT ![i] = k]
      /\ bySender' = [bySender EXCEPT ![s] = k]
      /\ last' = s
  BY DEF Logon, Registers
<1>5. /\ NewSession(m) \in SessionRecords
      /\ NewSession(m).sender = s /\ NewSession(m).begin = m.begin
      /\ NewSession(m).state = "AUTHENTICATED"
  BY <1>1, DefaultIsNat DEF NewSession, SessionRecords
<1>6. \A n \in Objects : session'[n] = session[n]
  BY <1>2, <1>4
<1>7. session'[k] = NewSession(m)
  BY <1>2, <1>4
<1>8. i \in Ids BY <1>1 DEF Ids
<1>9. TypeOK'
  <2>1. session' \in [1 .. k -> SessionRecords]
    <3>1. \A n \in 1 .. k : session'[n] \in SessionRecords
      BY <1>2, <1>5, <1>6, <1>7 DEF RegistriesAgree, TypeOK
    <3>. QED BY <1>4, <3>1
  <2>2. bySender' \in [Senders -> 0 .. k]
    BY <1>2, <1>4 DEF RegistriesAgree, TypeOK
  <2>3. byId' \in [Ids -> 0 .. k]
    BY <1>2, <1>4 DEF RegistriesAgree, TypeOK
  <2>. QED BY <1>1, <1>2, <1>4, <2>1, <2>2, <2>3 DEF TypeOK, Objects
<1>10. \A n \in Objects : <<session'[n].begin, session'[n].sender>> = IdOf(n)
  BY <1>6 DEF IdOf
<1>11. <<session'[k].begin, session'[k].sender>> = i
  BY <1>5, <1>7
<1>12. Objects' = Objects \cup {k}
  BY <1>2, <1>4 DEF Objects
<1>. DEFINE Agree(n) ==
       /\ session'[n].state = "AUTHENTICATED" <=> bySender'[session'[n].sender] = n
       /\ session'[n].state = "AUTHENTICATED"
            <=> byId'[<<session'[n].begin, session'[n].sender>>] = n
<1>13. \A n \in Objects \cup {k} : Agree(n)
  <2>1. ASSUME NEW n \in Objects PROVE Agree(n)
    <3>1. n # 0 /\ n # k BY <1>2 DEF Objects
    <3>2. session[n].sender \in Senders /\ IdOf(n) \in Ids
      BY DEF RegistriesAgree, TypeOK, SessionRecords, IdOf, Ids
    <3>3. bySender'[session[n].sender] =
            IF session[n].sender = s THEN k ELSE bySender[session[n].sender]
      BY <1>4, <3>2 DEF RegistriesAgree, TypeOK
    <3>4. byId'[IdOf(n)] = IF IdOf(n) = i THEN k ELSE byId[IdOf(n)]
      BY <1>4, <3>2 DEF RegistriesAgree, TypeOK
    <3>5. session[n].state = "AUTHENTICATED" <=> bySender[session[n].sender] = n
      BY DEF RegistriesAgree
    <3>6. session[n].state = "AUTHENTICATED" <=> byId[IdOf(n)] = n
      BY DEF RegistriesAgree
    <3>. QED BY <1>3, <1>6, <1>10, <3>1, <3>3, <3>4, <3>5, <3>6
  <2>2. bySender'[s] = k /\ byId'[i] = k
    BY <1>1, <1>4, <1>8 DEF RegistriesAgree, TypeOK
  <2>3. Agree(k)
    BY <1>5, <1>7, <1>11, <2>2
  <2>. HIDE DEF k, Agree
  <2>. QED BY <2>1, <2>3
<1>14. \A t \in Senders : bySender'[t] # 0 => session'[bySender'[t]].sender = t
  <2>. SUFFICES ASSUME NEW t \in Senders, bySender'[t] # 0
                PROVE  session'[bySender'[t]].sender = t
    OBVIOUS
  <2>1. CASE t = s
    BY <1>1, <1>4, <1>5, <1>7, <2>1 DEF RegistriesAgree, TypeOK
  <2>2. CASE t # s
    <3>1. bySender'[t] = bySender[t] BY <1>4, <2>2 DEF RegistriesAgree, TypeOK
    <3>2. bySender[t] \in Objects /\ session[bySender[t]].sender = t
      BY <3>1 DEF RegistriesAgree, TypeOK, Objects
    <3>. QED BY <1>6, <3>1, <3>2
  <2>. QED BY <2>1, <2>2
<1>15. \A j \in Ids : byId'[j] # 0 =>
         <<session'[byId'[j]].begin, session'[byId'[j]].sender>> = j
  <2>. SUFFICES ASSUME NEW j \in Ids, byId'[j] # 0
                PROVE  <<session'[byId'[j]].begin, session'[byId'[j]].sender>> = j
    OBVIOUS
  <2>1. CASE j = i
    BY <1>4, <1>5, <1>7, <1>8, <2>1 DEF RegistriesAgree, TypeOK
  <2>2. CASE j # i
    <3>1. byId'[j] = byId[j] BY <1>4, <2>2 DEF RegistriesAgree, TypeOK
    <3>2. byId[j] \in Objects /\ IdOf(byId[j]) = j
      BY <3>1 DEF RegistriesAgree, TypeOK, Objects
    <3>. QED BY <1>6, <3>1, <3>2 DEF IdOf
  <2>. QED BY <2>1, <2>2
<1>16. RegistriesAgree'
  BY <1>9, <1>12, <1>13, <1>14, <1>15 DEF RegistriesAgree, IdOf
<1>. QED BY <1>6, <1>16

\* A message of a present session changes the fields of that session that the
\* dicts do not depend on.
LEMMA ReceiveAgrees ==
  ASSUME RegistriesAgree, NEW m \in Messages, Receive(m)
  PROVE  /\ RegistriesAgree'
         /\ \A n \in Objects : session'[n] # session[n] =>
              session[n].sender = last' /\ session[n].state = "AUTHENTICATED"
<1>. DEFINE k == bySender[m.sender]
<1>1. /\ m.sender \in Senders
      /\ m.seq \in Nat \cup {NoField} /\ m.hb \in Nat \cup {NoField}
  BY GatewayAssumption DEF Receive, Messages
<1>2. k \in Objects /\ session[k].sender = m.sender /\ session[k].state = "AUTHENTICATED"
  BY <1>1 DEF Receive, Present, RegistriesAgree, TypeOK, Objects
<1>3. session[k] \in SessionRecords
  BY <1>2 DEF RegistriesAgree, TypeOK
<1>. DEFINE seq == Default(m.seq, session[k].inSeq)
            hb == IF m.logon THEN Default(m.hb, session[k].hb) ELSE session[k].hb
            new == [session[k] EXCEPT !.inSeq = seq, !.hb = hb]
<1>4. seq \in Nat /\ hb \in Nat
  BY <1>1, <1>3, DefaultIsNat DEF SessionRecords
<1>5. /\ new \in SessionRecords /\ new.sender = session[k].sender
      /\ new.begin = session[k].begin /\ new.state = session[k].state
  BY <1>3, <1>4 DEF SessionRecords
<1>6. session' = [session EXCEPT ![k] = new]
  BY <1>2, <1>3 DEF Receive, SessionOf, RegistriesAgree, TypeOK, SessionRecords
<1>7. last' = m.sender /\ UNCHANGED <<created, bySender, byId>>
  BY DEF Receive
<1>8. /\ session'[k] = new
      /\ \A n \in Objects : n # k => session'[n] = session[n]
  BY <1>2, <1>6 DEF RegistriesAgree, TypeOK
<1>9. \A n \in Objects :
        /\ session'[n].sender = session[n].sender /\ session'[n].begin = session[n].begin
        /\ session'[n].state = session[n].state
  BY <1>5, <1>8
<1>10. TypeOK'
  BY <1>1, <1>2, <1>5, <1>6, <1>7 DEF RegistriesAgree, TypeOK, Objects
<1>11. Objects' = Objects BY <1>7 DEF Objects
<1>12. RegistriesAgree'
  <2>1. \A n \in Objects : <<session'[n].begin, session'[n].sender>> = IdOf(n)
    BY <1>9 DEF IdOf
  <2>2. \A n \in Objects :
          /\ session'[n].state = "AUTHENTICATED" <=> bySender[session'[n].sender] = n
          /\ session'[n].state = "AUTHENTICATED"
               <=> byId[<<session'[n].begin, session'[n].sender>>] = n
    BY <1>9, <2>1 DEF RegistriesAgree
  <2>3. \A t \in Senders : bySender[t] # 0 => session'[bySender[t]].sender = t
    BY <1>9 DEF RegistriesAgree, TypeOK, Objects
  <2>4. \A i \in Ids : byId[i] # 0 =>
          <<session'[byId[i]].begin, session'[byId[i]].sender>> = i
    BY <2>1 DEF RegistriesAgree, TypeOK, Objects
  <2>. QED BY <1>7, <1>10, <1>11, <2>2, <2>3, <2>4 DEF RegistriesAgree, IdOf
<1>. QED BY <1>2, <1>7, <1>8, <1>12

\* One step: the dicts stay in agreement, and no session is touched but a live
\* one of the sender that the frame names.
LEMMA StepAgrees ==
  ASSUME RegistriesAgree, [Next]_vars
  PROVE  /\ RegistriesAgree'
         /\ \A n \in Objects : session'[n] # session[n] =>
              session[n].sender = last' /\ session[n].state = "AUTHENTICATED"
<1>1. CASE UNCHANGED vars
  BY <1>1 DEF vars, RegistriesAgree, TypeOK, Objects, IdOf
<1>2. ASSUME NEW s \in Senders \cup {NoField}, RejectFrame(s)
      PROVE  /\ RegistriesAgree'
             /\ \A n \in Objects : session'[n] # session[n] =>
                  session[n].sender = last' /\ session[n].state = "AUTHENTICATED"
  BY <1>2, TerminateAgrees DEF RejectFrame
<1>3. ASSUME NEW m \in Messages, Message(m)
      PROVE  /\ RegistriesAgree'
             /\ \A n \in Objects : session'[n] # session[n] =>
                  session[n].sender = last' /\ session[n].state = "AUTHENTICATED"
  <2>1. m.sender \in Senders \cup {NoField} BY DEF Messages
  <2>2. CASE RejectTarget(m)
    BY <2>1, <2>2, TerminateAgrees DEF RejectTarget
  <2>3. CASE RejectSender(m)
    BY <2>3 DEF RejectSender, RegistriesAgree, TypeOK, Objects, IdOf
  <2>4. CASE RejectFirst(m)
    BY <2>1, <2>4, TerminateAgrees DEF RejectFirst
  <2>5. CASE Logon(m)
    BY <2>5, LogonAgrees
  <2>6. CASE Receive(m)
    BY <2>6, ReceiveAgrees
  <2>. QED BY <1>3, <2>2, <2>3, <2>4, <2>5, <2>6 DEF Message
<1>. QED BY <1>1, <1>2, <1>3 DEF Next

LEMMA InitAgrees == Init => RegistriesAgree
<1>. SUFFICES ASSUME Init PROVE RegistriesAgree
  OBVIOUS
<1>1. Objects = {} BY DEF Init, Objects
<1>2. session \in [Objects -> SessionRecords] BY <1>1 DEF Init
<1>3. TypeOK BY <1>2, GatewayAssumption DEF Init, TypeOK
<1>. QED BY <1>1, <1>3 DEF Init, RegistriesAgree

\* The two dicts and the session objects agree in every reachable state: what
\* _terminate_session and process_inbound keep by hand (fix_gateway.py).
THEOREM RegistriesAlwaysAgree == Spec => []RegistriesAgree
<1>1. RegistriesAgree /\ [Next]_vars => RegistriesAgree'
  BY StepAgrees
<1>. QED BY InitAgrees, <1>1, PTL DEF Spec

\* No frame ever touches a session of another sender or one that was rejected.
THEOREM SendersAreIsolated == Spec => SenderIsolation
<1>1. RegistriesAgree /\ [Next]_vars =>
        [\A n \in Objects : session'[n] # session[n] =>
           session[n].sender = last' /\ session[n].state = "AUTHENTICATED"]_vars
  BY StepAgrees
<1>. QED BY RegistriesAlwaysAgree, <1>1, PTL DEF Spec, SenderIsolation

-----------------------------------------------------------------------------
(***************************************************************************)
(* The exchange adapter.                                                   *)
(***************************************************************************)
Opened(p) == \E k \in Adapter!Kinds : client[p][k] = "open"

\* Whose hands each pair of clients is in.
PairsInHand ==
  \A t \in AdapterTasks :
    /\ t \in abandoned =>
         /\ adapterPc[t] \notin {"idle", "probing"}
         /\ current # t /\ \A u \in AdapterTasks : target[u] # t
    /\ adapterPc[t] = "idle" =>
         /\ current # t /\ \A u \in AdapterTasks : target[u] # t
         /\ \A k \in Adapter!Kinds : client[t][k] = "unused"
    /\ adapterPc[t] = "probing" =>
         /\ current # t /\ \A u \in AdapterTasks : target[u] # t
         /\ \A k \in Adapter!Kinds : client[t][k] = "open"
    /\ target[t] # None <=> adapterPc[t] \in {"closing_rest", "closing_ws"}
    /\ adapterPc[t] = "closing_ws" => client[target[t]]["rest"] = "closed"

OneCallAtATime ==
  ~adapterOverlapped =>
    \A t, u \in AdapterTasks :
      adapterPc[t] \notin Adapter!Ended /\ adapterPc[u] \notin Adapter!Ended => t = u

EveryPairIsHeld ==
  ~adapterOverlapped /\ ~reauthorized =>
    \A p \in AdapterTasks :
      /\ Opened(p) /\ p \notin abandoned =>
           p = current \/ adapterPc[p] = "probing" \/ \E u \in AdapterTasks : target[u] = p
      /\ adapterPc[p] = "probing" => current = None

AdapterInvariant ==
  /\ Adapter!TypeOK /\ Adapter!InstalledIsOpen
  /\ PairsInHand /\ OneCallAtATime /\ EveryPairIsHeld

\* Before the first call every pair is unused.
LEMMA AdapterStarts == Adapter!Init => AdapterInvariant
<1>. SUFFICES ASSUME Adapter!Init PROVE AdapterInvariant
  OBVIOUS
<1>. USE DEF Adapter!Init, Adapter!Kinds, Adapter!Ended
<1>1. Adapter!TypeOK BY DEF Adapter!TypeOK
<1>2. Adapter!InstalledIsOpen BY DEF Adapter!InstalledIsOpen
<1>3. PairsInHand BY ConnectivityAssumption DEF PairsInHand, Adapter!AdapterAssumption
<1>4. OneCallAtATime BY DEF OneCallAtATime
<1>5. EveryPairIsHeld BY DEF EveryPairIsHeld, Opened
<1>. QED BY <1>1, <1>2, <1>3, <1>4, <1>5 DEF AdapterInvariant

\* Each step of a call keeps the pairs in one pair of hands.
LEMMA AdapterStep ==
  ASSUME AdapterInvariant, NEW t \in AdapterTasks,
         \/ Adapter!Authorize(t) \/ Adapter!FailsToMake(t) \/ Adapter!Authorized(t)
         \/ Adapter!Refused(t) \/ Adapter!Disconnect(t)
         \/ Adapter!CloseRest(t) \/ Adapter!CloseWs(t) \/ Adapter!Cancelled(t)
  PROVE  AdapterInvariant'
<1>. USE ConnectivityAssumption
     DEF Adapter!AdapterAssumption, AdapterInvariant, Adapter!TypeOK, Adapter!Kinds, Adapter!Ended
<1>1. CASE Adapter!Authorize(t)
  <2>. USE <1>1 DEF Adapter!Authorize, Adapter!Starts, Adapter!Idle
  <2>1. Adapter!TypeOK' BY DEF PairsInHand
  <2>2. Adapter!InstalledIsOpen' BY DEF Adapter!InstalledIsOpen, PairsInHand
  <2>3. PairsInHand' BY DEF PairsInHand, Adapter!InstalledIsOpen
  <2>4. OneCallAtATime' BY DEF OneCallAtATime
  <2>5. ASSUME ~adapterOverlapped', ~reauthorized', NEW p \in AdapterTasks
        PROVE  /\ Opened(p)' /\ p \notin abandoned' =>
                    \/ p = current'
                    \/ adapterPc'[p] = "probing"
                    \/ \E u \in AdapterTasks : target'[u] = p
               /\ adapterPc'[p] = "probing" => current' = None
    <3>1. current = None /\ \A u \in AdapterTasks : adapterPc[u] \in Adapter!Ended
      BY <2>5
    <3>2. \A u \in AdapterTasks : target[u] = None
      BY <3>1 DEF PairsInHand
    <3>3. p # t /\ p \notin abandoned => ~Opened(p)
      BY <2>5, <3>1, <3>2 DEF EveryPairIsHeld
    <3>4. p # t /\ p \notin abandoned => ~Opened(p)'
      BY <3>3 DEF Opened
    <3>. QED BY <3>1, <3>4
  <2>6. EveryPairIsHeld' BY <2>5 DEF EveryPairIsHeld
  <2>. QED BY <2>1, <2>2, <2>3, <2>4, <2>6
<1>2. CASE Adapter!Authorized(t)
  <2>. USE <1>2 DEF Adapter!Authorized
  <2>1. Adapter!TypeOK' BY DEF PairsInHand
  <2>2. Adapter!InstalledIsOpen' BY DEF Adapter!InstalledIsOpen, PairsInHand
  <2>3. PairsInHand' BY DEF PairsInHand, Adapter!InstalledIsOpen
  <2>4. OneCallAtATime' BY DEF OneCallAtATime
  <2>5. EveryPairIsHeld'
    BY DEF EveryPairIsHeld, Opened, OneCallAtATime, PairsInHand, Adapter!InstalledIsOpen
  <2>. QED BY <2>1, <2>2, <2>3, <2>4, <2>5
<1>3. CASE Adapter!Refused(t)
  <2>. USE <1>3 DEF Adapter!Refused, Adapter!BeginClose
  <2>1. Adapter!TypeOK' BY DEF PairsInHand
  <2>2. Adapter!InstalledIsOpen' BY DEF Adapter!InstalledIsOpen, PairsInHand
  <2>3. PairsInHand' BY DEF PairsInHand, Adapter!InstalledIsOpen
  <2>4. OneCallAtATime' BY DEF OneCallAtATime
  <2>5. EveryPairIsHeld'
    BY DEF EveryPairIsHeld, Opened, OneCallAtATime, PairsInHand, Adapter!InstalledIsOpen
  <2>. QED BY <2>1, <2>2, <2>3, <2>4, <2>5
<1>4. CASE Adapter!Disconnect(t)
  <2>. USE <1>4 DEF Adapter!Disconnect, Adapter!Starts, Adapter!Idle, Adapter!BeginClose
  <2>1. Adapter!TypeOK' BY DEF PairsInHand
  <2>2. Adapter!InstalledIsOpen' BY DEF Adapter!InstalledIsOpen, PairsInHand
  <2>3. PairsInHand' BY DEF PairsInHand, Adapter!InstalledIsOpen
  <2>4. OneCallAtATime' BY DEF OneCallAtATime
  <2>5. EveryPairIsHeld'
    BY DEF EveryPairIsHeld, Opened, OneCallAtATime, PairsInHand, Adapter!InstalledIsOpen
  <2>. QED BY <2>1, <2>2, <2>3, <2>4, <2>5
<1>5. CASE Adapter!CloseRest(t)
  <2>. USE <1>5 DEF Adapter!CloseRest
  <2>1. Adapter!TypeOK' BY DEF PairsInHand
  <2>2. Adapter!InstalledIsOpen' BY DEF Adapter!InstalledIsOpen, PairsInHand
  <2>3. PairsInHand' BY DEF PairsInHand, Adapter!InstalledIsOpen
  <2>4. OneCallAtATime' BY DEF OneCallAtATime
  <2>5. EveryPairIsHeld'
    BY DEF EveryPairIsHeld, Opened, OneCallAtATime, PairsInHand, Adapter!InstalledIsOpen
  <2>. QED BY <2>1, <2>2, <2>3, <2>4, <2>5
<1>6. CASE Adapter!CloseWs(t)
  <2>. USE <1>6 DEF Adapter!CloseWs
  <2>1. Adapter!TypeOK' BY DEF PairsInHand
  <2>2. Adapter!InstalledIsOpen' BY DEF Adapter!InstalledIsOpen, PairsInHand
  <2>3. PairsInHand' BY DEF PairsInHand, Adapter!InstalledIsOpen
  <2>4. OneCallAtATime' BY DEF OneCallAtATime
  <2>5. EveryPairIsHeld'
    BY DEF EveryPairIsHeld, Opened, OneCallAtATime, PairsInHand, Adapter!InstalledIsOpen
  <2>. QED BY <2>1, <2>2, <2>3, <2>4, <2>5
<1>7. CASE Adapter!FailsToMake(t)
  <2>. USE <1>7 DEF Adapter!FailsToMake, Adapter!Starts, Adapter!Idle
  <2>1. Adapter!TypeOK' BY DEF PairsInHand
  <2>2. Adapter!InstalledIsOpen' BY DEF Adapter!InstalledIsOpen, PairsInHand
  <2>3. PairsInHand' BY DEF PairsInHand, Adapter!InstalledIsOpen
  <2>4. OneCallAtATime' BY DEF OneCallAtATime
  <2>5. ASSUME ~adapterOverlapped', ~reauthorized', NEW p \in AdapterTasks
        PROVE  /\ Opened(p)' /\ p \notin abandoned' =>
                    \/ p = current'
                    \/ adapterPc'[p] = "probing"
                    \/ \E u \in AdapterTasks : target'[u] = p
               /\ adapterPc'[p] = "probing" => current' = None
    <3>1. current = None /\ \A u \in AdapterTasks : adapterPc[u] \in Adapter!Ended
      BY <2>5
    <3>2. \A u \in AdapterTasks : target[u] = None
      BY <3>1 DEF PairsInHand
    <3>3. p # t /\ p \notin abandoned => ~Opened(p)
      BY <2>5, <3>1, <3>2 DEF EveryPairIsHeld
    <3>4. p # t /\ p \notin abandoned => ~Opened(p)'
      BY <3>3 DEF Opened
    <3>. QED BY <3>1, <3>4
  <2>6. EveryPairIsHeld' BY <2>5 DEF EveryPairIsHeld
  <2>. QED BY <2>1, <2>2, <2>3, <2>4, <2>6
<1>8. CASE Adapter!Cancelled(t)
  <2>1. CASE adapterPc[t] = "probing"
    <3>. USE <1>8, <2>1 DEF Adapter!Cancelled
    <3>1. Adapter!TypeOK' BY DEF PairsInHand
    <3>2. Adapter!InstalledIsOpen' BY DEF Adapter!InstalledIsOpen, PairsInHand
    <3>3. PairsInHand' BY DEF PairsInHand, Adapter!InstalledIsOpen
    <3>4. OneCallAtATime' BY DEF OneCallAtATime
    <3>5. EveryPairIsHeld'
      BY DEF EveryPairIsHeld, Opened, OneCallAtATime, PairsInHand, Adapter!InstalledIsOpen
    <3>. QED BY <3>1, <3>2, <3>3, <3>4, <3>5
  <2>2. CASE adapterPc[t] # "probing"
    <3>1. PICK k \in Adapter!Kinds :
            /\ adapterPc[t] = IF k = "rest" THEN "closing_rest" ELSE "closing_ws"
            /\ client' \in {client, [client EXCEPT ![target[t]][k] = "closed"]}
            /\ adapterPc' = [adapterPc EXCEPT ![t] = "done"]
            /\ abandoned' = abandoned \cup {target[t]}
            /\ target' = [target EXCEPT ![t] = None]
            /\ UNCHANGED <<current, lastCall, adapterOverlapped, reauthorized>>
      BY <1>8, <2>2 DEF Adapter!Cancelled
    <3>2. target[t] \in AdapterTasks
      BY <3>1 DEF PairsInHand
    <3>3. client' \in [AdapterTasks -> [Adapter!Kinds -> {"unused", "open", "closed"}]]
      BY <3>1, <3>2
    <3>4. \A p \in AdapterTasks : p # target[t] => client'[p] = client[p]
      BY <3>1, <3>2
    <3>5. adapterPc[t] \in {"closing_rest", "closing_ws"} /\ \A u \in AdapterTasks :
            adapterPc'[u] = (IF u = t THEN "done" ELSE adapterPc[u])
              /\ target'[u] = (IF u = t THEN None ELSE target[u])
      BY <3>1
    <3>6. client'[target[t]]["rest"] = "closed" \/ client'[target[t]]["rest"] = client[target[t]]["rest"]
      BY <3>1, <3>2
    <3>. USE <3>2, <3>3, <3>4, <3>5
    <3>7. Adapter!TypeOK' BY <3>1 DEF PairsInHand
    <3>8. Adapter!InstalledIsOpen' BY <3>1 DEF Adapter!InstalledIsOpen, PairsInHand
    <3>9. PairsInHand' BY <3>1, <3>6 DEF PairsInHand, Adapter!InstalledIsOpen
    <3>10. OneCallAtATime' BY <3>1 DEF OneCallAtATime
    <3>11. EveryPairIsHeld'
      BY <3>1 DEF EveryPairIsHeld, Opened, OneCallAtATime, PairsInHand, Adapter!InstalledIsOpen
    <3>. QED BY <3>7, <3>8, <3>9, <3>10, <3>11
  <2>. QED BY <2>1, <2>2
<1>. QED BY <1>1, <1>2, <1>3, <1>4, <1>5, <1>6, <1>7, <1>8

\* What the invariant says once no call is under way: nothing is open but the
\* installed pair and what was abandoned.
LEMMA HeldMeansInstalled ==
  ASSUME AdapterInvariant
  PROVE  Adapter!NoClientLeak
<1>. SUFFICES ASSUME Adapter!Idle, ~adapterOverlapped, ~reauthorized
              PROVE  /\ {t \in AdapterTasks \ abandoned : Opened(t)} = {current} \ {None}
                     /\ current \notin abandoned
  BY DEF Adapter!NoClientLeak, Opened
<1>. USE DEF AdapterInvariant
<1>1. \A t \in AdapterTasks : adapterPc[t] # "probing" /\ target[t] = None
  BY DEF Adapter!Idle, Adapter!Ended, PairsInHand
<1>2. \A t \in AdapterTasks \ abandoned : Opened(t) => t = current
  BY <1>1, ConnectivityAssumption DEF EveryPairIsHeld, Adapter!AdapterAssumption
<1>3. current # None => current \in AdapterTasks /\ Opened(current)
  BY DEF Adapter!TypeOK, Adapter!InstalledIsOpen, Opened, Adapter!Kinds
<1>4. current \notin abandoned
  BY ConnectivityAssumption DEF PairsInHand, Adapter!TypeOK, Adapter!AdapterAssumption
<1>. QED BY <1>2, <1>3, <1>4, ConnectivityAssumption DEF Adapter!AdapterAssumption

LEMMA AdapterInvariantHolds == PartsSpec => []AdapterInvariant
<1>1. PartsInit => AdapterInvariant
  BY AdapterStarts DEF PartsInit
<1>2. AdapterInvariant /\ [PartsNext]_<<vars, socketVars, adapterVars, part>> => AdapterInvariant'
  <2>. SUFFICES ASSUME AdapterInvariant, [PartsNext]_<<vars, socketVars, adapterVars, part>>
                PROVE  AdapterInvariant'
    OBVIOUS
  <2>1. CASE Adapter!Next
    BY <2>1, AdapterStep DEF Adapter!Next
  <2>2. CASE UNCHANGED adapterVars
    BY <2>2 DEF adapterVars, AdapterInvariant, Adapter!TypeOK, Adapter!InstalledIsOpen,
      PairsInHand, OneCallAtATime, EveryPairIsHeld, Opened
  <2>. QED BY <2>1, <2>2 DEF PartsNext
<1>. QED BY <1>1, <1>2, PTL DEF PartsSpec

\* However calls of authorize and disconnect overlap, a subscription never runs
\* on a closed client, and calls in turn leave no client behind but what a call
\* had in hand when it was cancelled or raised before its try.
THEOREM ClientsAreAlwaysSound == PartsSpec => []ClientsAreSound
<1>1. AdapterInvariant => ClientsAreSound
  BY HeldMeansInstalled DEF AdapterInvariant, ClientsAreSound
<1>. QED BY <1>1, AdapterInvariantHolds, PTL

-----------------------------------------------------------------------------
(***************************************************************************)
(* The WebSocket client.                                                   *)
(***************************************************************************)

Working(t) == pc[t] \notin WS!Ended

\* Whose hands each connection is in.
ConnectionsInHand ==
  /\ connection # Null =>
       conn[connection] = "open" /\ \A t \in Tasks : closing[t] # connection
  /\ \A t, u \in Tasks : closing[t] # Null /\ closing[t] = closing[u] => t = u
  /\ \A t \in Tasks :
       /\ closing[t] # Null => conn[closing[t]] = "open"
       /\ closing[t] # Null <=> pc[t] \in {"closing", "clearing"}

\* Calls in turn: one works at a time, it works without a connection, and an
\* open connection is the client's or the one that is being closed.
InTurnNothingLeaks ==
  ~overlapped =>
    /\ \A t, u \in Tasks : Working(t) /\ Working(u) => t = u
    /\ \A t \in Tasks : Working(t) => connection = Null
    /\ \A c \in Conns :
         conn[c] = "open" => c = connection \/ \E t \in Tasks : closing[t] = c
    /\ WS!Idle => state = IF connection = Null THEN "DISCONNECTED" ELSE "CONNECTED"

\* A delay as the schedule has it, after n failures.
Scheduled(d, n) == d =< MaxDelay /\ (d = MaxDelay \/ d = BaseDelay * 2 ^ n)

\* Calls in turn: the retry counter counts the delays a call has slept.
CounterCounts(t) ==
  /\ Len(waited[t]) =< MaxRetries
  /\ \A i \in DOMAIN waited[t] : Scheduled(waited[t][i], i - 1)
  /\ pc[t] \in {"idle", "closing"} => waited[t] = <<>>
  /\ pc[t] \in {"attempting", "clearing"} => Len(waited[t]) = retryCount
  /\ pc[t] = "sleeping" => Len(waited[t]) = retryCount + 1
  /\ pc[t] = "raised" => Len(waited[t]) = MaxRetries

CounterCountsDelays == ~overlapped => \A t \in Tasks : CounterCounts(t)

SocketInvariant ==
  /\ WS!TypeOK /\ ConnectionsInHand /\ InTurnNothingLeaks /\ CounterCountsDelays

\* Delays are numbers, whatever the number of failures.
LEMMA PowerIsNat == \A n \in Nat : 2 ^ n \in Nat
<1>. SUFFICES ASSUME NEW n \in Nat PROVE 2 ^ n \in Nat
  OBVIOUS
<1>1. IsFiniteSet(1 .. n) /\ Cardinality(1 .. n) = n
  BY FS_Interval
<1>2. Cardinality(SUBSET (1 .. n)) = 2 ^ n /\ IsFiniteSet(SUBSET (1 .. n))
  BY <1>1, FS_SUBSET
<1>. QED BY <1>2, FS_CardinalityType

LEMMA BackoffScheduled ==
  ASSUME NEW n \in Nat
  PROVE  WS!Backoff(n) \in Nat /\ Scheduled(WS!Backoff(n), n)
<1>1. \A p \in Nat : BaseDelay * p \in Nat
  BY ConnectivityAssumption DEF WS!ClientAssumption
<1>2. BaseDelay * 2 ^ n \in Nat
  BY <1>1, PowerIsNat
<1>. QED BY <1>2, ConnectivityAssumption DEF WS!Backoff, WS!ClientAssumption, Scheduled

LEMMA SocketStarts == WS!Init => SocketInvariant
<1>. SUFFICES ASSUME WS!Init PROVE SocketInvariant
  OBVIOUS
<1>. USE ConnectivityAssumption DEF WS!Init, WS!ClientAssumption, WS!Ended
<1>1. WS!TypeOK
  <2>1. <<>> \in Seq(Nat) OBVIOUS
  <2>. QED BY <2>1 DEF WS!TypeOK, WS!Calls
<1>2. ConnectionsInHand BY DEF ConnectionsInHand
<1>3. InTurnNothingLeaks BY DEF InTurnNothingLeaks, Working
<1>4. CounterCountsDelays BY DEF CounterCountsDelays, CounterCounts
<1>. QED BY <1>1, <1>2, <1>3, <1>4 DEF SocketInvariant

\* Where calls come in turn, the one that works is alone and has no connection.
LEMMA OthersRest ==
  ASSUME InTurnNothingLeaks, NEW t \in Tasks, Working(t), ~overlapped
  PROVE  connection = Null /\ \A u \in Tasks \ {t} : ~Working(u)
BY DEF InTurnNothingLeaks

\* What a step says of the calls that do not take it.
LEMMA OthersKeepCount ==
  ASSUME SocketInvariant, NEW t \in Tasks, NEW u \in Tasks \ {t}, ~overlapped, ~Working(u),
         pc'[u] = pc[u], waited'[u] = waited[u]
  PROVE  CounterCounts(u)'
BY DEF SocketInvariant, CounterCountsDelays, CounterCounts, Working, WS!Ended

\* A delay is appended as the schedule has it.
LEMMA SleepCounts ==
  ASSUME NEW delays \in Seq(Nat), Len(delays) = retryCount, retryCount < MaxRetries,
         \A i \in DOMAIN delays : Scheduled(delays[i], i - 1), retryCount \in Nat, ~overlapped
  PROVE  LET new == WS!Slept(delays, WS!Backoff(retryCount)) IN
           /\ new \in Seq(Nat) /\ Len(new) = retryCount + 1
           /\ \A i \in DOMAIN new : Scheduled(new[i], i - 1)
<1>. DEFINE new == Append(delays, WS!Backoff(retryCount))
<1>1. WS!Slept(delays, WS!Backoff(retryCount)) = new
  BY ConnectivityAssumption DEF WS!Slept, WS!ClientAssumption
<1>2. new \in Seq(Nat) /\ Len(new) = retryCount + 1
  <2>1. WS!Backoff(retryCount) \in Nat
    BY BackoffScheduled
  <2>. QED BY <2>1
<1>3. ASSUME NEW i \in DOMAIN new PROVE Scheduled(new[i], i - 1)
  <2>1. CASE i = retryCount + 1
    <3>1. new[i] = WS!Backoff(retryCount) /\ i - 1 = retryCount
      BY <2>1
    <3>. QED BY <3>1, BackoffScheduled
  <2>2. CASE i # retryCount + 1
    <3>1. i \in DOMAIN delays /\ new[i] = delays[i]
      BY <2>2
    <3>. QED BY <3>1
  <2>. QED BY <2>1, <2>2
<1>. QED BY <1>1, <1>2, <1>3

\* A failed attempt: the call sleeps or gives up.
LEMMA RecoverKeepsCount ==
  ASSUME SocketInvariant, NEW t \in Tasks, pc[t] \in {"attempting", "clearing"},
         WS!Recover(t), retryCount' = retryCount, overlapped' = overlapped
  PROVE  /\ waited' \in [Tasks -> Seq(Nat)]
         /\ CounterCountsDelays'
<1>. USE DEF SocketInvariant, WS!TypeOK
<1>1. waited' \in [Tasks -> Seq(Nat)]
  <2>1. WS!Backoff(retryCount) \in Nat
    BY BackoffScheduled
  <2>2. WS!Slept(waited[t], WS!Backoff(retryCount)) \in Seq(Nat)
    BY <2>1 DEF WS!Slept
  <2>. QED BY <2>2 DEF WS!Recover
<1>2. ASSUME ~overlapped PROVE CounterCounts(t)'
  <2>1. /\ Len(waited[t]) = retryCount /\ retryCount =< MaxRetries
        /\ \A i \in DOMAIN waited[t] : Scheduled(waited[t][i], i - 1)
    BY <1>2 DEF CounterCountsDelays, CounterCounts
  <2>2. CASE WS!MayRetry
    <3>. DEFINE new == WS!Slept(waited[t], WS!Backoff(retryCount))
    <3>1. waited'[t] = new /\ pc'[t] = "sleeping"
      BY <2>2 DEF WS!Recover
    <3>2. /\ Len(new) = retryCount + 1 /\ Len(new) =< MaxRetries
          /\ \A i \in DOMAIN new : Scheduled(new[i], i - 1)
      <4>1. waited[t] \in Seq(Nat) /\ retryCount < MaxRetries /\ retryCount \in Nat
        BY <2>2 DEF WS!MayRetry
      <4>2. /\ Len(new) = retryCount + 1
            /\ \A i \in DOMAIN new : Scheduled(new[i], i - 1)
        BY <1>2, <2>1, <4>1, SleepCounts
      <4>. QED BY <4>1, <4>2, ConnectivityAssumption DEF WS!ClientAssumption
    <3>. HIDE DEF new
    <3>. QED BY <3>1, <3>2 DEF CounterCounts
  <2>3. CASE ~WS!MayRetry
    <3>1. waited'[t] = waited[t] /\ pc'[t] = "raised"
      BY <2>3 DEF WS!Recover
    <3>2. retryCount = MaxRetries
      BY <2>1, <2>3, ConnectivityAssumption DEF WS!MayRetry, WS!ClientAssumption
    <3>. QED BY <2>1, <3>1, <3>2 DEF CounterCounts
  <2>. QED BY <2>2, <2>3
<1>3. ASSUME ~overlapped, NEW u \in Tasks \ {t} PROVE CounterCounts(u)'
  <2>1. ~Working(u) BY <1>3, OthersRest DEF Working, WS!Ended
  <2>2. pc'[u] = pc[u] /\ waited'[u] = waited[u]
    BY <1>3 DEF WS!Recover
  <2>. QED BY <1>3, <2>1, <2>2, OthersKeepCount
<1>. QED BY <1>1, <1>2, <1>3 DEF CounterCountsDelays

\* A step of a call keeps the connections in one pair of hands, and the counter
\* at the number of delays.
LEMMA SocketStep ==
  ASSUME SocketInvariant, NEW t \in Tasks,
         WS!Continue(t) \/ \E call \in WS!Calls : WS!Start(t, call)
  PROVE  SocketInvariant'
<1>. USE ConnectivityAssumption
     DEF WS!ClientAssumption, SocketInvariant, WS!TypeOK, WS!Ended
<1>1. CASE WS!Closed(t)
  <2>. USE <1>1 DEF WS!Closed, WS!Closes, WS!Proceed
  <2>1. WS!TypeOK' BY DEF ConnectionsInHand, WS!Calls
  <2>2. ConnectionsInHand' BY DEF ConnectionsInHand
  <2>3. InTurnNothingLeaks'
    <3>1. SUFFICES ASSUME ~overlapped'
                   PROVE  /\ \A u, v \in Tasks : Working(u)' /\ Working(v)' => u = v
                          /\ \A u \in Tasks : Working(u)' => connection' = Null
                          /\ \A c \in Conns : conn'[c] = "open" =>
                               c = connection' \/ \E u \in Tasks : closing'[u] = c
                          /\ WS!Idle' => state' =
                               IF connection' = Null THEN "DISCONNECTED" ELSE "CONNECTED"
      BY DEF InTurnNothingLeaks
    <3>2. ~overlapped /\ \A u \in Tasks \ {t} : ~Working(u)
      BY <3>1, OthersRest DEF Working
    <3>3. \A u \in Tasks \ {t} : ~Working(u)'
      BY <3>2 DEF Working
    <3>4. Working(t)' => connection' = Null
      BY <3>1, <3>2, OthersRest DEF Working
    <3>5. \A c \in Conns : conn'[c] = "open" =>
            c = connection' \/ \E u \in Tasks : closing'[u] = c
      BY <3>1, <3>2, OthersRest DEF InTurnNothingLeaks, ConnectionsInHand, Working
    <3>6. WS!Idle' => state' = IF connection' = Null THEN "DISCONNECTED" ELSE "CONNECTED"
      <4>1. connection' = Null
        BY <3>1, OthersRest DEF Working
      <4>2. WS!Idle' => op[t] = "disconnect"
        BY DEF WS!Idle
      <4>. QED BY <4>1, <4>2
    <3>. QED BY <3>3, <3>4, <3>5, <3>6
  <2>4. CounterCountsDelays'
    <3>1. SUFFICES ASSUME ~overlapped' PROVE \A u \in Tasks : CounterCounts(u)'
      BY DEF CounterCountsDelays
    <3>2. ~overlapped /\ \A u \in Tasks \ {t} : ~Working(u)
      BY <3>1, OthersRest DEF Working
    <3>3. \A u \in Tasks \ {t} : CounterCounts(u)'
      BY <3>2, OthersKeepCount
    <3>4. CounterCounts(t)'
      BY <3>1, <3>2 DEF CounterCountsDelays, CounterCounts
    <3>. QED BY <3>3, <3>4
  <2>. QED BY <2>1, <2>2, <2>3, <2>4
<1>2. CASE WS!Connected(t)
  <2>. USE <1>2 DEF WS!Connected
  <2>1. WS!TypeOK' BY DEF ConnectionsInHand, WS!Calls
  <2>2. ConnectionsInHand' BY DEF ConnectionsInHand
  <2>3. InTurnNothingLeaks'
    <3>1. SUFFICES ASSUME ~overlapped'
                   PROVE  /\ \A u, v \in Tasks : Working(u)' /\ Working(v)' => u = v
                          /\ \A u \in Tasks : Working(u)' => connection' = Null
                          /\ \A c \in Conns : conn'[c] = "open" =>
                               c = connection' \/ \E u \in Tasks : closing'[u] = c
                          /\ WS!Idle' => state' =
                               IF connection' = Null THEN "DISCONNECTED" ELSE "CONNECTED"
      BY DEF InTurnNothingLeaks
    <3>2. ~overlapped /\ \A u \in Tasks \ {t} : ~Working(u)
      BY <3>1, OthersRest DEF Working
    <3>3. \A u \in Tasks \ {t} : ~Working(u)'
      BY <3>2 DEF Working
    <3>4. Working(t)' => connection' = Null
      BY <3>1, <3>2, OthersRest DEF Working
    <3>5. \A c \in Conns : conn'[c] = "open" =>
            c = connection' \/ \E u \in Tasks : closing'[u] = c
      <4>1. connection = Null
        BY <3>1, OthersRest DEF Working
      <4>2. PICK d \in Conns : conn' = [conn EXCEPT ![d] = "open"] /\ connection' = d
        OBVIOUS
      <4>3. \A c \in Conns : conn[c] = "open" => \E u \in Tasks : closing[u] = c
        BY <3>1, <4>1 DEF InTurnNothingLeaks
      <4>. QED BY <4>2, <4>3
    <3>6. WS!Idle' => state' = IF connection' = Null THEN "DISCONNECTED" ELSE "CONNECTED"
      BY <3>1, <3>2, OthersRest DEF InTurnNothingLeaks, WS!Idle, Working
    <3>. QED BY <3>3, <3>4, <3>5, <3>6
  <2>4. CounterCountsDelays'
    <3>1. SUFFICES ASSUME ~overlapped' PROVE \A u \in Tasks : CounterCounts(u)'
      BY DEF CounterCountsDelays
    <3>2. ~overlapped /\ \A u \in Tasks \ {t} : ~Working(u)
      BY <3>1, OthersRest DEF Working
    <3>3. \A u \in Tasks \ {t} : CounterCounts(u)'
      BY <3>2, OthersKeepCount
    <3>4. CounterCounts(t)'
      BY <3>1, <3>2 DEF CounterCountsDelays, CounterCounts
    <3>. QED BY <3>3, <3>4
  <2>. QED BY <2>1, <2>2, <2>3, <2>4
<1>3. CASE WS!AttemptFails(t)
  <2>. USE <1>3 DEF WS!AttemptFails, WS!Recover, WS!MayRetry
  <2>1. WS!TypeOK'
    <3>1. waited' \in [Tasks -> Seq(Nat)]
      BY RecoverKeepsCount
    <3>2. /\ pc' \in [Tasks -> WS!Ended \cup {"closing", "attempting", "clearing", "sleeping"}]
          /\ state' \in {"DISCONNECTED", "CONNECTING", "CONNECTED", "RECONNECTING"}
      OBVIOUS
    <3>3. /\ conn' \in [Conns -> {"unused", "open", "closed"}]
          /\ closing' \in [Tasks -> Conns \cup {Null}] /\ connection' \in Conns \cup {Null}
      OBVIOUS
    <3>4. UNCHANGED <<retryCount, op, overlapped, quit>>
      OBVIOUS
    <3>. QED BY <3>1, <3>2, <3>3, <3>4
  <2>2. ConnectionsInHand' BY DEF ConnectionsInHand
  <2>3. InTurnNothingLeaks'
    <3>1. SUFFICES ASSUME ~overlapped'
                   PROVE  /\ \A u, v \in Tasks : Working(u)' /\ Working(v)' => u = v
                          /\ \A u \in Tasks : Working(u)' => connection' = Null
                          /\ \A c \in Conns : conn'[c] = "open" =>
                               c = connection' \/ \E u \in Tasks : closing'[u] = c
                          /\ WS!Idle' => state' =
                               IF connection' = Null THEN "DISCONNECTED" ELSE "CONNECTED"
      BY DEF InTurnNothingLeaks
    <3>2. ~overlapped /\ \A u \in Tasks \ {t} : ~Working(u)
      BY <3>1, OthersRest DEF Working
    <3>3. \A u \in Tasks \ {t} : ~Working(u)'
      BY <3>2 DEF Working
    <3>4. Working(t)' => connection' = Null
      BY <3>1, <3>2, OthersRest DEF Working
    <3>5. \A c \in Conns : conn'[c] = "open" =>
            c = connection' \/ \E u \in Tasks : closing'[u] = c
      BY <3>1, <3>2, OthersRest DEF InTurnNothingLeaks, ConnectionsInHand, Working
    <3>6. WS!Idle' => state' = IF connection' = Null THEN "DISCONNECTED" ELSE "CONNECTED"
      BY <3>1, <3>2, OthersRest, SMTT(30) DEF InTurnNothingLeaks, WS!Idle, Working
    <3>. QED BY <3>3, <3>4, <3>5, <3>6
  <2>4. CounterCountsDelays'
    <3>1. CASE connection = Null
      BY <3>1, RecoverKeepsCount
    <3>2. CASE connection # Null
      BY <3>2, OthersRest DEF CounterCountsDelays, Working
    <3>. QED BY <3>1, <3>2
  <2>. QED BY <2>1, <2>2, <2>3, <2>4
<1>4. CASE WS!Cleared(t)
  <2>. USE <1>4 DEF WS!Cleared, WS!Closes, WS!Recover, WS!MayRetry
  <2>1. WS!TypeOK'
    <3>1. waited' \in [Tasks -> Seq(Nat)]
      BY RecoverKeepsCount
    <3>2. /\ pc' \in [Tasks -> WS!Ended \cup {"closing", "attempting", "clearing", "sleeping"}]
          /\ state' \in {"DISCONNECTED", "CONNECTING", "CONNECTED", "RECONNECTING"}
      OBVIOUS
    <3>3. /\ conn' \in [Conns -> {"unused", "open", "closed"}]
          /\ closing' \in [Tasks -> Conns \cup {Null}] /\ connection' \in Conns \cup {Null}
      OBVIOUS
    <3>4. UNCHANGED <<retryCount, op, overlapped, quit>>
      OBVIOUS
    <3>. QED BY <3>1, <3>2, <3>3, <3>4
  <2>2. ConnectionsInHand' BY DEF ConnectionsInHand
  <2>3. InTurnNothingLeaks'
    <3>1. SUFFICES ASSUME ~overlapped'
                   PROVE  /\ \A u, v \in Tasks : Working(u)' /\ Working(v)' => u = v
                          /\ \A u \in Tasks : Working(u)' => connection' = Null
                          /\ \A c \in Conns : conn'[c] = "open" =>
                               c = connection' \/ \E u \in Tasks : closing'[u] = c
                          /\ WS!Idle' => state' =
                               IF connection' = Null THEN "DISCONNECTED" ELSE "CONNECTED"
      BY DEF InTurnNothingLeaks
    <3>2. ~overlapped /\ \A u \in Tasks \ {t} : ~Working(u)
      BY <3>1, OthersRest DEF Working
    <3>3. \A u \in Tasks \ {t} : ~Working(u)'
      BY <3>2 DEF Working
    <3>4. Working(t)' => connection' = Null
      BY <3>1, <3>2, OthersRest DEF Working
    <3>5. \A c \in Conns : conn'[c] = "open" =>
            c = connection' \/ \E u \in Tasks : closing'[u] = c
      BY <3>1, <3>2, OthersRest DEF InTurnNothingLeaks, ConnectionsInHand, Working
    <3>6. WS!Idle' => state' = IF connection' = Null THEN "DISCONNECTED" ELSE "CONNECTED"
      <4>1. connection' = Null
        BY <3>1, OthersRest DEF Working
      <4>2. WS!Idle' => ~WS!MayRetry
        BY DEF WS!Idle
      <4>. QED BY <4>1, <4>2
    <3>. QED BY <3>3, <3>4, <3>5, <3>6
  <2>4. CounterCountsDelays'
    BY RecoverKeepsCount
  <2>. QED BY <2>1, <2>2, <2>3, <2>4
<1>5. CASE WS!Wake(t)
  <2>. USE <1>5 DEF WS!Wake
  <2>1. WS!TypeOK' BY DEF ConnectionsInHand, WS!Calls
  <2>2. ConnectionsInHand' BY DEF ConnectionsInHand
  <2>3. InTurnNothingLeaks'
    <3>1. SUFFICES ASSUME ~overlapped'
                   PROVE  /\ \A u, v \in Tasks : Working(u)' /\ Working(v)' => u = v
                          /\ \A u \in Tasks : Working(u)' => connection' = Null
                          /\ \A c \in Conns : conn'[c] = "open" =>
                               c = connection' \/ \E u \in Tasks : closing'[u] = c
                          /\ WS!Idle' => state' =
                               IF connection' = Null THEN "DISCONNECTED" ELSE "CONNECTED"
      BY DEF InTurnNothingLeaks
    <3>2. ~overlapped /\ \A u \in Tasks \ {t} : ~Working(u)
      BY <3>1, OthersRest DEF Working
    <3>3. \A u \in Tasks \ {t} : ~Working(u)'
      BY <3>2 DEF Working
    <3>4. Working(t)' => connection' = Null
      BY <3>1, <3>2, OthersRest DEF Working
    <3>5. \A c \in Conns : conn'[c] = "open" =>
            c = connection' \/ \E u \in Tasks : closing'[u] = c
      BY <3>1, <3>2, OthersRest DEF InTurnNothingLeaks, ConnectionsInHand, Working
    <3>6. WS!Idle' => state' = IF connection' = Null THEN "DISCONNECTED" ELSE "CONNECTED"
      BY <3>1, <3>2, OthersRest DEF InTurnNothingLeaks, WS!Idle, Working
    <3>. QED BY <3>3, <3>4, <3>5, <3>6
  <2>4. CounterCountsDelays'
    <3>1. SUFFICES ASSUME ~overlapped' PROVE \A u \in Tasks : CounterCounts(u)'
      BY DEF CounterCountsDelays
    <3>2. ~overlapped /\ \A u \in Tasks \ {t} : ~Working(u)
      BY <3>1, OthersRest DEF Working
    <3>3. \A u \in Tasks \ {t} : CounterCounts(u)'
      BY <3>2, OthersKeepCount
    <3>4. CounterCounts(t)'
      BY <3>1, <3>2 DEF CounterCountsDelays, CounterCounts
    <3>. QED BY <3>3, <3>4
  <2>. QED BY <2>1, <2>2, <2>3, <2>4
<1>6. ASSUME NEW call \in WS!Calls, WS!Start(t, call) PROVE SocketInvariant'
  <2>. USE <1>6 DEF WS!Start, WS!Proceed, WS!Idle
  <2>1. WS!TypeOK'
    <3>1. CASE connection = Null
      <4>1. CASE call = "disconnect"
        <5>1. quit' = (quit \/ pc[t] = "closing") BY <3>1, <4>1
        <5>2. quit' \in BOOLEAN BY <5>1
        <5>. QED BY <3>1, <4>1, <5>2 DEF WS!Calls
      <4>2. CASE call # "disconnect"
        <5>1. quit' = FALSE /\ state' \in {"CONNECTING", "RECONNECTING"}
          BY <3>1, <4>2
        <5>2. pc' = [pc EXCEPT ![t] = "attempting"] BY <3>1, <4>2
        <5>3. overlapped' \in BOOLEAN OBVIOUS
        <5>4. retryCount' = 0 /\ connection' = Null BY <3>1
        <5>. QED BY <5>1, <5>2, <5>3, <5>4 DEF WS!Calls
      <4>. QED BY <4>1, <4>2
    <3>2. CASE connection # Null
      BY <3>2 DEF WS!Calls
    <3>. QED BY <3>1, <3>2
  <2>2. ConnectionsInHand' BY DEF ConnectionsInHand
  <2>3. InTurnNothingLeaks'
    <3>1. SUFFICES ASSUME ~overlapped'
                   PROVE  /\ \A u, v \in Tasks : Working(u)' /\ Working(v)' => u = v
                          /\ \A u \in Tasks : Working(u)' => connection' = Null
                          /\ \A c \in Conns : conn'[c] = "open" =>
                               c = connection' \/ \E u \in Tasks : closing'[u] = c
                          /\ WS!Idle' => state' =
                               IF connection' = Null THEN "DISCONNECTED" ELSE "CONNECTED"
      BY DEF InTurnNothingLeaks
    <3>2. ~overlapped /\ \A u \in Tasks \ {t} : ~Working(u)
      BY <3>1 DEF WS!Idle, Working
    <3>3. \A u \in Tasks \ {t} : ~Working(u)'
      BY <3>2 DEF Working
    <3>4. Working(t)' => connection' = Null
      BY <3>1, <3>2 DEF Working
    <3>5. \A c \in Conns : conn'[c] = "open" =>
            c = connection' \/ \E u \in Tasks : closing'[u] = c
      <4>1. \A u \in Tasks : closing[u] = Null
        BY <3>2 DEF ConnectionsInHand, Working
      <4>2. \A c \in Conns : conn[c] = "open" => c = connection
        BY <3>2, <4>1 DEF InTurnNothingLeaks
      <4>3. closing'[t] = connection
        OBVIOUS
      <4>. QED BY <4>2, <4>3
    <3>6. WS!Idle' => state' = IF connection' = Null THEN "DISCONNECTED" ELSE "CONNECTED"
      <4>1. connection # Null => pc'[t] = "closing"
        OBVIOUS
      <4>2. connection = Null /\ call # "disconnect" => pc'[t] = "attempting"
        OBVIOUS
      <4>3. WS!Idle' => connection = Null /\ call = "disconnect"
        BY <4>1, <4>2 DEF WS!Idle
      <4>. QED BY <4>3
    <3>. QED BY <3>3, <3>4, <3>5, <3>6
  <2>4. CounterCountsDelays'
    <3>1. SUFFICES ASSUME ~overlapped' PROVE \A u \in Tasks : CounterCounts(u)'
      BY DEF CounterCountsDelays
    <3>2. ~overlapped /\ \A u \in Tasks \ {t} : ~Working(u)
      BY <3>1 DEF WS!Idle, Working
    <3>3. \A u \in Tasks \ {t} : CounterCounts(u)'
      BY <3>2, OthersKeepCount
    <3>4. CounterCounts(t)'
      BY <3>1, <3>2 DEF CounterCountsDelays, CounterCounts
    <3>. QED BY <3>3, <3>4
  <2>. QED BY <2>1, <2>2, <2>3, <2>4
<1>. QED BY <1>1, <1>2, <1>3, <1>4, <1>5, <1>6 DEF WS!Continue

\* The invariant says what the run checks.
LEMMA SocketInvariantSuffices ==
  ASSUME SocketInvariant
  PROVE  WS!TypeOK /\ WS!HoldsWhatIsOpen /\ WS!BackoffSchedule
<1>. USE DEF SocketInvariant
<1>1. ASSUME WS!Idle, ~overlapped
      PROVE  /\ {c \in Conns : conn[c] = "open"} = {connection} \ {Null}
             /\ state = IF connection = Null THEN "DISCONNECTED" ELSE "CONNECTED"
  <2>1. \A t \in Tasks : closing[t] = Null
    BY <1>1 DEF WS!Idle, WS!Ended, ConnectionsInHand
  <2>2. \A c \in Conns : conn[c] = "open" => c = connection
    BY <1>1, <2>1, ConnectivityAssumption DEF InTurnNothingLeaks, WS!ClientAssumption
  <2>3. connection # Null => connection \in Conns /\ conn[connection] = "open"
    BY DEF WS!TypeOK, ConnectionsInHand
  <2>. QED
    BY <1>1, <2>2, <2>3, ConnectivityAssumption DEF InTurnNothingLeaks, WS!ClientAssumption
<1>2. WS!HoldsWhatIsOpen
  BY <1>1 DEF WS!HoldsWhatIsOpen, ConnectionsInHand
<1>3. WS!BackoffSchedule
  BY DEF WS!BackoffSchedule, CounterCountsDelays, CounterCounts, Scheduled
<1>. QED BY <1>2, <1>3

LEMMA SocketInvariantHolds == PartsSpec => []SocketInvariant
<1>1. PartsInit => SocketInvariant
  BY SocketStarts DEF PartsInit
<1>2. SocketInvariant /\ [PartsNext]_<<vars, socketVars, adapterVars, part>> => SocketInvariant'
  <2>. SUFFICES ASSUME SocketInvariant, [PartsNext]_<<vars, socketVars, adapterVars, part>>
                PROVE  SocketInvariant'
    OBVIOUS
  <2>1. CASE WS!Next
    BY <2>1, SocketStep DEF WS!Next
  <2>2. CASE UNCHANGED socketVars
    BY <2>2 DEF socketVars, SocketInvariant, WS!TypeOK, ConnectionsInHand, InTurnNothingLeaks,
      CounterCountsDelays, CounterCounts, Working, WS!Idle
  <2>. QED BY <2>1, <2>2 DEF PartsNext
<1>. QED BY <1>1, <1>2, PTL DEF PartsSpec

\* However calls overlap, the client holds no connection that is closed or being
\* closed and none is closed twice; calls in turn leak none and back off as the
\* schedule says, for any number of retries and any delays.
THEOREM SocketsAreAlwaysSound == PartsSpec => []SocketsAreSound
<1>1. SocketInvariant => SocketsAreSound
  BY SocketInvariantSuffices DEF SocketsAreSound
<1>. QED BY <1>1, SocketInvariantHolds, PTL

=============================================================================
