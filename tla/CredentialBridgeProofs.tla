------------------------ MODULE CredentialBridgeProofs ------------------------
(***************************************************************************)
(* Proofs about CredentialBridge, for any set of connections, any lease,   *)
(* any bounds and with or without failing writes.                          *)
(***************************************************************************)
EXTENDS CredentialBridge, TLAPS

USE DEF Actors, Commands, Requests, Conn, Off, Rotation, Idle, rendererVars, pairing, history

(* Steps of Next grouped by what they can change. *)
ConnStep(c) ==
  Dial(c) \/ Accept(c) \/ Reject(c) \/ ReadToken(c) \/ Greet(c) \/ EndRevoke(c) \/ HangUp(c)

LEMMA NextCases ==
  ASSUME Next
  PROVE  \/ Renderer
         \/ MainThread
         \/ \E a \in Actors : Rotate(a)
         \/ \E c \in Conns : ConnStep(c)
         \/ \E c \in Conns, request \in Requests : Send(c, request)
         \/ \E c \in Conns : Admit(c)
         \/ \E c \in Conns : ServeGet(c)
         \/ \E c \in Conns : ServeOther(c)
         \/ \E c \in Conns : ServeRevoke(c)
         \/ Tick
  BY Zenon DEF Next, Host, Handler, ConnStep

-----------------------------------------------------------------------------
LEMMA TypeInit == ASSUME Init PROVE TypeOK
  <1>1. ipc \in Seq(Commands)
    BY DEF Init
  <1>2. [pc |-> "write", tok |-> 2] \in Rotation /\ Idle \in Rotation /\ Off \in Conn
    OBVIOUS
  <1>3. rot \in [Actors -> Rotation]
    BY <1>2 DEF Init
  <1>4. conn \in [Conns -> Conn]
    BY <1>2 DEF Init
  <1>5. file \in Nat
    BY DEF Init
  <1> HIDE DEF Actors, Commands, Conn, Off, Rotation, Idle
  <1> QED
    BY <1>1, <1>3, <1>4, <1>5 DEF Init, TypeOK

LEMMA TypeRenderer == ASSUME TypeOK, Renderer PROVE TypeOK'
  <1>1. ASSUME NEW command \in Commands PROVE Append(ipc, command) \in Seq(Commands)
    BY DEF TypeOK
  <1>2. ipc \o <<"close", "clear">> \in Seq(Commands)
    BY DEF TypeOK
  <1>3. CASE Unlock
    BY <1>1, <1>3 DEF TypeOK, Unlock
  <1>4. CASE SyncLease
    BY <1>1, <1>4 DEF TypeOK, SyncLease
  <1>5. CASE Lock
    BY <1>2, <1>5 DEF TypeOK, Lock
  <1>6. CASE AskRotation
    BY <1>1, <1>6 DEF TypeOK, AskRotation
  <1> QED
    BY <1>3, <1>4, <1>5, <1>6 DEF Renderer

LEMMA TypeMainThread == ASSUME BridgeAssumption, TypeOK, MainThread PROVE TypeOK'
  <1>1. ASSUME ipc # <<>> PROVE Tail(ipc) \in Seq(Commands)
    BY <1>1 DEF TypeOK
  <1>2. CASE RunOpen
    BY <1>1, <1>2 DEF TypeOK, RunOpen, Runs
  <1>3. CASE RunClose
    BY <1>1, <1>3 DEF TypeOK, RunClose, Runs
  <1>4. CASE RunSync
    BY <1>1, <1>4 DEF TypeOK, RunSync, Runs, BridgeAssumption
  <1>5. CASE RunClear
    BY <1>1, <1>5 DEF TypeOK, RunClear, Runs
  <1>6. CASE RunRotate
    <2>1. rot' \in [Actors -> Rotation]
      BY <1>6 DEF TypeOK, RunRotate
    <2> QED
      BY <1>1, <1>6, <2>1 DEF TypeOK, RunRotate, Runs
  <1> QED
    BY <1>2, <1>3, <1>4, <1>5, <1>6 DEF MainThread

LEMMA TypeRotate == ASSUME TypeOK, NEW a \in Actors, Rotate(a) PROVE TypeOK'
  <1>1. rot[a] \in Rotation /\ rot[a].tok \in Nat /\ Idle \in Rotation
    BY DEF TypeOK
  <1>2. CASE Bump(a)
    <2>1. [pc |-> "write", tok |-> minted + 1] \in Rotation
      BY DEF TypeOK
    <2>2. rot' \in [Actors -> Rotation]
      BY <1>2, <2>1 DEF TypeOK, Bump
    <2> HIDE DEF Actors, Conn, Rotation
    <2> QED
      BY <1>2, <2>2 DEF TypeOK, Bump
  <1>3. CASE WriteFile(a)
    <2>1. [rot[a] EXCEPT !.pc = "install"] \in Rotation
      BY <1>1
    <2>2. rot' \in [Actors -> Rotation]
      BY <1>1, <1>3, <2>1 DEF TypeOK, WriteFile
    <2> HIDE DEF Actors, Conn, Rotation
    <2> QED
      BY <1>1, <1>3, <2>2 DEF TypeOK, WriteFile
  <1>4. CASE FailFile(a)
    <2>1. rot' \in [Actors -> Rotation] /\ file' \in Nat
      BY <1>1, <1>4 DEF TypeOK, FailFile
    <2> HIDE DEF Actors, Conn, Rotation
    <2> QED
      BY <1>4, <2>1 DEF TypeOK, FailFile
  <1>5. CASE Install(a)
    <2>1. rot' \in [Actors -> Rotation]
      BY <1>1, <1>5 DEF TypeOK, Install
    <2> HIDE DEF Actors, Conn, Rotation
    <2> QED
      BY <1>1, <1>5, <2>1 DEF TypeOK, Install
  <1> QED
    BY <1>2, <1>3, <1>4, <1>5 DEF Rotate

(* What each handler step makes of its connection. *)
LEMMA ConnTyped ==
  ASSUME TypeOK, NEW c \in Conns,
         ConnStep(c) \/ Admit(c) \/ ServeGet(c) \/ ServeOther(c) \/ ServeRevoke(c)
           \/ \E request \in Requests : Send(c, request)
  PROVE  conn' \in [Conns -> Conn] /\ \A d \in Conns \ {c} : conn'[d] = conn[d]
  <1>1. conn[c] \in Conn /\ Off \in Conn /\ gen \in Nat /\ token \in Nat /\ file \in Nat
    BY DEF TypeOK
  <1>2. \E r \in Conn : conn' = [conn EXCEPT ![c] = r]
    <2>1. CASE Dial(c)
      <3>1. [Off EXCEPT !.pc = "dialing", !.key = file] \in Conn
        BY <1>1
      <3> QED
        BY <2>1, <3>1 DEF Dial
    <2>2. CASE Accept(c)
      <3>1. [conn[c] EXCEPT !.pc = "stamped", !.gen = gen] \in Conn
        BY <1>1
      <3>2. conn' = [conn EXCEPT ![c] = [conn[c] EXCEPT !.pc = "stamped", !.gen = gen]]
        BY <1>1, <2>2 DEF Accept, TypeOK
      <3> QED
        BY <3>1, <3>2
    <2>3. CASE Reject(c) \/ HangUp(c) \/ EndRevoke(c)
      BY <1>1, <2>3 DEF Reject, HangUp, EndRevoke
    <2>4. CASE ReadToken(c)
      <3>1. [conn[c] EXCEPT !.pc = "greeting", !.tok = token] \in Conn
        BY <1>1
      <3>2. conn' = [conn EXCEPT ![c] = [conn[c] EXCEPT !.pc = "greeting", !.tok = token]]
        BY <1>1, <2>4 DEF ReadToken, TypeOK
      <3> QED
        BY <3>1, <3>2
    <2>5. CASE Greet(c)
      <3>1. [conn[c] EXCEPT !.pc = "reading"] \in Conn
        BY <1>1
      <3> QED
        BY <1>1, <2>5, <3>1 DEF Greet, TypeOK
    <2>6. CASE Admit(c)
      <3>1. [conn[c] EXCEPT !.pc = "serving"] \in Conn
        BY <1>1
      <3> QED
        BY <1>1, <2>6, <3>1 DEF Admit, TypeOK
    <2>7. CASE ServeGet(c) \/ ServeOther(c)
      <3>1. [conn[c] EXCEPT !.pc = "reading", !.req = "none", !.late = FALSE] \in Conn
        BY <1>1
      <3>2. \/ conn' = [conn EXCEPT ![c] =
                          [conn[c] EXCEPT !.pc = "reading", !.req = "none", !.late = FALSE]]
            \/ conn' = [conn EXCEPT ![c] = Off]
        BY <1>1, <2>7 DEF ServeGet, ServeOther, Answer, TypeOK
      <3> QED
        BY <1>1, <3>1, <3>2
    <2>8. CASE ServeRevoke(c)
      <3>1. [conn[c] EXCEPT !.pc = "revoking"] \in Conn
        BY <1>1
      <3> QED
        BY <1>1, <2>8, <3>1 DEF ServeRevoke, TypeOK
    <2>9. ASSUME NEW request \in Requests, Send(c, request)
          PROVE  \E r \in Conn : conn' = [conn EXCEPT ![c] = r]
      <3>1. [conn[c] EXCEPT !.req = request, !.late = (gen # conn[c].gen)] \in Conn
        BY <1>1
      <3>2. conn' = [conn EXCEPT ![c] =
                       [conn[c] EXCEPT !.req = request, !.late = (gen # conn[c].gen)]]
        BY <1>1, <2>9 DEF Send, TypeOK
      <3> QED
        BY <3>1, <3>2
    <2> QED
      BY <2>1, <2>2, <2>3, <2>4, <2>5, <2>6, <2>7, <2>8, <2>9 DEF ConnStep
  <1> HIDE DEF Conn, Off
  <1> QED
    BY <1>2 DEF TypeOK

LEMMA TypeConn ==
  ASSUME TypeOK, NEW c \in Conns,
         ConnStep(c) \/ Admit(c) \/ ServeGet(c) \/ ServeOther(c) \/ ServeRevoke(c)
           \/ \E request \in Requests : Send(c, request)
  PROVE  TypeOK'
  <1>1. conn' \in [Conns -> Conn]
    BY ConnTyped
  <1>2. rot' \in [Actors -> Rotation]
    <2>1. CASE ServeRevoke(c)
      <3>1. [rot[c] EXCEPT !.pc = "bump"] \in Rotation
        BY DEF TypeOK
      <3> QED
        BY <2>1, <3>1 DEF TypeOK, ServeRevoke
    <2>2. CASE ~ServeRevoke(c)
      <3>1. rot' = rot
        BY <2>2 DEF ConnStep, Dial, Accept, Reject, ReadToken, Greet, EndRevoke, HangUp, Admit,
                    ServeGet, ServeOther, Send
      <3> QED
        BY <3>1 DEF TypeOK
    <2> QED
      BY <2>1, <2>2
  <1>3. lease' \in Nat /\ asked' \in Nat
    <2>1. lease \in Nat /\ asked \in Nat
      BY DEF TypeOK
    <2>2. CASE ConnStep(c) \/ Admit(c)
      BY <2>1, <2>2 DEF ConnStep, Dial, Accept, Reject, ReadToken, Greet, EndRevoke, HangUp, Admit
    <2>3. CASE \/ ServeGet(c) \/ ServeOther(c) \/ ServeRevoke(c)
               \/ \E request \in Requests : Send(c, request)
      BY <2>1, <2>3 DEF ServeGet, ServeOther, ServeRevoke, Send
    <2> QED
      BY <2>2, <2>3
  <1>4. UNCHANGED <<unlocked, ipc, session, token, file, gen, minted, torn, now, closedAt>>
    BY DEF ConnStep, Dial, Accept, Reject, ReadToken, Greet, EndRevoke, HangUp, Admit,
           ServeGet, ServeOther, ServeRevoke, Send
  <1> HIDE DEF Actors, Commands, Conn, Rotation
  <1> QED
    BY <1>1, <1>2, <1>3, <1>4 DEF TypeOK

LEMMA TypeStep == ASSUME BridgeAssumption, TypeOK, [Next]_vars PROVE TypeOK'
  <1>1. CASE Next
    <2>1. CASE Tick
      BY <2>1 DEF TypeOK, Tick
    <2> QED
      BY <1>1, <2>1, NextCases, TypeRenderer, TypeMainThread, TypeRotate, TypeConn
  <1>2. CASE UNCHANGED vars
    BY <1>2 DEF TypeOK, vars
  <1> QED
    BY <1>1, <1>2

(* Every variable of the bridge keeps its type. *)
THEOREM BridgeTyped == Spec => []TypeOK
  <1>1. Init => TypeOK
    BY TypeInit
  <1>2. TypeOK /\ [Next]_vars => TypeOK'
    BY TypeStep, BridgeAssumption
  <1> QED
    BY <1>1, <1>2, PTL DEF Spec

-----------------------------------------------------------------------------
(* A request is late only when the generation has grown past the one its   *)
(* connection was stamped with.                                            *)
LateInv ==
  \A c \in Conns :
    /\ conn[c].gen <= gen
    /\ conn[c].late => conn[c].gen # gen
    /\ conn[c].pc \in {"dialing", "serving"} => ~conn[c].late

LEMMA LateKept ==
  ASSUME TypeOK, LateInv, conn' = conn, gen' = gen \/ gen' = gen + 1
  PROVE  LateInv'
  <1> SUFFICES ASSUME NEW c \in Conns
               PROVE  /\ conn[c].gen <= gen'
                      /\ conn[c].late => conn[c].gen # gen'
                      /\ conn[c].pc \in {"dialing", "serving"} => ~conn[c].late
    BY DEF LateInv
  <1>1. conn[c] \in Conn /\ gen \in Nat
    BY DEF TypeOK
  <1> QED
    BY <1>1 DEF LateInv

LEMMA LateConn ==
  ASSUME TypeOK, LateInv, NEW c \in Conns, gen' = gen,
         ConnStep(c) \/ Admit(c) \/ ServeGet(c) \/ ServeOther(c) \/ ServeRevoke(c)
           \/ \E request \in Requests : Send(c, request)
  PROVE  LateInv'
  <1> DEFINE Late(d) == /\ conn[d].gen <= gen
                        /\ conn[d].late => conn[d].gen # gen
                        /\ conn[d].pc \in {"dialing", "serving"} => ~conn[d].late
  <1>0. conn[c] \in Conn /\ gen \in Nat /\ Late(c) /\ conn \in [Conns -> Conn]
    BY DEF TypeOK, LateInv
  <1>1. \A d \in Conns \ {c} : conn'[d] = conn[d]
    BY ConnTyped
  <1>2. CASE conn' = [conn EXCEPT ![c] = Off]
    BY <1>0, <1>1, <1>2 DEF LateInv
  <1>3. CASE Dial(c) \/ Accept(c) \/ ReadToken(c)
    <2>1. CASE Dial(c)
      <3>1. Late(c)'
        BY <1>0, <2>1 DEF Dial
      <3> QED
        BY <1>1, <3>1 DEF LateInv
    <2>2. CASE Accept(c)
      <3>1. conn'[c].gen = gen /\ conn'[c].pc = "stamped" /\ conn'[c].late = conn[c].late
        BY <1>0, <2>2 DEF Accept
      <3>2. ~conn[c].late
        BY <2>2 DEF Accept, LateInv
      <3> QED
        BY <1>0, <1>1, <3>1, <3>2 DEF LateInv
    <2>3. CASE ReadToken(c)
      <3>1. Late(c)'
        BY <1>0, <2>3 DEF ReadToken
      <3> QED
        BY <1>1, <3>1 DEF LateInv
    <2> QED
      BY <1>3, <2>1, <2>2, <2>3
  <1>4. CASE (Greet(c) \/ Admit(c)) /\ conn' # [conn EXCEPT ![c] = Off]
    <2>1. Late(c)'
      BY <1>0, <1>4 DEF Greet, Admit
    <2> QED
      BY <1>1, <2>1 DEF LateInv
  <1>5. CASE ServeRevoke(c)
    <2>1. Late(c)'
      BY <1>0, <1>5 DEF ServeRevoke
    <2> QED
      BY <1>1, <2>1 DEF LateInv
  <1>6. CASE (ServeGet(c) \/ ServeOther(c)) /\ conn' # [conn EXCEPT ![c] = Off]
    <2>1. Late(c)'
      BY <1>0, <1>6 DEF ServeGet, ServeOther, Answer
    <2> QED
      BY <1>1, <2>1 DEF LateInv
  <1>7. ASSUME NEW request \in Requests, Send(c, request) PROVE LateInv'
    <2>1. Late(c)'
      BY <1>0, <1>7 DEF Send
    <2> QED
      BY <1>1, <2>1 DEF LateInv
  <1> QED
    BY <1>2, <1>3, <1>4, <1>5, <1>6, <1>7 DEF ConnStep, Reject, HangUp, EndRevoke

LEMMA LateStep == ASSUME TypeOK, LateInv, [Next]_vars PROVE LateInv'
  <1>1. CASE Next
    <2>1. CASE Renderer \/ MainThread \/ Tick
      <3>1. conn' = conn /\ gen' = gen
        BY <2>1 DEF Renderer, Unlock, SyncLease, Lock, AskRotation, MainThread, RunOpen, RunClose,
                    RunSync, RunClear, RunRotate, Tick
      <3> QED
        BY <3>1, LateKept
    <2>2. ASSUME NEW a \in Actors, Rotate(a) PROVE LateInv'
      <3>1. conn' = conn /\ (gen' = gen \/ gen' = gen + 1)
        BY <2>2 DEF Rotate, Bump, WriteFile, FailFile, Install
      <3> QED
        BY <3>1, LateKept
    <2>3. ASSUME NEW c \in Conns,
                 ConnStep(c) \/ Admit(c) \/ ServeGet(c) \/ ServeOther(c) \/ ServeRevoke(c)
                   \/ \E request \in Requests : Send(c, request)
          PROVE  LateInv'
      <3>1. gen' = gen
        BY <2>3 DEF ConnStep, Dial, Accept, Reject, ReadToken, Greet, EndRevoke, HangUp, Admit,
                    ServeGet, ServeOther, ServeRevoke, Answer, Send
      <3> QED
        BY <2>3, <3>1, LateConn
    <2> QED
      BY <1>1, <2>1, <2>2, <2>3, NextCases
  <1>2. CASE UNCHANGED vars
    BY <1>2 DEF LateInv, vars
  <1> QED
    BY <1>1, <1>2

(* No request sent after a revocation is dispatched, for any number of     *)
(* connections and rotations in any order.                                 *)
THEOREM RevokedNeverServed == Spec => []LateRequestsRefused
  <1>1. Init => LateInv
    BY DEF Init, LateInv
  <1>2. TypeOK /\ LateInv /\ [Next]_vars => LateInv'
    BY LateStep
  <1>3. LateInv => LateRequestsRefused
    BY DEF LateInv, LateRequestsRefused
  <1> QED
    BY <1>1, <1>2, <1>3, BridgeTyped, PTL DEF Spec

-----------------------------------------------------------------------------
(* A lease ends within Lease of the last moment the native session was     *)
(* open.                                                                   *)
LeaseInv ==
  /\ closedAt <= now
  /\ lease <= (IF session THEN now ELSE closedAt) + Lease

LEMMA LeaseStep == ASSUME BridgeAssumption, TypeOK, LeaseInv, [Next]_vars PROVE LeaseInv'
  <1>0. lease \in Nat /\ now \in Nat /\ closedAt \in Nat /\ session \in BOOLEAN /\ Lease \in Nat
    BY DEF TypeOK, BridgeAssumption
  <1>1. CASE Next
    <2>1. CASE Renderer
      BY <2>1 DEF LeaseInv, Renderer, Unlock, SyncLease, Lock, AskRotation
    <2>2. CASE RunOpen
      BY <1>0, <2>2 DEF LeaseInv, RunOpen
    <2>3. CASE RunClose
      BY <1>0, <2>3 DEF LeaseInv, RunClose
    <2>4. CASE RunSync
      BY <1>0, <2>4 DEF LeaseInv, RunSync
    <2>5. CASE RunClear \/ RunRotate
      BY <1>0, <2>5 DEF LeaseInv, RunClear, RunRotate
    <2>6. ASSUME NEW a \in Actors, Rotate(a) PROVE LeaseInv'
      BY <2>6 DEF LeaseInv, Rotate, Bump, WriteFile, FailFile, Install
    <2>7. ASSUME NEW c \in Conns,
                 ConnStep(c) \/ Admit(c) \/ ServeGet(c) \/ ServeOther(c) \/ ServeRevoke(c)
                   \/ \E request \in Requests : Send(c, request)
          PROVE  LeaseInv'
      <3>1. UNCHANGED <<session, now, closedAt>> /\ (lease' = lease \/ lease' = 0)
        BY <2>7 DEF ConnStep, Dial, Accept, Reject, ReadToken, Greet, EndRevoke, HangUp, Admit,
                    ServeGet, ServeOther, ServeRevoke, Send
      <3> QED
        BY <1>0, <3>1 DEF LeaseInv
    <2>8. CASE Tick
      BY <1>0, <2>8 DEF LeaseInv, Tick
    <2> QED
      BY <1>1, <2>1, <2>2, <2>3, <2>4, <2>5, <2>6, <2>7, <2>8, NextCases DEF MainThread
  <1>2. CASE UNCHANGED vars
    BY <1>2 DEF LeaseInv, vars
  <1> QED
    BY <1>1, <1>2

(* The step that hands out credentials has a lease that is still running. *)
LEMMA AnswerHasLease ==
  ASSUME TypeOK, NEW c \in Conns, [Next]_vars, AnswersCredentials(c)
  PROVE  lease > now
  <1>0. lease \in Nat /\ now \in Nat /\ conn \in [Conns -> Conn]
    BY DEF TypeOK
  <1>1. conn'[c] # conn[c]
    BY DEF AnswersCredentials
  <1>2. CASE Next
    <2>1. conn' # conn
      BY <1>1
    <2>2. ASSUME NEW d \in Conns,
                 ConnStep(d) \/ Admit(d) \/ ServeGet(d) \/ ServeOther(d) \/ ServeRevoke(d)
                   \/ \E request \in Requests : Send(d, request)
          PROVE  lease > now
      <3>1. d = c
        BY <1>1, <2>2, ConnTyped
      <3>2. ServeGet(c)
        BY <2>2, <3>1
        DEF AnswersCredentials, ConnStep, Dial, Accept, Reject, ReadToken, Greet, EndRevoke,
            HangUp, Admit, ServeOther, ServeRevoke, Send
      <3> QED
        BY <1>0, <3>2 DEF ServeGet, AnswersCredentials
    <2>3. ~Renderer /\ ~MainThread /\ ~Tick
      BY <2>1 DEF Renderer, Unlock, SyncLease, Lock, AskRotation, MainThread, RunOpen, RunClose,
                  RunSync, RunClear, RunRotate, Tick
    <2>4. ASSUME NEW a \in Actors, Rotate(a) PROVE FALSE
      BY <2>1, <2>4 DEF Rotate, Bump, WriteFile, FailFile, Install
    <2> QED
      BY <1>2, <2>2, <2>3, <2>4, NextCases
  <1>3. CASE UNCHANGED vars
    BY <1>1, <1>3 DEF vars
  <1> QED
    BY <1>2, <1>3

(* Whatever commands are in flight when the native session is closed, no   *)
(* credentials are handed out once a lease has passed.                     *)
THEOREM LeaseBounded == Spec => LeaseEndsAfterLock
  <1>1. Init => LeaseInv
    BY BridgeAssumption DEF Init, LeaseInv, BridgeAssumption
  <1>2. TypeOK /\ LeaseInv /\ [Next]_vars => LeaseInv'
    BY LeaseStep, BridgeAssumption
  <1>3. TypeOK /\ LeaseInv /\ [Next]_vars
          => [\A c \in Conns : AnswersCredentials(c) => session \/ now < closedAt + Lease]_vars
    <2> SUFFICES ASSUME TypeOK, LeaseInv, [Next]_vars, NEW c \in Conns, AnswersCredentials(c),
                        ~session
                 PROVE  now < closedAt + Lease
      OBVIOUS
    <2>1. lease > now
      BY AnswerHasLease
    <2> QED
      BY <2>1, BridgeAssumption DEF LeaseInv, TypeOK, BridgeAssumption
  <1> QED
    BY <1>1, <1>2, <1>3, BridgeTyped, PTL DEF Spec, LeaseEndsAfterLock

-----------------------------------------------------------------------------
(* While no write has failed and no two have crossed, at most one actor is *)
(* writing; the token file holds what handshakes are checked against, or   *)
(* what the writer is about to install.  Only a connection that is         *)
(* revoking rotates, and the thread started at launch only writes.         *)
OneWriter == \A a, b \in Actors : Writing(a) /\ Writing(b) => a = b
FileInv ==
  /\ rot[Startup].pc \in {"idle", "write"}
  /\ \A c \in Conns : conn[c].pc # "revoking" => rot[c].pc = "idle"
  /\ ~torn => /\ OneWriter
              /\ (\A a \in Actors : ~Writing(a)) => file = token
              /\ \A a \in Actors : rot[a].pc = "install" => file = rot[a].tok
              /\ rot[Startup].pc = "write" => rot[Startup].tok = token

(* Steps that write nothing may at most let an idle actor begin. *)
LEMMA FileKept ==
  ASSUME BridgeAssumption, FileInv, UNCHANGED <<token, file, torn>>, rot \in [Actors -> Rotation],
         \/ rot' = rot
         \/ \E a \in Actors \ {Startup} :
              rot[a].pc = "idle" /\ rot' = [rot EXCEPT ![a].pc = "bump"],
         \A c \in Conns : conn'[c].pc # "revoking" => rot'[c].pc = "idle"
  PROVE  FileInv'
  <1>1. CASE rot' = rot
    BY <1>1 DEF FileInv, OneWriter, Writing
  <1>2. ASSUME NEW a \in Actors \ {Startup}, rot[a].pc = "idle",
               rot' = [rot EXCEPT ![a].pc = "bump"]
        PROVE  FileInv'
    <2>1. rot[a] \in Rotation
      BY <1>2
    <2>2. rot'[a].pc = "bump" /\ \A b \in Actors \ {a} : rot'[b] = rot[b]
      BY <1>2, <2>1
    <2>3. \A b \in Actors : Writing(b)' <=> Writing(b)
      BY <1>2, <2>2 DEF Writing
    <2>4. \A b \in Actors : rot'[b].pc \in {"write", "install"} => rot'[b] = rot[b]
      BY <2>2
    <2>5. rot'[Startup] = rot[Startup]
      BY <1>2, <2>2
    <2>6. OneWriter => OneWriter'
      BY <2>3 DEF OneWriter
    <2> HIDE DEF Actors, Rotation
    <2>7. \A b \in Actors : rot'[b].pc = "install" => rot[b].pc = "install" /\ rot'[b] = rot[b]
      BY <2>4
    <2> QED
      BY <2>3, <2>5, <2>6, <2>7 DEF FileInv
  <1> QED
    BY <1>1, <1>2

LEMMA FileRotate ==
  ASSUME BridgeAssumption, TypeOK, FileInv, NEW a \in Actors, Rotate(a)
  PROVE  FileInv'
  <1>0. rot \in [Actors -> Rotation] /\ rot[a] \in Rotation /\ Startup \in Actors
    BY DEF TypeOK
  <1>1. conn' = conn /\ \A b \in Actors \ {a} : rot'[b] = rot[b]
    BY <1>0 DEF Rotate, Bump, WriteFile, FailFile, Install
  <1>2. rot[a].pc # "idle"
    BY DEF Rotate, Bump, WriteFile, FailFile, Install
  <1>3. \A c \in Conns : conn'[c].pc # "revoking" => rot'[c].pc = "idle"
    <2> SUFFICES ASSUME NEW c \in Conns, conn'[c].pc # "revoking" PROVE rot'[c].pc = "idle"
      OBVIOUS
    <2>1. rot[c].pc = "idle"
      BY <1>1 DEF FileInv
    <2> QED
      BY <1>1, <1>2, <2>1
  <1>4. CASE Bump(a)
    <2>1. a # Startup /\ rot'[Startup] = rot[Startup]
      BY <1>0, <1>1, <1>4 DEF Bump, FileInv
    <2>2. rot'[a] = [pc |-> "write", tok |-> minted + 1]
      BY <1>0, <1>4 DEF Bump
    <2>3. ASSUME ~torn'
          PROVE  ~torn /\ \A b \in Actors \ {a} : ~Writing(b) /\ ~Writing(b)'
      BY <1>1, <1>4, <2>3 DEF Bump, Writing
    <2>4. ~torn' => OneWriter' /\ Writing(a)' /\ ~Writing(Startup)'
      BY <1>0, <2>1, <2>2, <2>3 DEF OneWriter, Writing
    <2>5. ~torn' => \A b \in Actors : rot'[b].pc # "install"
      BY <2>2, <2>3 DEF Writing
    <2> QED
      BY <1>0, <1>3, <2>1, <2>4, <2>5 DEF FileInv, Writing
  <1>5. CASE WriteFile(a)
    <2>1. rot[a].pc = "write" /\ file' = rot[a].tok /\ token' = token /\ torn' = torn
      BY <1>5 DEF WriteFile
    <2>2. CASE a = Startup
      <3>1. rot'[a] = Idle
        BY <1>0, <1>5, <2>2 DEF WriteFile
      <3>2. ~torn => \A b \in Actors : ~Writing(b)'
        BY <1>1, <2>1, <3>1 DEF FileInv, OneWriter, Writing
      <3>3. ~torn => file' = token'
        BY <2>1, <2>2 DEF FileInv
      <3> QED
        BY <1>0, <1>3, <2>1, <2>2, <3>1, <3>2, <3>3 DEF FileInv, OneWriter, Writing
    <2>3. CASE a # Startup
      <3>1. rot'[a] = [rot[a] EXCEPT !.pc = "install"]
        BY <1>0, <1>5, <2>3 DEF WriteFile
      <3>2. rot'[a].pc = "install" /\ rot'[a].tok = rot[a].tok /\ rot'[Startup] = rot[Startup]
        BY <1>0, <1>1, <2>3, <3>1
      <3>3. ~torn => \A b \in Actors \ {a} : ~Writing(b)'
        BY <1>1, <2>1 DEF FileInv, OneWriter, Writing
      <3>4. ~torn => OneWriter' /\ Writing(a)' /\ ~Writing(Startup)'
        BY <1>0, <2>3, <3>2, <3>3 DEF OneWriter, Writing
      <3>5. ~torn => \A b \in Actors : rot'[b].pc = "install" => file' = rot'[b].tok
        BY <2>1, <3>2, <3>3 DEF Writing
      <3> QED
        BY <1>0, <1>3, <2>1, <3>2, <3>4, <3>5 DEF FileInv, Writing
    <2> QED
      BY <2>2, <2>3
  <1>6. CASE FailFile(a)
    <2>1. torn' /\ rot'[a] = Idle
      BY <1>0, <1>6 DEF FailFile
    <2>2. rot'[Startup].pc \in {"idle", "write"}
      BY <1>0, <1>1, <2>1 DEF FileInv
    <2> QED
      BY <1>3, <2>1, <2>2 DEF FileInv
  <1>7. CASE Install(a)
    <2>1. /\ rot[a].pc = "install" /\ rot'[a] = Idle
          /\ token' = rot[a].tok /\ file' = file /\ torn' = torn
      BY <1>0, <1>7 DEF Install
    <2>2. a # Startup /\ rot'[Startup] = rot[Startup]
      BY <1>0, <1>1, <2>1 DEF FileInv
    <2>3. ~torn => \A b \in Actors : ~Writing(b)'
      BY <1>1, <2>1 DEF FileInv, OneWriter, Writing
    <2>4. ~torn => file' = token'
      BY <2>1 DEF FileInv
    <2> QED
      BY <1>0, <1>3, <2>1, <2>2, <2>3, <2>4 DEF FileInv, OneWriter, Writing
  <1> QED
    BY <1>4, <1>5, <1>6, <1>7 DEF Rotate

LEMMA FileStep == ASSUME BridgeAssumption, TypeOK, FileInv, [Next]_vars PROVE FileInv'
  <1>0. rot \in [Actors -> Rotation] /\ conn \in [Conns -> Conn]
    BY DEF TypeOK
  <1>1. CASE Next
    <2>1. CASE Renderer \/ Tick \/ RunOpen \/ RunClose \/ RunSync \/ RunClear
      <3>1. UNCHANGED <<token, file, torn, rot, conn>>
        BY <2>1 DEF Renderer, Unlock, SyncLease, Lock, AskRotation, Tick, RunOpen, RunClose,
                    RunSync, RunClear
      <3> QED
        BY <1>0, <3>1, FileKept DEF FileInv
    <2>2. CASE RunRotate
      <3>1. UNCHANGED <<token, file, torn, conn>> /\ rot[UI].pc = "idle"
        BY <2>2 DEF RunRotate, Runs
      <3>2. UI \in Actors \ {Startup} /\ UI \notin Conns
        BY DEF BridgeAssumption
      <3>3. rot' = rot \/ rot' = [rot EXCEPT ![UI].pc = "bump"]
        BY <2>2 DEF RunRotate
      <3>4. \A c \in Conns : rot'[c] = rot[c]
        BY <1>0, <3>2, <3>3
      <3> QED
        BY <1>0, <3>1, <3>2, <3>3, <3>4, FileKept DEF FileInv
    <2>3. ASSUME NEW a \in Actors, Rotate(a) PROVE FileInv'
      BY <2>3, FileRotate
    <2>4. ASSUME NEW c \in Conns,
                 ConnStep(c) \/ Admit(c) \/ ServeGet(c) \/ ServeOther(c)
                   \/ \E request \in Requests : Send(c, request)
          PROVE  FileInv'
      <3>1. UNCHANGED <<token, file, torn, rot>>
        BY <2>4 DEF ConnStep, Dial, Accept, Reject, ReadToken, Greet, EndRevoke, HangUp, Admit,
                    ServeGet, ServeOther, Send
      <3>2. \A d \in Conns \ {c} : conn'[d] = conn[d]
        BY <2>4, ConnTyped
      <3>3. conn[c].pc = "revoking" => rot[c].pc = "idle" \/ conn'[c].pc = "revoking"
        BY <1>0, <2>4
        DEF ConnStep, Dial, Accept, Reject, ReadToken, Greet, EndRevoke, HangUp, Admit,
            ServeGet, ServeOther, Send
      <3>4. \A d \in Conns : conn'[d].pc # "revoking" => rot'[d].pc = "idle"
        BY <3>1, <3>2, <3>3 DEF FileInv
      <3> QED
        BY <1>0, <3>1, <3>4, FileKept
    <2>5. ASSUME NEW c \in Conns, ServeRevoke(c) PROVE FileInv'
      <3>1. UNCHANGED <<token, file, torn>> /\ rot' = [rot EXCEPT ![c].pc = "bump"]
        BY <2>5 DEF ServeRevoke
      <3>2. \A d \in Conns \ {c} : conn'[d] = conn[d] /\ rot'[d] = rot[d]
        BY <1>0, <2>5, <3>1, ConnTyped
      <3>3. conn'[c].pc = "revoking" /\ rot[c].pc = "idle"
        BY <1>0, <2>5 DEF ServeRevoke, FileInv
      <3>4. \A d \in Conns : conn'[d].pc # "revoking" => rot'[d].pc = "idle"
        BY <3>2, <3>3 DEF FileInv
      <3>5. c \in Actors \ {Startup}
        BY DEF BridgeAssumption
      <3> QED
        BY <1>0, <3>1, <3>3, <3>4, <3>5, FileKept
    <2> QED
      BY <1>1, <2>1, <2>2, <2>3, <2>4, <2>5, NextCases DEF MainThread
  <1>2. CASE UNCHANGED vars
    BY <1>2 DEF FileInv, OneWriter, Writing, vars
  <1> QED
    BY <1>1, <1>2

(* The token file and the token in memory agree whenever nobody is writing *)
(* and no write has failed or crossed another.                             *)
THEOREM TokenFileAgrees == Spec => []FileMatchesToken
  <1>1. Init => FileInv
    <2> SUFFICES ASSUME Init PROVE FileInv
      OBVIOUS
    <2>1. rot = [a \in Actors |-> IF a = Startup THEN [pc |-> "write", tok |-> 2] ELSE Idle]
      BY DEF Init
    <2>2. \A a \in Actors : Writing(a) <=> a = Startup
      BY <2>1 DEF Writing
    <2>3. \A a \in Actors : rot[a].pc # "install"
      BY <2>1
    <2>4. rot[Startup] = [pc |-> "write", tok |-> 2] /\ Writing(Startup)
      BY <2>1, <2>2
    <2>5. \A c \in Conns : rot[c] = Idle
      BY <2>1, BridgeAssumption DEF BridgeAssumption
    <2>6. token = 2
      BY DEF Init
    <2> QED
      BY <2>2, <2>3, <2>4, <2>5, <2>6 DEF FileInv, OneWriter
  <1>2. TypeOK /\ FileInv /\ [Next]_vars => FileInv'
    BY FileStep, BridgeAssumption
  <1>3. FileInv => FileMatchesToken
    BY DEF FileInv, FileMatchesToken, Writing
  <1> QED
    BY <1>1, <1>2, <1>3, BridgeTyped, PTL DEF Spec
===============================================================================
