--------------------------- MODULE CredentialBridge ---------------------------
(***************************************************************************)
(* The loopback bridge through which the browser extension asks the        *)
(* desktop application for credentials (src-tauri/src/native_messaging.rs, *)
(* the bridge commands of src-tauri/src/lib.rs, and their callers          *)
(* useExtensionCredentialSync.ts and useVaultLock.ts).                     *)
(*                                                                         *)
(* Actors: the renderer, which locks, unlocks and refreshes the lease by   *)
(* invoking native commands; the main thread, which runs the commands in   *)
(* the order they were invoked; one thread per connection (handle_client); *)
(* and one native host per connection, which reads the pairing token from  *)
(* a file before it dials.                                                 *)
(*                                                                         *)
(* A token is a number; 0 stands for an empty or absent token file, which  *)
(* no handshake accepts.  A lease is its expiry time, 0 when there is      *)
(* none; which credentials it holds is left out.  A frame is a request,    *)
(* the AEAD layer is the key it was sent under.                            *)
(***************************************************************************)
EXTENDS Naturals, Sequences, FiniteSets

CONSTANTS
  Conns,        \* connections
  UI, Startup,  \* the two rotating actors that are not connections
  Lease,        \* EXTENSION_CREDENTIAL_LEASE_MS, in ticks
  Capacity,     \* MAX_CONCURRENT_IPC_CONNECTIONS
  MaxTime,      \* bound: the clock stops here
  MaxRotations, \* bound: rotations and revocations asked for
  MaxPending,   \* bound: commands the renderer has in flight before it locks
  MayFail       \* may the token file be impossible to write?

ASSUME BridgeAssumption ==
  /\ UI \notin Conns /\ Startup \notin Conns /\ UI # Startup
  /\ Lease \in Nat \ {0}
  /\ Capacity \in Nat \ {0}
  /\ MaxTime \in Nat /\ MaxRotations \in Nat /\ MaxPending \in Nat
  /\ MayFail \in BOOLEAN

Actors == Conns \cup {UI, Startup}

VARIABLES
  unlocked,  \* the renderer holds a session
  ipc,       \* the commands the renderer has invoked and that have not run
  session,   \* CredentialSession: the native side holds a session
  token,     \* ExtensionState.pairing_token
  file,      \* the token file
  gen,       \* RevokeGeneration
  lease,     \* ExtensionState.credentials: when it expires, 0 for None
  conn,      \* conn[c]: the connection and its handler thread
  rot,       \* rot[a]: where actor a is in writing or rotating the token
  now,       \* the clock
  asked,     \* how many rotations have been asked for
  minted,    \* the last token that was generated
  closedAt,  \* history: when the native session was last closed
  torn       \* history: a write of the file failed, or two overlapped

rendererVars == <<unlocked, ipc>>
pairing == <<token, file, gen, rot, minted, torn>>
history == <<closedAt, asked>>
vars == <<unlocked, ipc, session, token, file, gen, lease, conn, rot, now, asked,
          minted, closedAt, torn>>

Commands == {"open", "close", "sync", "clear", "rotate"}
Requests == {"get", "revoke", "other"}

(* key is the token the host presents, gen and tok what the handler has    *)
(* snapshotted, late whether the generation had moved on when the pending  *)
(* request was sent.                                                       *)
Conn == [pc : {"off", "dialing", "stamped", "greeting", "reading", "serving",
               "revoking"},
         key : Nat, gen : Nat, tok : Nat, req : Requests \cup {"none"}, late : BOOLEAN]

Off == [pc |-> "off", key |-> 0, gen |-> 0, tok |-> 0, req |-> "none", late |-> FALSE]

Rotation == [pc : {"idle", "bump", "write", "install"}, tok : Nat]
Idle == [pc |-> "idle", tok |-> 0]

(* The handlers that hold a slot of the ConnectionGate. *)
Slots == {c \in Conns : conn[c].pc \notin {"off", "dialing"}}

(* The token file may still hold the token of the previous process; the    *)
(* thread that writes the initial token is running.                        *)
Init ==
  /\ unlocked = FALSE /\ ipc = <<>> /\ session = FALSE
  /\ token = 2 /\ minted = 2 /\ file \in {0, 1} /\ gen = 0
  /\ lease = 0
  /\ conn = [c \in Conns |-> Off]
  /\ rot = [a \in Actors |-> IF a = Startup THEN [pc |-> "write", tok |-> 2] ELSE Idle]
  /\ now = 1 /\ asked = 0 /\ closedAt = 0 /\ torn = FALSE

-----------------------------------------------------------------------------
(* The renderer. *)

(* verifyMasterPassword awaits open_rust_session. *)
Unlock ==
  /\ ~unlocked
  /\ "open" \notin {ipc[k] : k \in 1..Len(ipc)}
  /\ ipc' = Append(ipc, "open")
  /\ UNCHANGED <<unlocked, session, lease, conn, now, pairing, history>>

(* The effect of useExtensionCredentialSync: at once, every minute and    *)
(* whenever the items change.                                             *)
SyncLease ==
  /\ unlocked /\ Len(ipc) < MaxPending
  /\ ipc' = Append(ipc, "sync")
  /\ UNCHANGED <<unlocked, session, lease, conn, now, pairing, history>>

(* Mutant of Lock: a command that is not registered. *)
LockUnregistered ==
  /\ unlocked
  /\ unlocked' = FALSE
  /\ ipc' = ipc \o <<"close", "wipe">>
  /\ UNCHANGED <<session, lease, conn, now, pairing, history>>

(* lock: the session is closed first, then the lease is cleared. *)
Lock ==
  /\ unlocked
  /\ unlocked' = FALSE
  /\ ipc' = ipc \o <<"close", "clear">>
  /\ UNCHANGED <<session, lease, conn, now, pairing, history>>

AskRotation ==
  /\ unlocked /\ Len(ipc) < MaxPending /\ asked < MaxRotations
  /\ ipc' = Append(ipc, "rotate")
  /\ asked' = asked + 1
  /\ UNCHANGED <<unlocked, session, lease, conn, now, pairing, closedAt>>

-----------------------------------------------------------------------------
(* The main thread runs the oldest command; rotate_pairing_token occupies *)
(* it until the rotation is over.                                         *)
Runs(command) ==
  /\ ipc # <<>> /\ Head(ipc) = command
  /\ rot[UI].pc = "idle"
  /\ ipc' = Tail(ipc)

(* open_rust_session, with the right password or a wrong one. *)
RunOpen ==
  /\ Runs("open")
  /\ \/ session' = TRUE /\ unlocked' = TRUE
     \/ UNCHANGED <<session, unlocked>>
  /\ UNCHANGED <<lease, conn, now, pairing, history>>

RunClose ==
  /\ Runs("close")
  /\ session' = FALSE
  /\ closedAt' = IF session THEN now ELSE closedAt
  /\ UNCHANGED <<unlocked, lease, conn, now, pairing, asked>>

(* sync_extension_credentials: refused without a session. *)
RunSync ==
  /\ Runs("sync")
  /\ lease' = IF session THEN now + Lease ELSE lease
  /\ UNCHANGED <<unlocked, session, conn, now, pairing, history>>

(* clear_extension_credentials: refused without a session. *)
RunClear ==
  /\ Runs("clear")
  /\ lease' = IF session THEN 0 ELSE lease
  /\ UNCHANGED <<unlocked, session, conn, now, pairing, history>>

(* rotate_pairing_token: refused without a session. *)
RunRotate ==
  /\ Runs("rotate")
  /\ rot' = IF session THEN [rot EXCEPT ![UI].pc = "bump"] ELSE rot
  /\ UNCHANGED <<unlocked, session, lease, conn, now, token, file, gen, minted, torn, history>>

-----------------------------------------------------------------------------
(* rotate_pairing_token_now and write_pairing_token_file, by any actor; the *)
(* thread started at launch only writes the file.                           *)
Writing(a) == rot[a].pc \in {"write", "install"}

Bump(a) ==
  /\ rot[a].pc = "bump"
  /\ gen' = gen + 1
  /\ minted' = minted + 1
  /\ rot' = [rot EXCEPT ![a] = [pc |-> "write", tok |-> minted + 1]]
  /\ torn' = (torn \/ \E b \in Actors \ {a} : Writing(b))
  /\ UNCHANGED <<unlocked, ipc, session, token, file, lease, conn, now, history>>

WriteFile(a) ==
  /\ rot[a].pc = "write"
  /\ file' = rot[a].tok
  /\ rot' = [rot EXCEPT ![a] = IF a = Startup THEN Idle ELSE [@ EXCEPT !.pc = "install"]]
  /\ UNCHANGED <<unlocked, ipc, session, token, gen, minted, torn, lease, conn, now, history>>

(* The file cannot be opened, or it is truncated or removed and not        *)
(* written: the error is returned before the new token is installed.       *)
FailFile(a) ==
  /\ MayFail
  /\ rot[a].pc = "write"
  /\ file' \in {file, 0}
  /\ rot' = [rot EXCEPT ![a] = Idle]
  /\ torn' = TRUE
  /\ UNCHANGED <<unlocked, ipc, session, token, gen, minted, lease, conn, now, history>>

(* Mutant of Install: the application keeps the token it had. *)
InstallNothing(a) ==
  /\ rot[a].pc = "install"
  /\ rot' = [rot EXCEPT ![a] = Idle]
  /\ UNCHANGED <<unlocked, ipc, session, token, file, gen, minted, torn, lease, conn, now, history>>

Install(a) ==
  /\ rot[a].pc = "install"
  /\ token' = rot[a].tok
  /\ rot' = [rot EXCEPT ![a] = Idle]
  /\ UNCHANGED <<unlocked, ipc, session, file, gen, minted, torn, lease, conn, now, history>>

-----------------------------------------------------------------------------
(* run_host reads the token file, then dials. *)
Dial(c) ==
  /\ conn[c].pc = "off"
  /\ conn' = [conn EXCEPT ![c] = [Off EXCEPT !.pc = "dialing", !.key = file]]
  /\ UNCHANGED <<unlocked, ipc, session, lease, now, pairing, history>>

(* The accept loop: a connection is served only when a slot is free.       *)
(* handle_client then snapshots the generation and, in a step of its own,  *)
(* the token.                                                              *)
Accept(c) ==
  /\ conn[c].pc = "dialing"
  /\ Cardinality(Slots) < Capacity
  /\ conn' = [conn EXCEPT ![c].pc = "stamped", ![c].gen = gen]
  /\ UNCHANGED <<unlocked, ipc, session, lease, now, pairing, history>>

(* SERVER_BUSY, or RATE_LIMIT_EXCEEDED, which may come at any time. *)
Reject(c) ==
  /\ conn[c].pc = "dialing"
  /\ conn' = [conn EXCEPT ![c] = Off]
  /\ UNCHANGED <<unlocked, ipc, session, lease, now, pairing, history>>

ReadToken(c) ==
  /\ conn[c].pc = "stamped"
  /\ conn' = [conn EXCEPT ![c].pc = "greeting", ![c].tok = token]
  /\ UNCHANGED <<unlocked, ipc, session, lease, now, pairing, history>>

(* The host presents its token: OK, or UNAUTHORIZED and the end. *)
Greet(c) ==
  /\ conn[c].pc = "greeting"
  /\ conn' = [conn EXCEPT ![c] = IF @.key = @.tok THEN [@ EXCEPT !.pc = "reading"] ELSE Off]
  /\ UNCHANGED <<unlocked, ipc, session, lease, now, pairing, history>>

(* The host forwards one request and waits for its answer. *)
Send(c, request) ==
  /\ conn[c].pc = "reading" /\ conn[c].req = "none"
  /\ request = "revoke" => asked < MaxRotations
  /\ asked' = IF request = "revoke" THEN asked + 1 ELSE asked
  /\ conn' = [conn EXCEPT ![c].req = request, ![c].late = (gen # conn[c].gen)]
  /\ UNCHANGED <<unlocked, ipc, session, lease, now, pairing, closedAt>>

(* Mutant of Admit: the generation is not compared after the read. *)
AdmitUnchecked(c) ==
  /\ conn[c].pc = "reading" /\ conn[c].req # "none"
  /\ conn' = [conn EXCEPT ![c].pc = "serving"]
  /\ UNCHANGED <<unlocked, ipc, session, lease, now, pairing, history>>

(* Mutant of Admit: a revoked handler waits instead of returning. *)
AdmitParks(c) ==
  /\ conn[c].pc = "reading" /\ conn[c].req # "none" /\ conn[c].gen = gen
  /\ conn' = [conn EXCEPT ![c].pc = "serving"]
  /\ UNCHANGED <<unlocked, ipc, session, lease, now, pairing, history>>

(* read_authenticated_frame: the generation is compared after the read. *)
Admit(c) ==
  /\ conn[c].pc = "reading" /\ conn[c].req # "none"
  /\ conn' = [conn EXCEPT ![c] = IF @.gen = gen THEN [@ EXCEPT !.pc = "serving"] ELSE Off]
  /\ UNCHANGED <<unlocked, ipc, session, lease, now, pairing, history>>

(* The answer is written and the next request awaited, or it cannot be     *)
(* written and the thread ends.                                            *)
Answer(c) ==
  \/ conn' = [conn EXCEPT ![c].pc = "reading", ![c].req = "none", ![c].late = FALSE]
  \/ conn' = [conn EXCEPT ![c] = Off]

(* Mutant of ServeGet: the expiry of the lease is not looked at. *)
ServeGetStale(c) ==
  /\ conn[c].pc = "serving" /\ conn[c].req = "get"
  /\ Answer(c)
  /\ UNCHANGED <<unlocked, ipc, session, lease, now, pairing, history>>

(* get_credentials, list_credentials and is_locked: an expired lease is    *)
(* dropped under the lock that reads it, and what is left is the answer:   *)
(* credentials when there is a lease, "locked" when there is none.         *)
ServeGet(c) ==
  /\ conn[c].pc = "serving" /\ conn[c].req = "get"
  /\ lease' = IF lease <= now THEN 0 ELSE lease
  /\ Answer(c)
  /\ UNCHANGED <<unlocked, ipc, session, now, pairing, history>>

(* ping, focus_window, add_credential. *)
ServeOther(c) ==
  /\ conn[c].pc = "serving" /\ conn[c].req = "other"
  /\ Answer(c)
  /\ UNCHANGED <<unlocked, ipc, session, lease, now, pairing, history>>

(* revoke: revoke_all_sessions empties the lease, then rotates. *)
ServeRevoke(c) ==
  /\ conn[c].pc = "serving" /\ conn[c].req = "revoke"
  /\ lease' = 0
  /\ conn' = [conn EXCEPT ![c].pc = "revoking"]
  /\ rot' = [rot EXCEPT ![c].pc = "bump"]
  /\ UNCHANGED <<unlocked, ipc, session, now, token, file, gen, minted, torn, history>>

(* "revoked" is answered and the connection closed, failed write or not. *)
EndRevoke(c) ==
  /\ conn[c].pc = "revoking" /\ rot[c].pc = "idle"
  /\ conn' = [conn EXCEPT ![c] = Off]
  /\ UNCHANGED <<unlocked, ipc, session, lease, now, pairing, history>>

(* Mutant of HangUp: no deadline before the handshake. *)
HangUpLater(c) ==
  /\ conn[c].pc = "reading"
  /\ conn' = [conn EXCEPT ![c] = Off]
  /\ UNCHANGED <<unlocked, ipc, session, lease, now, pairing, history>>

(* The host hangs up, a frame does not decrypt, or the read times out. *)
HangUp(c) ==
  /\ conn[c].pc \in {"greeting", "reading"}
  /\ conn' = [conn EXCEPT ![c] = Off]
  /\ UNCHANGED <<unlocked, ipc, session, lease, now, pairing, history>>

Tick ==
  /\ now < MaxTime
  /\ now' = now + 1
  /\ UNCHANGED <<unlocked, ipc, session, lease, conn, pairing, history>>

-----------------------------------------------------------------------------
Renderer == Unlock \/ SyncLease \/ Lock \/ AskRotation
MainThread == RunOpen \/ RunClose \/ RunSync \/ RunClear \/ RunRotate
Rotate(a) == Bump(a) \/ WriteFile(a) \/ FailFile(a) \/ Install(a)
Handler(c) ==
  ReadToken(c) \/ Admit(c) \/ ServeGet(c) \/ ServeOther(c) \/ ServeRevoke(c) \/ EndRevoke(c)
Host(c) == Dial(c) \/ Greet(c) \/ \E request \in Requests : Send(c, request)

Next ==
  \/ Renderer
  \/ MainThread
  \/ \E a \in Actors : Rotate(a)
  \/ \E c \in Conns : Host(c) \/ Accept(c) \/ Reject(c) \/ Handler(c) \/ HangUp(c)
  \/ Tick

Spec == Init /\ [][Next]_vars

(* Threads run; a read that waits for nothing times out (IPC_READ_TIMEOUT). *)
(* The renderer and the hosts owe nothing.                                  *)
FairSpec ==
  /\ Spec
  /\ WF_vars(MainThread)
  /\ \A a \in Actors : WF_vars(Rotate(a))
  /\ \A c \in Conns :
       /\ WF_vars(Handler(c))
       /\ WF_vars(conn[c].req = "none" /\ HangUp(c))

-----------------------------------------------------------------------------
(* Properties. *)

TypeOK ==
  /\ unlocked \in BOOLEAN /\ session \in BOOLEAN /\ torn \in BOOLEAN
  /\ ipc \in Seq(Commands)
  /\ token \in Nat /\ file \in Nat /\ gen \in Nat /\ lease \in Nat /\ minted \in Nat
  /\ conn \in [Conns -> Conn]
  /\ rot \in [Actors -> Rotation]
  /\ now \in Nat /\ asked \in Nat /\ closedAt \in Nat

(* A request that a host sends after its session was revoked is never      *)
(* dispatched, however long the handler was parked in its read             *)
(* (native_messaging.rs:125-142).                                          *)
LateRequestsRefused == \A c \in Conns : conn[c].pc = "serving" => ~conn[c].late

(* Once the native session is closed, credentials are handed out for no    *)
(* longer than one lease, whatever commands were in flight when the vault  *)
(* was locked (lib.rs:488-511, credential_lease_expires_at).               *)
AnswersCredentials(c) ==
  /\ conn[c].pc = "serving" /\ conn[c].req = "get" /\ conn'[c].pc # "serving"
  /\ lease' # 0
LeaseEndsAfterLock ==
  [][\A c \in Conns : AnswersCredentials(c) => session \/ now < closedAt + Lease]_vars

(* When nobody is writing, no write failed and no two rotations crossed,   *)
(* the file from which hosts read the token holds the token that           *)
(* handshakes are checked against.                                         *)
FileMatchesToken ==
  (~torn /\ \A a \in Actors : rot[a].pc = "idle") => file = token

(* A revocation reaches the connections that are already open: one that    *)
(* was admitted under an earlier generation and sends another request is   *)
(* torn down, not left parked (native_messaging.rs:479-482).               *)
RevokedSessionsEnd ==
  \A c \in Conns :
    (conn[c].pc = "reading" /\ conn[c].req # "none" /\ conn[c].gen # gen)
      ~> conn[c].pc = "off"

(* A slot of the connection gate comes back unless its host keeps sending: *)
(* a connection is off again and again, or a new request of its host is    *)
(* read again and again; neither a silent host nor a revocation whose file *)
(* could not be written keeps the slot (Y-18).                             *)
SlotsComeBack ==
  \A c \in Conns :
    \/ []<>(conn[c].pc \in {"off", "dialing"})
    \/ []<>(conn[c].pc = "reading" /\ conn[c].req # "none")
===============================================================================
