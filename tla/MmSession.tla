---------------------------- MODULE MmSession ----------------------------
(***************************************************************************)
(* The SSH session every front end of the program shares: MmSession of     *)
(* session.py, with the connect step of connection.py behind it.           *)
(*                                                                         *)
(* Threads call run_command (for a query or for a delete command) and      *)
(* disconnect.  A call holds the session's re-entrant lock from its first  *)
(* to its last step, so its steps interleave with the device and with      *)
(* threads waiting for the lock, never with another call.                  *)
(*                                                                         *)
(* The device is external.  It keeps a user table; users join and leave it *)
(* at any time.  Every exchange with it may fail, and a failed delete      *)
(* command may have been executed all the same.                            *)
(***************************************************************************)
EXTENDS Integers

CONSTANTS
    Threads,    \* threads of the process that share the session object
    NoThread,   \* "the lock is free"
    Configs,    \* connection configurations (host, port, login) in use
    NoConfig,   \* "no configuration is connected"
    Macs,       \* MAC addresses that may be in the device's user table
    NoMac       \* the MAC of a call that concerns none

ASSUME SessionConstants ==
    /\ NoThread \notin Threads
    /\ NoConfig \notin Configs
    /\ NoMac \notin Macs

VARIABLES
    lock,        \* holder of MmSession._lock, or NoThread
    connection,  \* MmSession._connection: "none", or the gates it has passed
    config,      \* MmSession._config
    live,        \* connections opened to the device and not yet closed
    call,        \* call[t]: the session call thread t is making
    table        \* the users the device lists (external)

sessionVars == <<lock, connection, config, live, call, table>>

----------------------------------------------------------------------------
(* Calls *)

Ops == {"query", "delete", "close"}

(* What a call gives back.  "raised": it raised.  A query gives "rows", or  *)
(* "paged" when its text still holds a pager prompt.  A delete command      *)
(* gives the class classify_delete_response assigns to the device's text.   *)
Replies == {"none", "rows", "paged", "deleted", "failed", "unknown",
            "raised", "closed"}

(* Where in its code a call is.  From "closing" on it holds the lock. *)
HeldPcs == {"closing", "ensure", "paging", "identity", "send"}
Pcs     == {"idle", "enter", "return"} \union HeldPcs

Calls == [pc    : Pcs,
          op    : Ops,
          mac   : Macs \union {NoMac},
          cfg   : Configs \union {NoConfig},
          sends : Nat,      \* times the command was transmitted
          reply : Replies,
          rows  : SUBSET Macs]

IdleCall == [pc |-> "idle", op |-> "close", mac |-> NoMac, cfg |-> NoConfig,
             sends |-> 0, reply |-> "none", rows |-> {}]

(* Thread t starts a call; the session itself does not move. *)
Invoke(t, op, mac, cfg) ==
    /\ call[t].pc = "idle"
    /\ call' = [call EXCEPT ![t] = [IdleCall EXCEPT !.pc = "enter", !.op = op,
                                                    !.mac = mac, !.cfg = cfg]]
    /\ UNCHANGED <<lock, connection, config, live, table>>

(* Thread t takes the result of its call. *)
Consume(t) ==
    /\ call[t].pc = "return"
    /\ call' = [call EXCEPT ![t] = IdleCall]
    /\ UNCHANGED <<lock, connection, config, live, table>>

----------------------------------------------------------------------------
(* Steps of a call *)

Goto(t, pc) == call' = [call EXCEPT ![t].pc = pc]

Return(t, outcome) ==
    /\ lock' = NoThread
    /\ call' = [call EXCEPT ![t].pc = "return", ![t].reply = outcome]

(* Mutant of Disconnect: the closed connection object stays behind. *)
BuggyDisconnect ==
    /\ connection' = "closed"
    /\ config' = NoConfig
    /\ live' = IF connection = "none" THEN live ELSE live - 1

(* disconnect: forget connection and configuration, then close; an error of *)
(* the close itself is swallowed.                                           *)
Disconnect ==
    /\ connection' = "none"
    /\ config' = NoConfig
    /\ live' = IF connection = "none" THEN live ELSE live - 1

Acquire(t) ==
    /\ call[t].pc = "enter"
    /\ lock = NoThread
    /\ lock' = t
    /\ Goto(t, IF call[t].op = "close" THEN "closing" ELSE "ensure")
    /\ UNCHANGED <<connection, config, live, table>>

Close(t) ==
    /\ call[t].pc = "closing"
    /\ Disconnect
    /\ Return(t, "closed")
    /\ UNCHANGED table

(* Mutant of Reuse: any connection will do. *)
BuggyReuse(t) ==
    /\ call[t].pc = "ensure"
    /\ connection # "none"
    /\ Goto(t, "send")
    /\ UNCHANGED <<lock, connection, config, live, table>>

(* _ensure_connected, first branch: the same configuration is connected. *)
Reuse(t) ==
    /\ call[t].pc = "ensure"
    /\ connection # "none"
    /\ config = call[t].cfg
    /\ Goto(t, "send")
    /\ UNCHANGED <<lock, connection, config, live, table>>

(* Mutant of DropChanged: the old connection is forgotten, not closed. *)
BuggyDropChanged(t) ==
    /\ call[t].pc = "ensure"
    /\ connection # "none"
    /\ config # call[t].cfg
    /\ connection' = "none"
    /\ config' = NoConfig
    /\ UNCHANGED <<lock, live, call, table>>

(* ... a different configuration is connected: drop that connection. *)
DropChanged(t) ==
    /\ call[t].pc = "ensure"
    /\ connection # "none"
    /\ config # call[t].cfg
    /\ Disconnect
    /\ UNCHANGED <<lock, call, table>>

(* ... nothing is connected: connect.  The connection is installed before  *)
(* its gates have passed.                                                  *)
Connect(t) ==
    /\ call[t].pc = "ensure"
    /\ connection = "none"
    /\ connection' = "raw"
    /\ config' = call[t].cfg
    /\ live' = live + 1
    /\ Goto(t, "paging")
    /\ UNCHANGED <<lock, table>>

(* connect_to_mm raises (validation, host key, login, enable), or gives an *)
(* object that is no connection: run_command raises, without a retry.      *)
ConnectFails(t) ==
    /\ call[t].pc = "ensure"
    /\ connection = "none"
    /\ Return(t, "raised")
    /\ UNCHANGED <<connection, config, live, table>>

DisablePaging(t) ==
    /\ call[t].pc = "paging"
    /\ connection' = "unpaged"
    /\ Goto(t, "identity")
    /\ UNCHANGED <<lock, config, live, table>>

VerifyIdentity(t) ==
    /\ call[t].pc = "identity"
    /\ connection' = "verified"
    /\ Goto(t, "send")
    /\ UNCHANGED <<lock, config, live, table>>

(* Mutant of GateFails: the connection stays installed. *)
BuggyGateFails(t) ==
    /\ call[t].pc \in {"paging", "identity"}
    /\ Return(t, "raised")
    /\ UNCHANGED <<connection, config, live, table>>

(* A gate's command failed or was rejected, or the device is no MM. *)
GateFails(t) ==
    /\ call[t].pc \in {"paging", "identity"}
    /\ Disconnect
    /\ Return(t, "raised")
    /\ UNCHANGED table

(* The external device executes, or does not, the command of t. *)
DeviceExecutes(t, done) ==
    /\ done => call[t].op = "delete" /\ call[t].mac \in table
    /\ table' = IF done THEN table \ {call[t].mac} ELSE table

(* The device answers a query with its table, with an error text in which   *)
(* the parser finds no row, or with output cut by a pager.                  *)
AnswerQuery(t) ==
    /\ call[t].pc = "send"
    /\ call[t].op = "query"
    /\ \E answer \in {<<"rows", table>>, <<"rows", {}>>, <<"paged", {}>>} :
          call' = [call EXCEPT ![t].pc = "return", ![t].reply = answer[1],
                               ![t].rows = answer[2], ![t].sends = @ + 1]
    /\ lock' = NoThread
    /\ UNCHANGED <<connection, config, live, table>>

(* The device answers a delete command.  It says "deleted" only when it    *)
(* removed the user and "failed" only when it did not.                     *)
AnswerDelete(t) ==
    /\ call[t].pc = "send"
    /\ call[t].op = "delete"
    /\ \E done \in BOOLEAN, reply \in {"deleted", "failed", "unknown"} :
          /\ reply = "deleted" => done
          /\ reply = "failed" => ~done
          /\ DeviceExecutes(t, done)
          /\ call' = [call EXCEPT ![t].pc = "return", ![t].reply = reply,
                                  ![t].sends = @ + 1]
    /\ lock' = NoThread
    /\ UNCHANGED <<connection, config, live>>

(* Mutant of RetryOnce: delete commands are retried too. *)
BuggyRetryOnce(op) == TRUE

(* retry_once: true at the call site of a query, false at that of a delete. *)
RetryOnce(op) == op = "query"

(* Mutant of SendFails: reconnect and send again without a limit. *)
BuggySendFails(t) ==
    /\ call[t].pc = "send"
    /\ \E done \in BOOLEAN : DeviceExecutes(t, done)
    /\ Disconnect
    /\ call' = [call EXCEPT ![t].pc = "ensure", ![t].sends = 1]
    /\ UNCHANGED lock

(* Sending raised: the command was lost, or only its answer was.  The      *)
(* connection is dropped either way; a first failed query is sent again on *)
(* a new connection.                                                       *)
SendFails(t) ==
    /\ call[t].pc = "send"
    /\ \E done \in BOOLEAN : DeviceExecutes(t, done)
    /\ Disconnect
    /\ IF RetryOnce(call[t].op) /\ call[t].sends = 0
       THEN /\ call' = [call EXCEPT ![t].pc = "ensure", ![t].sends = 1]
            /\ UNCHANGED lock
       ELSE /\ call' = [call EXCEPT ![t].pc = "return", ![t].reply = "raised",
                                    ![t].sends = @ + 1]
            /\ lock' = NoThread

(* One step of the call thread t is making. *)
SessionStep(t) ==
    \/ Acquire(t)
    \/ Close(t)
    \/ Reuse(t)
    \/ DropChanged(t)
    \/ Connect(t)
    \/ ConnectFails(t)
    \/ DisablePaging(t)
    \/ VerifyIdentity(t)
    \/ GateFails(t)
    \/ AnswerQuery(t)
    \/ AnswerDelete(t)
    \/ SendFails(t)

(* Users join and leave the device's table (external). *)
UserJoins(m) ==
    /\ m \notin table
    /\ table' = table \union {m}
    /\ UNCHANGED <<lock, connection, config, live, call>>

UserLeaves(m) ==
    /\ m \in table
    /\ table' = table \ {m}
    /\ UNCHANGED <<lock, connection, config, live, call>>

Churn == \E m \in Macs : UserJoins(m) \/ UserLeaves(m)

----------------------------------------------------------------------------
(* The session on its own: threads make whatever calls they like. *)

SessionInit ==
    /\ lock = NoThread
    /\ connection = "none"
    /\ config = NoConfig
    /\ live = 0
    /\ call = [t \in Threads |-> IdleCall]
    /\ table \in SUBSET Macs

Client(t) ==
    \/ \E c \in Configs :
          \/ Invoke(t, "query", NoMac, c)
          \/ \E m \in Macs : Invoke(t, "delete", m, c)
    \/ Invoke(t, "close", NoMac, NoConfig)
    \/ Consume(t)

SessionNext ==
    \/ \E t \in Threads : Client(t) \/ SessionStep(t)
    \/ Churn

(* A call that has begun runs on: its commands have read timeouts. *)
SessionFairness == \A t \in Threads : WF_sessionVars(SessionStep(t))

SessionSpec == SessionInit /\ [][SessionNext]_sessionVars /\ SessionFairness

----------------------------------------------------------------------------
(* Properties *)

(* Types of the session's state. *)
SessionTypeOK ==
    /\ lock \in Threads \union {NoThread}
    /\ connection \in {"none", "raw", "unpaged", "verified"}
    /\ config \in Configs \union {NoConfig}
    /\ live \in Int
    /\ call \in [Threads -> Calls]
    /\ table \in SUBSET Macs

(* Exactly the thread that holds the lock is inside a call, so no two       *)
(* threads' commands interleave on the connection.                          *)
LockCoversCall ==
    \A t \in Threads : call[t].pc \in HeldPcs <=> lock = t

(* No SSH connection is ever leaked or forgotten: one is open exactly when  *)
(* the session holds it, over failed gates, reconnects, changes of          *)
(* configuration and closes from other threads.                             *)
ConnectionAccounted ==
    /\ live = IF connection = "none" THEN 0 ELSE 1
    /\ connection = "none" <=> config = NoConfig

(* Between calls the session never offers a connection whose paging and     *)
(* identity gates have not both passed: a later call would reuse it.        *)
OnlyVerifiedIsKept == lock = NoThread => connection \in {"none", "verified"}

(* A delete command is transmitted at most once per call and a query at     *)
(* most twice, whatever is lost and however the connection is replaced.     *)
SendsBounded ==
    \A t \in Threads :
        call[t].sends <= (CASE call[t].op = "query"  -> 2
                            [] call[t].op = "delete" -> 1
                            [] OTHER                 -> 0)

(* Every query and every delete command goes out on a connection that       *)
(* passed both gates and was made for the caller's own configuration, also  *)
(* after a reconnect in the middle of a batch.                              *)
CommandsGated ==
    [][\A t \in Threads :
          call'[t].sends > call[t].sends
              => connection = "verified" /\ config = call[t].cfg]_sessionVars

(* Whoever takes the session lock gives it back: no failure path leaves it  *)
(* held, which would block every later query, delete and close.             *)
LockReleased ==
    \A t \in Threads : lock = t ~> lock # t
============================================================================
