--------------------------- MODULE TelegramDelivery ---------------------------
(***************************************************************************)
(* Telegram as a destination of dao_notifications: which chat a treasury   *)
(* is connected to (nt-be/src/handlers/telegram/{connect,webhook}.rs), and *)
(* the dispatcher that sends every undelivered notification to it          *)
(* (notifications/telegram_dispatcher.rs).                                 *)
(*                                                                         *)
(* A notification's id is its position in the queue, and a time is how     *)
(* many notifications had been created by then.                            *)
(***************************************************************************)
EXTENDS Integers, Sequences, FiniteSets, FiniteSetsExt

CONSTANTS
    Daos,       \* treasuries
    Chats,      \* Telegram chats
    NoChat,     \* the treasury is not connected
    ConnectTokens, \* connect tokens
    TokenChat,  \* the chat a token was issued for
    Calls,      \* requests to connect treasuries
    Connected,  \* which chat each treasury is connected to at the start
    Losable,    \* chats the bot may lose the right to post in, or be put out of
    BatchSize,  \* BATCH_SIZE
    MaxNotices, \* bound: notifications
    MaxFaults,  \* bound: failing calls
    MaxRestarts \* bound: restarts

ASSUME TokenChatAssumption == TokenChat \in [ConnectTokens -> Chats]
ASSUME ConnectedAssumption ==
    NoChat \notin Chats /\ Connected \in [Daos -> Chats \cup {NoChat}]
ASSUME ChatsAreFinite == IsFiniteSet(Chats)
ASSUME DeliveryBounds ==
    /\ BatchSize \in Nat \ {0} /\ MaxNotices \in Nat
    /\ MaxFaults \in Nat /\ MaxRestarts \in Nat

VARIABLES
    chats,     \* telegram_chats
    conns,     \* telegram_treasury_connections: chat and connected_at
    tokens,    \* telegram_connect_tokens
    used,      \* the tokens with used_at
    calls,     \* the connect requests
    leaving,   \* chats a disconnect request is about to leave
    reachable, \* Telegram: chats the bot can post in
    removed,   \* Telegram: updates saying that the bot is out of a chat
    notices,   \* dao_notifications, and the chats connected at that time
    delivered, \* dao_notification_deliveries
    sent,      \* Telegram: messages a chat has had of a notification
    pc,        \* where the dispatch cycle is
    batch,     \* notifications and chats selected and not yet handled
    faults,    \* failing calls so far
    restarts   \* restarts so far

deliveryVars == <<chats, conns, tokens, used, calls, leaving, reachable, removed,
                  notices, delivered, sent, pc, batch, faults, restarts>>
dispatchVars == <<notices, delivered, sent, pc, batch, faults, restarts>>

Pairs == (1..MaxNotices) \X Chats
NoConnection == [chat |-> NoChat, at |-> 0]
NewCall == [at |-> "new", token |-> "none", pick |-> {}, time |-> 0, drop |-> {}]
ConnectedTo(c) == {d \in Daos : conns[d].chat = c}

DeliveryTypeOK ==
    /\ chats \in SUBSET Chats
    /\ conns \in [Daos -> [chat : Chats \cup {NoChat}, at : 0..MaxNotices]]
    /\ \A d \in Daos : conns[d].chat # NoChat => conns[d].chat \in chats
    /\ tokens \in [ConnectTokens -> {"none", "live", "gone"}]
    /\ used \in SUBSET ConnectTokens
    /\ calls \in [Calls -> [at : {"new", "checked", "open", "done"},
                            token : ConnectTokens \cup {"none"}, pick : SUBSET Daos,
                            time : 0..MaxNotices, drop : SUBSET Daos]]
    /\ leaving \in SUBSET Chats /\ reachable \in SUBSET Chats /\ removed \in SUBSET Chats
    /\ notices \in Seq([dao : Daos, hearers : SUBSET Chats])
    /\ delivered \in SUBSET Pairs
    /\ sent \in [Pairs -> 0..(MaxFaults + MaxRestarts + 1)]
    /\ pc \in {"idle", "sending", "recording"}
    /\ batch \in Seq(Pairs) /\ (pc = "idle" <=> batch = << >>)
    /\ faults \in 0..MaxFaults /\ restarts \in 0..MaxRestarts

DeliveryInit ==
    /\ chats = {Connected[d] : d \in Daos} \ {NoChat}
    /\ conns = [d \in Daos |-> [chat |-> Connected[d], at |-> 0]]
    /\ tokens = [t \in ConnectTokens |-> "none"]
    /\ used = {}
    /\ calls = [k \in Calls |-> NewCall]
    /\ leaving = {}
    /\ reachable = chats
    /\ removed = {}
    /\ notices = << >>
    /\ delivered = {}
    /\ sent = [p \in Pairs |-> 0]
    /\ pc = "idle"
    /\ batch = << >>
    /\ faults = 0 /\ restarts = 0

-----------------------------------------------------------------------------
(* The bot's chats: Telegram and its webhook. *)

(* handle_bot_added: the chat's row, and a fresh token in the prompt. *)
BotAdded(t) ==
    /\ tokens[t] = "none" /\ TokenChat[t] \notin removed
    /\ chats' = chats \cup {TokenChat[t]}
    /\ reachable' = reachable \cup {TokenChat[t]}
    /\ tokens' = [tokens EXCEPT ![t] = "live"]
    /\ UNCHANGED <<conns, used, calls, leaving, removed, dispatchVars>>

(* Someone puts the bot out of the chat, or takes its right to post, of    *)
(* which the webhook takes no notice.                                      *)
LoseChat(c) ==
    /\ c \in Losable /\ c \in reachable
    /\ reachable' = reachable \ {c}
    /\ removed' \in {removed, removed \cup {c}}
    /\ UNCHANGED <<chats, conns, tokens, used, calls, leaving, dispatchVars>>

(* handle_bot_removed: the chat's row, and with it its tokens and          *)
(* connections.                                                            *)
BotRemoved(c) ==
    /\ c \in removed
    /\ removed' = removed \ {c}
    /\ chats' = chats \ {c}
    /\ conns' = [d \in Daos |-> IF conns[d].chat = c THEN NoConnection ELSE conns[d]]
    /\ tokens' = [t \in ConnectTokens |->
           IF TokenChat[t] = c /\ tokens[t] = "live" THEN "gone" ELSE tokens[t]]
    /\ UNCHANGED <<used, calls, leaving, reachable, dispatchVars>>

-----------------------------------------------------------------------------
(* connect_treasuries *)

CheckToken(k, t, S) ==
    /\ calls[k].at = "new"
    /\ S # {} /\ tokens[t] = "live" /\ t \notin used
    /\ calls' = [calls EXCEPT ![k] =
           [NewCall EXCEPT !.at = "checked", !.token = t, !.pick = S]]
    /\ UNCHANGED <<chats, conns, tokens, used, leaving, reachable, removed, dispatchVars>>

(* The transaction begins, which is the time it writes, and reads the      *)
(* connections that are not selected: not those of an open transaction.    *)
BeginConnect(k) ==
    /\ calls[k].at = "checked"
    /\ calls' = [calls EXCEPT ![k].at = "open", ![k].time = Len(notices),
           ![k].drop = ConnectedTo(TokenChat[calls[k].token]) \ calls[k].pick]
    /\ UNCHANGED <<chats, conns, tokens, used, leaving, reachable, removed, dispatchVars>>

(* Mutant: a connection that moves keeps its time. *)
UpsertedKeepingTime(k, d) ==
    [chat |-> TokenChat[calls[k].token],
     at |-> IF conns[d].chat = NoChat THEN calls[k].time ELSE conns[d].at]

Upserted(k, d) == [chat |-> TokenChat[calls[k].token], at |-> calls[k].time]

CommitConnect(k) ==
    /\ calls[k].at = "open"
    /\ LET c == TokenChat[calls[k].token] IN
       IF c \in chats
       THEN /\ conns' = [d \in Daos |->
                  IF d \in calls[k].pick THEN Upserted(k, d)
                  ELSE IF d \in calls[k].drop /\ conns[d].chat = c THEN NoConnection
                  ELSE conns[d]]
            /\ used' = used \cup {calls[k].token}
       ELSE UNCHANGED <<conns, used>>
    /\ calls' = [calls EXCEPT ![k] = [NewCall EXCEPT !.at = "done"]]
    /\ UNCHANGED <<chats, tokens, leaving, reachable, removed, dispatchVars>>

(* disconnect_treasury: one transaction; the last one makes the bot leave. *)
Disconnect(d) ==
    /\ conns[d].chat # NoChat
    /\ conns' = [conns EXCEPT ![d] = NoConnection]
    /\ leaving' = IF ConnectedTo(conns[d].chat) = {d}
                  THEN leaving \cup {conns[d].chat} ELSE leaving
    /\ UNCHANGED <<chats, tokens, used, calls, reachable, removed, dispatchVars>>

LeaveChat(c) ==
    /\ c \in leaving
    /\ leaving' = leaving \ {c}
    /\ reachable' = reachable \ {c}
    /\ removed' = IF c \in reachable THEN removed \cup {c} ELSE removed
    /\ UNCHANGED <<chats, conns, tokens, used, calls, dispatchVars>>

-----------------------------------------------------------------------------
(* The detector writes a notification about a connected treasury. *)
Notify(d) ==
    /\ Len(notices) < MaxNotices /\ conns[d].chat # NoChat
    /\ notices' = Append(notices, [dao |-> d, hearers |->
           {conns[d].chat} \cup {TokenChat[calls[k].token] :
               k \in {j \in Calls : calls[j].at = "open" /\ d \in calls[j].pick}}])
    /\ UNCHANGED <<chats, conns, tokens, used, calls, leaving, reachable, removed,
                   delivered, sent, pc, batch, faults, restarts>>

(* run_telegram_dispatch_cycle *)
StageAfter(b) == IF b = << >> THEN "idle" ELSE "sending"
Others == <<chats, conns, tokens, used, calls, leaving, reachable, removed, notices,
            restarts>>

(* Mutant: what was delivered is not left out. *)
UndeliveredAll ==
    {n \in DOMAIN notices : /\ conns[notices[n].dao].chat # NoChat
                            /\ n > conns[notices[n].dao].at}

Undelivered ==
    {n \in DOMAIN notices :
        LET conn == conns[notices[n].dao] IN
        conn.chat # NoChat /\ n > conn.at /\ <<n, conn.chat>> \notin delivered}

SelectUndelivered ==
    /\ pc = "idle" /\ Undelivered # {}
    /\ LET ids == {n \in Undelivered :
                      Cardinality({m \in Undelivered : m < n}) < BatchSize}
           nth(i) == CHOOSE n \in ids : Cardinality({m \in ids : m < n}) = i - 1
       IN  batch' = [i \in 1..Cardinality(ids) |->
                        <<nth(i), conns[notices[nth(i)].dao].chat>>]
    /\ pc' = "sending"
    /\ UNCHANGED <<Others, delivered, sent, faults>>

SendMessage ==
    /\ pc = "sending" /\ batch[1][2] \in reachable
    /\ sent' = [sent EXCEPT ![batch[1]] = @ + 1]
    /\ pc' = "recording"
    /\ UNCHANGED <<Others, delivered, batch, faults>>

(* Mutant: a refusal ends the cycle. *)
SendRefusedBreaks ==
    /\ pc = "sending"
    /\ \/ batch[1][2] \notin reachable /\ UNCHANGED faults
       \/ faults < MaxFaults /\ faults' = faults + 1
    /\ batch' = << >>
    /\ pc' = "idle"
    /\ UNCHANGED <<Others, delivered, sent>>

(* Telegram refuses: the next one's turn. *)
SendRefused ==
    /\ pc = "sending"
    /\ \/ batch[1][2] \notin reachable /\ UNCHANGED faults
       \/ faults < MaxFaults /\ faults' = faults + 1
    /\ batch' = Tail(batch)
    /\ pc' = StageAfter(Tail(batch))
    /\ UNCHANGED <<Others, delivered, sent>>

RecordDelivery ==
    /\ pc = "recording"
    /\ \/ delivered' = delivered \cup {batch[1]} /\ UNCHANGED faults
       \/ faults < MaxFaults /\ faults' = faults + 1 /\ UNCHANGED delivered
    /\ batch' = Tail(batch)
    /\ pc' = StageAfter(Tail(batch))
    /\ UNCHANGED <<Others, sent>>

(* The process stops: requests and the cycle are lost. *)
Restart ==
    /\ restarts < MaxRestarts /\ restarts' = restarts + 1
    /\ calls' = [k \in Calls |-> [NewCall EXCEPT !.at = "done"]]
    /\ leaving' = {}
    /\ pc' = "idle"
    /\ batch' = << >>
    /\ UNCHANGED <<chats, conns, tokens, used, reachable, removed, notices,
                   delivered, sent, faults>>

-----------------------------------------------------------------------------
Dispatch == SelectUndelivered \/ SendMessage \/ SendRefused \/ RecordDelivery

DeliveryNext ==
    \/ \E t \in ConnectTokens : BotAdded(t)
    \/ \E c \in Chats : LoseChat(c) \/ BotRemoved(c) \/ LeaveChat(c)
    \/ \E k \in Calls : \/ \E t \in ConnectTokens, S \in SUBSET Daos : CheckToken(k, t, S)
                        \/ BeginConnect(k)
                        \/ CommitConnect(k)
    \/ \E d \in Daos : Disconnect(d) \/ Notify(d)
    \/ Dispatch
    \/ Restart

(* The worker loops for ever, whatever a cycle returned. *)
DeliverySpec == DeliveryInit /\ [][DeliveryNext]_deliveryVars /\ WF_deliveryVars(Dispatch)

-----------------------------------------------------------------------------
(* A chat has a notification more than once only when a fault or a restart *)
(* came between the message and its record: not when treasuries are        *)
(* connected, moved and disconnected while a batch is being sent.          *)
Extra(p) == IF sent[p] > 0 THEN sent[p] - 1 ELSE 0
DuplicatesAreFaults == MapThenSumSet(Extra, Pairs) <= faults + restarts

(* A chat hears of nothing that happened before the treasury was connected *)
(* to it, nor while it was connected to another, although the batch was    *)
(* read earlier and connections move meanwhile.                            *)
NoHistoryIsSent ==
    \A p \in Pairs : sent[p] > 0 => p[2] \in notices[p[1]].hearers

(* A notification reaches the chat its treasury was connected to, as long  *)
(* as it stays connected by the same request and the bot can post there,   *)
(* although other chats refuse theirs: while a batch has room for all that *)
(* is waiting.                                                             *)
IsFor(p) ==
    /\ p[1] \in DOMAIN notices
    /\ p[2] = conns[notices[p[1]].dao].chat /\ p[1] > conns[notices[p[1]].dao].at
NoticesAreDelivered ==
    \A p \in Pairs :
        (IsFor(p) /\ sent[p] = 0) ~> (sent[p] > 0 \/ ~IsFor(p) \/ p[2] \notin reachable)
=============================================================================
