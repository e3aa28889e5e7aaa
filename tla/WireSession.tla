---------------------------- MODULE WireSession ----------------------------
(***************************************************************************)
(* One connection of the wire protocol (protocol.rs, session.rs): TLS      *)
(* negotiation (tls.rs), authentication (auth.rs, scram.rs), and the loop  *)
(* of simple and extended queries.                                         *)
(*                                                                         *)
(* The server reads one message at a time, so a message in flight is all   *)
(* there is between client and server.  SQL is a sequence of tokens whose  *)
(* head is the kind of statement; $1 and $2 are placeholders, and a quote  *)
(* is a token.  What the database does is reduced to the outcome of the    *)
(* statement and the state of the session's transaction (Engine has the    *)
(* rest).                                                                  *)
(***************************************************************************)
EXTENDS Integers, Sequences, SequencesExt, Functions

CONSTANTS
    Simple,       \* SQL texts of simple queries
    Prepared,     \* SQL texts of Parse
    Binds,        \* Bind messages: [portal, name, params, formats]
    Digits,       \* tokens that begin with a digit
    Numbers,      \* those of them that are numbers
    MaxMessages   \* bound on messages after the startup

Names == {"", "s"}
Portals == {"", "p"}

ASSUME WireSessionAssumption ==
    /\ Prepared \subseteq Seq(STRING) /\ MaxMessages \in Nat
    /\ Binds \subseteq [type : {"B"}, portal : Portals, name : Names,
                         params : Seq(Seq(STRING)), formats : BOOLEAN]
    /\ \A b \in Binds : Len(b.params) <= 2
    /\ Numbers \subseteq Digits

VARIABLES
    conf,      \* the configuration
    phase,     \* where the connection is
    encrypted, \* over TLS
    conn,      \* ConnectionSession: see NewConn
    msg,       \* the message in flight, <<>> if none
    messages,
    \* the client
    waiting,   \* for a ReadyForQuery
    shown,     \* the status it carried, until the next message
    inTxn,     \* its BEGINs and their ends, by the answers: "no", "yes", or
               \* "unknown" after a COMMIT or ROLLBACK that failed
    view,      \* its statements and portals, as the protocol defines them, and
               \* whether it bound a named one since its last unnamed Parse
    \* history
    admitted,  \* the client may be here, by the configuration
    blame,     \* why the client could be refused
    ran,       \* the last Execute: the SQL run, the SQL meant, and `odd`
    odd,       \* the client's habits since the last Bind: see Bind
    unanswered \* a query nobody will answer

client == <<waiting, shown, inTxn, view>>
history == <<admitted, blame, ran, odd, unanswered>>
vars == <<conf, phase, encrypted, conn, msg, messages, client, history>>

NewConn ==
    [prepared |-> <<>>, params |-> <<>>, last |-> <<>>, inError |-> FALSE,
     active |-> FALSE, id |-> FALSE, auto |-> FALSE]   \* id: txn_id is Some

(* The options that decide who gets in: certificate and key, require_tls,  *)
(* [auth] password_hash and password_scram, MOODENG_PASSWORD.              *)
Configs ==
    [cert : BOOLEAN, requireTls : BOOLEAN, hash : {"none", "good", "malformed"},
     scram : {"none", "good", "malformed"}, env : BOOLEAN]

Plain == [cert |-> FALSE, requireTls |-> FALSE, hash |-> "none", scram |-> "none", env |-> FALSE]

(* load_server_config: the server does not start without what it requires. *)
Starts(c) == c.requireTls => c.cert

Init ==
    /\ conf \in {c \in Configs : Starts(c)}
    /\ phase = "negotiate" /\ encrypted = FALSE /\ conn = NewConn
    /\ msg = <<>> /\ messages = 0
    /\ waiting = FALSE /\ shown = "" /\ inTxn = "no"
    /\ view = [stmts |-> <<>>, portals |-> <<>>, named |-> FALSE]
    /\ admitted = FALSE /\ blame = {} /\ ran = <<>> /\ odd = {} /\ unanswered = FALSE

-----------------------------------------------------------------------------
(* AuthConfig::from_config_and_env and auth_config: a SCRAM secret that    *)
(* does not parse counts as none, a hash is looked at only when it is      *)
(* used, and the environment counts if the file gives nothing.             *)
FromFile == conf.hash # "none" \/ conf.scram = "good"
ScramAvailable == conf.scram = "good" \/ (~FromFile /\ conf.env)
HasHash == conf.hash # "none" \/ (~FromFile /\ conf.env)
Required == HasHash \/ ScramAvailable
RequireTlsForPassword == HasHash /\ conf.cert /\ ~ScramAvailable

Close(why) ==
    /\ phase' = "closed" /\ blame' = blame \cup why
    /\ UNCHANGED <<conf, encrypted, conn, msg, messages, client, admitted, ran, odd, unanswered>>

Go(to) ==
    /\ phase' = to
    /\ UNCHANGED <<conf, conn, msg, messages, client, admitted, blame, ran, odd, unanswered>>

(* The query loop begins.  It uses neither configuration nor stream kind,  *)
(* so the model forgets them, and keeps whether the client may be here:    *)
(* with a password configured, readable or not, it has shown that it knows *)
(* it, and with require_tls it speaks TLS.  The exception: where only a    *)
(* SCRAM secret is configured and that does not parse, everybody gets in.  *)
PasswordSet == conf.hash # "none" \/ conf.scram # "none" \/ conf.env
OnlyUnreadable == conf.hash = "none" /\ conf.scram = "malformed" /\ ~conf.env

Enter(verified) ==
    /\ phase' = "ready"
    /\ admitted' = (/\ PasswordSet => verified \/ OnlyUnreadable
                    /\ conf.requireTls => encrypted)
    /\ conf' = Plain /\ encrypted' = FALSE
    /\ UNCHANGED <<conn, msg, messages, client, blame, ran, odd, unanswered>>

(* negotiate_stream: SSLRequest, another message of its length, or a       *)
(* startup packet.                                                         *)
SslRequest ==
    /\ phase = "negotiate"
    /\ IF conf.cert
       THEN \/ Go("startup") /\ encrypted' = TRUE
            \/ Close({"handshake"})
       ELSE Go("startup") /\ UNCHANGED encrypted

OtherCode == phase = "negotiate" /\ Close({"code"})

PlainStartup ==
    /\ phase = "negotiate"
    /\ IF conf.requireTls
       THEN Close({"plain"})
       ELSE Go("startup") /\ UNCHANGED encrypted

(* run_session up to the authentication request.                           *)
Startup ==
    /\ phase = "startup"
    /\ IF Required /\ ~encrypted /\ RequireTlsForPassword /\ ~ScramAvailable
       THEN Close({"plain"})
       ELSE IF ~Required THEN Enter(FALSE)
       ELSE Go(IF ScramAvailable THEN "saslFirst" ELSE "password") /\ UNCHANGED encrypted

(* authenticate_cleartext; verify accepts anything if there is no hash,    *)
(* and nothing if the hash does not parse.                                 *)
Verify(secret) == HasHash => conf.hash # "malformed" /\ secret = "right"

Password(kind) ==
    /\ phase = "password"
    /\ IF kind # "other" /\ Verify(kind)
       THEN Enter(kind = "right")
       ELSE Close(IF kind = "right" THEN {"hash"} ELSE {"secret"})

(* ScramSession::start needs a header and a nonce that is not empty.       *)
Start(kind) == kind # "malformed"

(* authenticate_scram, client-first: an empty mechanism is let pass.       *)
SaslFirst(kind) ==
    /\ phase = "saslFirst"
    /\ IF kind # "mechanism" /\ Start(kind)
       THEN Go("saslFinal") /\ UNCHANGED encrypted
       ELSE Close({kind})

(* client-final: how it is framed (read_sasl_message expects a mechanism   *)
(* and a length here too), the channel binding, the nonce it repeats, and  *)
(* the proof: the secret and the exchange it was made with, and whether it *)
(* covers this binding and nonce.                                          *)
SaslFinals ==
    [framed : BOOLEAN, binding : {"biws", "eSws", "other"},
     nonce : {"sent", "extended", "foreign"}, secret : {"right", "wrong"},
     exchange : {"this", "earlier"}, covers : BOOLEAN]

(* ScramSession::finish: the binding is that of a client without channel   *)
(* binding, the nonce starts with the client's, and the proof is the one   *)
(* of the stored key over the messages of this exchange.                   *)
FinishUnbound(m) ==
    m.binding # "other" /\ m.nonce # "foreign" /\ m.secret = "right" /\ m.covers

Finish(m) ==
    /\ m.binding # "other" /\ m.nonce # "foreign"
    /\ m.secret = "right" /\ m.exchange = "this" /\ m.covers

Honest(m) ==
    /\ m.binding # "other" /\ m.nonce = "sent"
    /\ m.secret = "right" /\ m.exchange = "this" /\ m.covers

SaslFinal(m) ==
    /\ phase = "saslFinal"
    /\ IF m.framed /\ Finish(m)
       THEN Enter(m.secret = "right" /\ m.exchange = "this")
       ELSE Close(IF ~Honest(m) THEN {"secret"} ELSE IF ~m.framed THEN {"framing"} ELSE {})

Handshake ==
    \/ SslRequest \/ OtherCode \/ PlainStartup \/ Startup
    \/ \E kind \in {"right", "wrong", "other"} : Password(kind)
    \/ \E kind \in {"named", "unnamed", "mechanism", "malformed"} : SaslFirst(kind)
    \/ \E m \in SaslFinals : SaslFinal(m)

-----------------------------------------------------------------------------
(* The client.  It waits for ReadyForQuery after a Query and after a Sync. *)

Put(f, k, v) == [x \in DOMAIN f \cup {k} |-> IF x = k THEN v ELSE f[x]]

Send(m, wait) ==
    /\ phase = "ready" /\ msg = <<>> /\ ~waiting /\ messages < MaxMessages
    /\ msg' = m /\ messages' = messages + 1
    /\ waiting' = wait /\ shown' = "" /\ ran' = <<>>
    /\ UNCHANGED <<conf, phase, encrypted, conn, inTxn, admitted, blame, unanswered>>

SendQuery(sql) == Send([type |-> "Q", sql |-> sql], TRUE) /\ UNCHANGED <<view, odd>>
SendSync == Send([type |-> "S"], TRUE) /\ UNCHANGED <<view, odd>>

(* X, or a message the loop ignores, such as Describe, Close and Flush.    *)
SendOther(type) == Send([type |-> type], FALSE) /\ UNCHANGED <<view, odd>>

(* history: an unnamed Parse after a Bind.                                 *)
SendParse(name, sql) ==
    /\ Send([type |-> "P", name |-> name, sql |-> sql], FALSE)
    /\ view' = [view EXCEPT !.stmts = Put(@, name, sql), !.named = @ /\ name # ""]
    /\ odd' = IF name = "" THEN odd \cup {"reparse"} ELSE odd

(* history: a portal by name, a statement that does not exist, format      *)
(* codes, the unnamed statement when a named one was bound since its       *)
(* Parse, and values that read as something else once in the SQL: the word *)
(* null, what begins with a digit and is no number, what has a quote, what *)
(* has the placeholder of an earlier parameter.                            *)
Placeholders == <<"$1", "$2">>
None == <<>>   \* a parameter that is NULL

Unquoted(v) == v # None /\ v[1] \in Digits
IsNumber(v) == \E n \in Numbers : v = <<n>>

Misread(v) == v = <<"null">> \/ (Unquoted(v) /\ ~IsNumber(v)) \/ Contains(v, "'")

Ambiguous(params) ==
    \E i \in DOMAIN params :
        Misread(params[i]) \/ \E j \in 1..(i - 1) : Contains(params[i], Placeholders[j])

SendBind(b) ==
    LET known == b.name \in DOMAIN view.stmts
    IN  /\ Send(b, FALSE)
        /\ view' = [view EXCEPT
               !.portals = IF known
                           THEN Put(@, b.portal, [sql |-> view.stmts[b.name], params |-> b.params])
                           ELSE Restrict(@, DOMAIN @ \ {b.portal}),
               !.named = @ \/ b.name # ""]
        /\ odd' = (IF b.portal # "" THEN {"portal"} ELSE {})
                  \cup (IF known THEN {} ELSE {"unknown"})
                  \cup (IF b.formats THEN {"formats"} ELSE {})
                  \cup (IF b.name = "" /\ view.named THEN {"rebind"} ELSE {})
                  \cup (IF Ambiguous(b.params) THEN {"value"} ELSE {})

SendExecute(portal) ==
    /\ Send([type |-> "E", portal |-> portal], FALSE)
    /\ odd' = IF portal # "" THEN odd \cup {"portal"} ELSE odd
    /\ UNCHANGED view

ClientStep ==
    \/ \E sql \in Simple : SendQuery(sql)
    \/ SendSync
    \/ \E type \in {"X", "D"} : SendOther(type)
    \/ \E name \in Names : \E sql \in Prepared : SendParse(name, sql)
    \/ \E b \in Binds : SendBind(b)
    \/ \E portal \in Portals : SendExecute(portal)

-----------------------------------------------------------------------------
(* substitute_params: from the last parameter to the first, in the text    *)
(* made so far.                                                            *)

Quoted(v) == <<"'">> \o v \o <<"'">>

Replacement(v) ==
    IF v = None \/ v = <<"null">> THEN <<"NULL">> ELSE IF Unquoted(v) THEN v ELSE Quoted(v)

Replace(sql, placeholder, with) ==
    FlattenSeq([i \in DOMAIN sql |-> IF sql[i] = placeholder THEN with ELSE <<sql[i]>>])

Fill(sql, p) == Replace(sql, p.placeholder, Replacement(p.value))

Substitute(sql, params) ==
    FoldLeft(Fill, sql, Reverse([i \in DOMAIN params |->
                                    [placeholder |-> Placeholders[i], value |-> params[i]]]))

(* What the parameters mean: each placeholder is the literal of its value, *)
(* NULL, a number, or a string with its quotes doubled.                    *)
Literal(v) ==
    IF v = None THEN <<"NULL">>
    ELSE IF IsNumber(v) THEN v ELSE Quoted(Replace(v, "'", <<"'", "'">>))

Meant(sql, params) ==
    FlattenSeq([i \in DOMAIN sql |->
        IF \E j \in DOMAIN params : sql[i] = Placeholders[j]
        THEN Literal(params[CHOOSE j \in DOMAIN params : sql[i] = Placeholders[j]])
        ELSE <<sql[i]>>])

-----------------------------------------------------------------------------
(* The server handles the message.                                         *)

Received(type) == phase = "ready" /\ msg # <<>> /\ msg.type = type

(* execute_session, as far as the session's transaction goes: the outcome  *)
(* and the transaction after it.                                           *)
Txn(c, ok, active, id, auto) ==
    [c EXCEPT !.active = active, !.id = id, !.auto = auto, !.inError = ~ok]

Same(c, ok) == [c EXCEPT !.inError = ~ok]

(* The append of the Begin record may fail.                                *)
BeginOutcomes(c) ==
    IF c.active THEN {Same(c, FALSE)}
    ELSE {Txn(c, TRUE, TRUE, TRUE, FALSE), Txn(c, FALSE, FALSE, FALSE, FALSE)}

(* commit and rollback take the id before the append that may fail, and    *)
(* the transaction then stays active without one, for good.                *)
EndOutcomes(c) ==
    IF ~c.active THEN {Same(c, FALSE)}
    ELSE IF ~c.id THEN {Txn(c, FALSE, TRUE, FALSE, FALSE)}
    ELSE {Txn(c, TRUE, FALSE, FALSE, FALSE), Txn(c, FALSE, TRUE, FALSE, FALSE)}

(* ROLLBACK may also fail at an undo record, after the transaction ended.  *)
UndoFails(c) == IF c.active /\ c.id THEN {Txn(c, FALSE, FALSE, FALSE, FALSE)} ELSE {}

(* A write outside a transaction begins an implicit one and commits it; an *)
(* error before that, at a row, or of the commit leaves it as it is then.  *)
WriteOutcomes(c) ==
    IF c.active /\ ~c.id THEN {Same(c, FALSE)}
    ELSE IF c.active /\ ~c.auto THEN {Same(c, TRUE), Same(c, FALSE)}
    ELSE {Txn(c, TRUE, FALSE, FALSE, FALSE), Same(c, FALSE),
          Txn(c, FALSE, TRUE, TRUE, TRUE), Txn(c, FALSE, TRUE, FALSE, TRUE)}

Outcomes(kind, c) ==
    CASE kind = "begin"    -> BeginOutcomes(c)
      [] kind = "commit"   -> EndOutcomes(c)
      [] kind = "rollback" -> EndOutcomes(c) \cup UndoFails(c)
      [] kind = "write"    -> WriteOutcomes(c)
      [] kind = "read"     -> {Same(c, TRUE), Same(c, FALSE)}
      [] OTHER             -> {Same(c, FALSE)}   \* it does not parse

(* run_sql: the result or the error goes to the client.                    *)
Told(kind, ok) ==
    IF kind = "begin" THEN IF ok THEN "yes" ELSE inTxn
    ELSE IF kind \in {"commit", "rollback"}
    THEN IF ok THEN "no" ELSE IF inTxn = "yes" THEN "unknown" ELSE inTxn
    ELSE inTxn

RunSql(sql) ==
    /\ conn' \in Outcomes(Head(sql), conn)
    /\ inTxn' = Told(Head(sql), ~conn'.inError)

(* ready_status.                                                           *)
ReadyStatusIdle(c) == IF c.inError THEN "E" ELSE "I"

ReadyStatus(c) == IF c.inError THEN "E" ELSE IF c.active THEN "T" ELSE "I"

SendReady(c) == waiting' = FALSE /\ shown' = ReadyStatus(c)

Kept == UNCHANGED <<conf, phase, encrypted, messages, view, admitted, blame, odd>>

(* Q: an empty query is skipped, and nothing is sent.                      *)
QueryUnready ==
    /\ Received("Q") /\ msg' = <<>>
    /\ IF msg.sql = <<>>
       THEN unanswered' = TRUE /\ UNCHANGED <<conn, inTxn, waiting, shown>>
       ELSE /\ RunSql(msg.sql)
            /\ IF conn'.inError THEN UNCHANGED <<waiting, shown>> ELSE SendReady(conn')
            /\ UNCHANGED unanswered
    /\ Kept /\ UNCHANGED ran

Query ==
    /\ Received("Q") /\ msg' = <<>>
    /\ IF msg.sql = <<>>
       THEN unanswered' = TRUE /\ UNCHANGED <<conn, inTxn, waiting, shown>>
       ELSE RunSql(msg.sql) /\ SendReady(conn') /\ UNCHANGED unanswered
    /\ Kept /\ UNCHANGED ran

(* handle_parse.                                                           *)
Parse ==
    /\ Received("P") /\ msg' = <<>>
    /\ conn' = IF msg.name = "" THEN [conn EXCEPT !.last = msg.sql]
               ELSE [conn EXCEPT !.prepared = Put(@, msg.name, msg.sql)]
    /\ Kept /\ UNCHANGED <<waiting, shown, inTxn, ran, unanswered>>

(* handle_bind: the portal is ignored; the format codes are not skipped,   *)
(* so that one of them, 0 for text, is read as the number of parameters; a *)
(* statement that is not found leaves the last one.                        *)
BindKeepingParams ==
    /\ Received("B") /\ msg' = <<>>
    /\ conn' = [conn EXCEPT
           !.params = IF msg.params = <<>> THEN @ ELSE IF msg.formats THEN <<>> ELSE msg.params,
           !.last = IF msg.name # "" /\ msg.name \in DOMAIN conn.prepared
                    THEN conn.prepared[msg.name] ELSE @]
    /\ Kept /\ UNCHANGED <<waiting, shown, inTxn, ran, unanswered>>

Bind ==
    /\ Received("B") /\ msg' = <<>>
    /\ conn' = [conn EXCEPT
           !.params = IF msg.formats THEN <<>> ELSE msg.params,
           !.last = IF msg.name # "" /\ msg.name \in DOMAIN conn.prepared
                    THEN conn.prepared[msg.name] ELSE @]
    /\ Kept /\ UNCHANGED <<waiting, shown, inTxn, ran, unanswered>>

(* handle_execute.  history: what was run, and what the client's portal    *)
(* says.                                                                   *)
Execute ==
    LET sql == Substitute(conn.last, conn.params)
        want == IF msg.portal \in DOMAIN view.portals
                THEN Meant(view.portals[msg.portal].sql, view.portals[msg.portal].params)
                ELSE <<>>
    IN  /\ Received("E") /\ msg' = <<>>
        /\ IF conn.last = <<>>
           THEN UNCHANGED <<conn, inTxn>>
           ELSE RunSql(sql)
        /\ ran' = [got |-> IF conn.last = <<>> THEN <<>> ELSE sql, want |-> want, odd |-> odd]
        /\ Kept /\ UNCHANGED <<waiting, shown, unanswered>>

(* S.                                                                      *)
Sync ==
    /\ Received("S") /\ msg' = <<>>
    /\ conn' = [conn EXCEPT !.inError = FALSE]
    /\ SendReady(conn')
    /\ Kept /\ UNCHANGED <<inTxn, ran, unanswered>>

Ignore ==
    /\ Received("D") /\ msg' = <<>>
    /\ Kept /\ UNCHANGED <<conn, client, ran, unanswered>>

Terminate ==
    /\ Received("X") /\ msg' = <<>> /\ phase' = "closed"
    /\ UNCHANGED <<conf, encrypted, conn, messages, client, history>>

(* The stream ends or a read or write on it fails.                         *)
Disconnect ==
    /\ phase # "closed" /\ phase' = "closed" /\ msg' = <<>>
    /\ blame' = blame \cup {"disconnect"}
    /\ UNCHANGED <<conf, encrypted, conn, messages, client, admitted, ran, odd, unanswered>>

ServerStep == Query \/ Parse \/ Bind \/ Execute \/ Sync \/ Ignore \/ Terminate

Next == Handshake \/ ClientStep \/ ServerStep \/ Disconnect

(* The task of the connection is polled while there is a message.          *)
Spec == Init /\ [][Next]_vars /\ WF_vars(ServerStep)

-----------------------------------------------------------------------------
(* Who gets to the query loop: with a password configured only clients     *)
(* that have shown they know it, in this exchange; with require_tls only   *)
(* over TLS; and a cleartext password is not asked for in the clear where  *)
(* TLS is there.  The exception is a server whose only password is a       *)
(* password_scram that does not parse: it admits everybody (OnlyUnreadable *)
(* in Enter).  And who is turned away has a reason, by name: "framing" is  *)
(* a client-final message as RFC 7677 and libpq send it, "hash" the right  *)
(* password where password_hash does not parse.                            *)
Admission ==
    /\ phase = "ready" => admitted
    /\ phase = "password" => encrypted \/ ~conf.cert
    /\ phase = "closed" /\ messages = 0 => blame # {}

(* ReadyForQuery tells the client the truth about its transaction: what it *)
(* was told it began is open, under its id, until an end of it is          *)
(* answered; idle means that none is open; and a transaction is shown only *)
(* if the client began it or a failure is behind it, of a statement that   *)
(* left an implicit one open (auto) or of a commit or rollback that took   *)
(* the id and did not end it.  A failed COMMIT or ROLLBACK leaves the      *)
(* client in doubt: "unknown".  "E" only says that a statement failed.     *)
StatusTruthful ==
    /\ inTxn = "yes" => conn.active /\ conn.id /\ ~conn.auto
    /\ conn.auto \/ conn.id => conn.active
    /\ shown = "I" => ~conn.active
    /\ shown = "T" => conn.active /\ (inTxn = "yes" \/ conn.auto \/ ~conn.id)

(* Execute runs the statement and the parameters that its portal was bound *)
(* to, through every order of Parse and Bind.  The exceptions: named       *)
(* portals, a Bind of an unknown statement, one with format codes, an      *)
(* unnamed Parse after the Bind, a Bind of the unnamed statement after one *)
(* of a named statement, and values that read as something else (Misread,  *)
(* Ambiguous): the substitution neither escapes quotes nor quotes what     *)
(* begins with a digit.                                                    *)
ExecutesWhatWasBound == ran # <<>> /\ ran.odd = {} => ran.got = ran.want

(* A client that waits for ReadyForQuery gets it or the connection ends,   *)
(* unless it sent an empty query.                                          *)
Answered == waiting ~> (~waiting \/ phase = "closed" \/ unanswered)
=============================================================================
