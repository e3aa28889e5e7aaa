------------------------- MODULE Statements_proofs --------------------------
(***************************************************************************)
(* The two components that a statement passes through as a text and as     *)
(* values, together because both are about FlattenSeq and FoldLeft.        *)
(*                                                                         *)
(* WireSession: who is admitted, what ReadyForQuery says and what Execute  *)
(* runs, for every configuration, any SQL texts, Bind messages of at most  *)
(* the two parameters that have placeholders, and sessions of any length.  *)
(*                                                                         *)
(* Queries: what is stored, found, grouped, sorted and paged, for integers *)
(* of any two widths, doubles of any such precision, any literals and      *)
(* operands, and any number of rows and statements.                        *)
(*                                                                         *)
(* The states that FlattenSeq and FoldLeft go through are named (Joins,    *)
(* Fills, Keeps, Visits, Places), and what is to be shown of them is shown *)
(* for a least index that fails it, since a recursive definition has no    *)
(* induction rule here.                                                    *)
(***************************************************************************)
EXTENDS WireSession, Queries, SequenceTheorems, NaturalsInduction, WellFoundedInduction,
        FiniteSetTheorems, TLAPS

-----------------------------------------------------------------------------
(* Indexes, and sequences that are joined.                                 *)

(* A set of indexes that has 0 and with each index the next has them all.  *)
LEMMA IndexInduction ==
    ASSUME NEW n \in Nat, NEW P, 0 \in P, \A i \in 0..(n - 1) : i \in P => i + 1 \in P
    PROVE  \A i \in 0..n : i \in P
  <1> DEFINE out == {i \in 0..n : i \notin P}
  <1> SUFFICES ASSUME out # {}
               PROVE  FALSE
    OBVIOUS
  <1>1. out \subseteq Nat
    OBVIOUS
  <1>2. PICK m \in out : \A y \in out : ~(<<y, m>> \in OpToRel(<, Nat))
    BY <1>1, NatLessThanWellFounded, WFMin
  <1>3. \A y \in out : ~(y < m)
    BY <1>1, <1>2 DEF OpToRel
  <1>4. m - 1 \in 0..(n - 1) /\ m - 1 \notin out
    BY <1>3
  <1> QED
    BY <1>4

(* Max of a set of positions.                                              *)
LEMMA MaxIs ==
    ASSUME NEW n \in Nat, NEW S \in SUBSET (1..n), n \in S
    PROVE  Max(S) = n
  <1>1. \A y \in S : n >= y
    OBVIOUS
  <1>2. \A x \in S : (\A y \in S : x >= y) => x = n
    BY <1>1
  <1> QED
    BY <1>1, <1>2 DEF Max

LEMMA MaxExists ==
    ASSUME NEW n \in Nat, NEW S \in SUBSET (1..n), S # {}
    PROVE  Max(S) \in S /\ \A y \in S : y <= Max(S)
  <1> DEFINE above == {m \in Nat : \A y \in S : y <= m}
  <1>1. n \in above /\ above \subseteq Nat
    OBVIOUS
  <1>2. PICK m \in above : \A y \in above : ~(<<y, m>> \in OpToRel(<, Nat))
    BY <1>1, NatLessThanWellFounded, WFMin
  <1>3. \A y \in above : ~(y < m)
    BY <1>1, <1>2 DEF OpToRel
  <1>4. m \in S
    <2>1. SUFFICES ASSUME m \notin S
                   PROVE  FALSE
      OBVIOUS
    <2>2. \A y \in S : y \in 1..n /\ y <= m /\ y # m
      BY <2>1
    <2>3. m \in Nat \ {0} /\ m - 1 \in Nat
      <3>1. PICK y : y \in S
        OBVIOUS
      <3>2. y \in 1..n /\ y <= m /\ m \in Nat
        BY <2>2, <3>1
      <3> QED
        BY <3>2
    <2>4. \A y \in S : y <= m - 1
      BY <2>2, <2>3
    <2>5. m - 1 \in above
      BY <2>3, <2>4
    <2> QED
      BY <1>3, <2>3, <2>5
  <1>5. \A y \in S : m >= y
    OBVIOUS
  <1>6. Max(S) \in S /\ \A y \in S : Max(S) >= y
    BY <1>4, <1>5 DEF Max
  <1> QED
    BY <1>6

(* FlattenSeq goes through the joins of the prefixes.                      *)
Joins(st, n, f) ==
    st[0] = <<>> /\ \A i \in 1..n : st[i] = st[i - 1] \o f[i]

(* Sequences that an empty one leaves as they are.                         *)
Joinable(f, n) == Len(f) = n /\ \A i \in 1..n : <<>> \o f[i] = f[i]

LEMMA JoinStates ==
    ASSUME NEW n \in Nat, NEW f, Joinable(f, n)
    PROVE  \E st : Joins(st, n, f) /\ (n # 0 => st[n] = FlattenSeq(f))
  <1> DEFINE Eq(g, m) == g = [i \in 1..m |-> IF i = 1 THEN f[i] ELSE g[i - 1] \o f[i]]
             good == {m \in 0..n : \E g : Eq(g, m)}
  <1>1. 0 \in good
    <2> DEFINE none == [i \in 1..0 |-> <<>>]
    <2>1. Eq(none, 0)
      OBVIOUS
    <2>2. PICK g : g = none
      OBVIOUS
    <2> HIDE DEF none
    <2>3. Eq(g, 0)
      BY <2>1, <2>2
    <2>4. 0 \in 0..n
      OBVIOUS
    <2> QED
      BY <2>3, <2>4
  <1>2. ASSUME NEW m \in 0..(n - 1), m \in good
        PROVE  m + 1 \in good
    <2>1. PICK g : Eq(g, m)
      BY <1>2
    <2> DEFINE h == [i \in 1..(m + 1) |-> IF i = m + 1 THEN (IF i = 1 THEN f[i] ELSE g[i - 1] \o f[i]) ELSE g[i]]
               k == [i \in 1..(m + 1) |-> IF i = 1 THEN f[i] ELSE h[i - 1] \o f[i]]
    <2>2. ASSUME NEW i \in 1..(m + 1)
          PROVE  h[i] = k[i]
      <3>1. CASE i = 1
        BY <2>1, <3>1
      <3>2. CASE i # 1
        <4>1. i - 1 \in 1..m /\ h[i - 1] = g[i - 1]
          BY <3>2
        <4>2. i \in 1..m => g[i] = g[i - 1] \o f[i]
          BY <2>1, <3>2
        <4>3. i \in 1..m \/ i = m + 1
          OBVIOUS
        <4>4. h[i] = g[i - 1] \o f[i]
          BY <3>2, <4>2, <4>3
        <4> QED
          BY <3>2, <4>1, <4>4
      <3> QED
        BY <3>1, <3>2
    <2>3. h = k
      BY <2>2
    <2>4. Eq(h, m + 1)
      BY <2>3
    <2> HIDE DEF h
    <2>5. m + 1 \in 0..n
      OBVIOUS
    <2>6. PICK ff : ff = h
      OBVIOUS
    <2> QED
      BY <2>4, <2>5, <2>6
  <1>3. n \in good
    <2> HIDE DEF good
    <2>1. \A i \in 0..n : i \in good
      BY <1>1, <1>2, IndexInduction
    <2> QED
      BY <2>1
  <1> DEFINE it == CHOOSE g : Eq(g, n)
  <1>4. Eq(it, n)
    BY <1>3
  <1>5. n # 0 => FlattenSeq(f) = it[n]
    BY DEF FlattenSeq, Joinable
  <1> HIDE DEF it
  <1> DEFINE st == [i \in 0..n |-> IF i = 0 THEN <<>> ELSE it[i]]
  <1>6. st[0] = <<>> /\ (n # 0 => st[n] = it[n])
    OBVIOUS
  <1>7. ASSUME NEW i \in 1..n
        PROVE  st[i] = st[i - 1] \o f[i]
    <2>1. CASE i = 1
      <3>1. st[i] = f[i] /\ st[i - 1] = <<>>
        BY <1>4, <2>1
      <3>2. <<>> \o f[i] = f[i]
        BY DEF Joinable
      <3> QED
        BY <3>1, <3>2
    <2>2. CASE i # 1
      <3> HIDE DEF st
      <3>1. i - 1 \in 1..n
        BY <2>2
      <3>2. it[i] = it[i - 1] \o f[i]
        BY <1>4, <2>2
      <3> USE DEF st
      <3>3. st[i] = it[i] /\ st[i - 1] = it[i - 1]
        BY <2>2, <3>1
      <3> QED
        BY <3>2, <3>3
    <2> QED
      BY <2>1, <2>2
  <1> HIDE DEF st
  <1> QED
    BY <1>5, <1>6, <1>7 DEF Joins

(* There is one way to join sequences.                                     *)
LEMMA JoinIs ==
    ASSUME NEW n \in Nat, NEW f, Joinable(f, n), NEW st, Joins(st, n, f), n # 0
    PROVE  FlattenSeq(f) = st[n]
  <1>1. PICK sf : Joins(sf, n, f) /\ sf[n] = FlattenSeq(f)
    BY JoinStates
  <1> DEFINE good == {i \in 0..n : sf[i] = st[i]}
  <1>2. 0 \in good
    BY <1>1 DEF Joins
  <1>3. ASSUME NEW i \in 0..(n - 1), i \in good
        PROVE  i + 1 \in good
    <2>1. i + 1 \in 1..n /\ (i + 1) - 1 = i /\ sf[i] = st[i]
      BY <1>3
    <2>2. PICK j : j = i + 1
      OBVIOUS
    <2>3. j \in 1..n /\ st[j] = st[j - 1] \o f[j] /\ sf[j] = sf[j - 1] \o f[j]
      BY <1>1, <2>1, <2>2 DEF Joins
    <2>4. sf[j] = st[j]
      BY <2>1, <2>2, <2>3
    <2>5. j \in 0..n
      BY <2>3
    <2>6. j \in good
      BY <2>4, <2>5
    <2> HIDE DEF good
    <2> QED
      BY <2>2, <2>6
  <1> HIDE DEF good
  <1>4. \A i \in 0..n : i \in good
    BY <1>2, <1>3, IndexInduction
  <1>5. sf[n] = st[n]
    BY <1>4 DEF good
  <1> QED
    BY <1>1, <1>5

-----------------------------------------------------------------------------
(* The wire session.                                                       *)

(* The handshake: what is known of a client once TLS is settled, and that  *)
(* a cleartext password is asked for only where there is one to compare.   *)
HandshakeInv ==
    /\ conf \in Configs /\ Starts(conf)
    /\ encrypted \in BOOLEAN
    /\ phase \in {"startup", "password", "saslFirst", "saslFinal"} => (conf.requireTls => encrypted)
    /\ phase = "password" => HasHash

(* A message in flight was counted, and the status shown is from before.   *)
MessageInv ==
    /\ messages \in Nat
    /\ msg # <<>> => messages # 0 /\ shown = ""

(* The transaction of the session is the one the client began, or one that *)
(* a failed write left behind, or one whose end failed and took its id; of *)
(* these the first excludes the others.                                    *)
TxnInv ==
    /\ DOMAIN conn = {"prepared", "params", "last", "inError", "active", "id", "auto"}
    /\ conn.active \in BOOLEAN /\ conn.id \in BOOLEAN /\ conn.auto \in BOOLEAN
    /\ conn.inError \in BOOLEAN
    /\ inTxn \in {"no", "yes", "unknown"}
    /\ inTxn = "yes" => conn.active /\ conn.id /\ ~conn.auto
    /\ conn.active => inTxn = "yes" \/ conn.auto \/ ~conn.id
    /\ conn.auto \/ conn.id => conn.active

ShownInv == (shown = "I" => ~conn.active) /\ (shown = "T" => conn.active)

IInv == HandshakeInv /\ MessageInv /\ TxnInv /\ ShownInv /\ Admission

-----------------------------------------------------------------------------
(* Authentication.                                                         *)

(* Without a password to ask for, none is configured, or only a SCRAM      *)
(* secret that does not parse.                                             *)
LEMMA NotRequired ==
    ASSUME conf \in Configs, ~Required
    PROVE  PasswordSet => OnlyUnreadable
  BY DEF Required, HasHash, ScramAvailable, FromFile, PasswordSet, OnlyUnreadable, Configs

(* A proof that finish accepts is of the right secret in this exchange,    *)
(* and an honest client's is accepted.                                     *)
LEMMA FinishVerifies ==
    ASSUME NEW m \in SaslFinals
    PROVE  /\ Finish(m) => m.secret = "right" /\ m.exchange = "this"
           /\ Honest(m) => Finish(m)
  BY DEF Finish, Honest

(* The query loop is entered by a client that may be there.                *)
LEMMA EnterKeeps ==
    ASSUME IInv, NEW verified, Enter(verified), PasswordSet => verified \/ OnlyUnreadable,
           phase \in {"startup", "password", "saslFirst", "saslFinal"}
    PROVE  IInv'
  <1> USE DEF IInv
  <1>1. /\ phase' = "ready" /\ conf' = Plain /\ encrypted' = FALSE
        /\ UNCHANGED <<conn, msg, messages, waiting, shown, inTxn>>
    BY DEF Enter, client
  <1>2. admitted'
    BY DEF Enter, HandshakeInv
  <1>3. HandshakeInv'
    BY <1>1 DEF HandshakeInv, Plain, Configs, Starts
  <1>4. MessageInv' /\ TxnInv' /\ ShownInv'
    BY <1>1 DEF MessageInv, TxnInv, ShownInv
  <1> QED
    BY <1>1, <1>2, <1>3, <1>4 DEF Admission

LEMMA CloseKeeps ==
    ASSUME IInv, NEW why, Close(why), why # {}
    PROVE  IInv'
  BY DEF IInv, Close, client, HandshakeInv, MessageInv, TxnInv, ShownInv, Admission, HasHash, FromFile

(* From one step of the handshake to the next.                             *)
LEMMA GoKeeps ==
    ASSUME IInv, NEW to \in {"startup", "password", "saslFirst", "saslFinal"}, Go(to),
           encrypted' \in BOOLEAN, conf.requireTls => encrypted',
           to = "password" => HasHash /\ (encrypted' \/ ~conf.cert)
    PROVE  IInv'
  BY DEF IInv, Go, client, HandshakeInv, MessageInv, TxnInv, ShownInv, Admission, HasHash, FromFile

LEMMA HandshakeKeeps ==
    ASSUME IInv, Handshake
    PROVE  IInv'
  <1>1. conf \in Configs /\ Starts(conf) /\ encrypted \in BOOLEAN
    BY DEF IInv, HandshakeInv
  <1>2. CASE SslRequest
    <2>1. CASE conf.cert
      BY <1>1, <1>2, <2>1, GoKeeps, CloseKeeps DEF SslRequest
    <2>2. CASE ~conf.cert
      <3>1. ~conf.requireTls
        BY <1>1, <2>2 DEF Starts
      <3> QED
        BY <1>1, <1>2, <2>2, <3>1, GoKeeps DEF SslRequest
    <2> QED
      BY <2>1, <2>2
  <1>3. CASE OtherCode
    BY <1>3, CloseKeeps DEF OtherCode
  <1>4. CASE PlainStartup
    BY <1>1, <1>4, GoKeeps, CloseKeeps DEF PlainStartup
  <1>5. CASE Startup
    <2>1. phase = "startup" /\ (conf.requireTls => encrypted)
      BY <1>5 DEF Startup, IInv, HandshakeInv
    <2>2. CASE Required /\ ~encrypted /\ RequireTlsForPassword /\ ~ScramAvailable
      BY <1>5, <2>2, CloseKeeps DEF Startup
    <2>3. CASE ~Required
      <3>1. Enter(FALSE)
        BY <1>5, <2>3 DEF Startup
      <3> QED
        BY <1>1, <2>1, <2>3, <3>1, NotRequired, EnterKeeps DEF Enter
    <2>4. CASE Required /\ ScramAvailable
      BY <1>1, <1>5, <2>1, <2>4, GoKeeps DEF Startup
    <2>5. CASE /\ Required /\ ~ScramAvailable
               /\ ~(Required /\ ~encrypted /\ RequireTlsForPassword /\ ~ScramAvailable)
      <3>1. Go("password") /\ UNCHANGED encrypted
        BY <1>5, <2>5 DEF Startup
      <3>2. HasHash /\ (encrypted \/ ~conf.cert)
        BY <2>5 DEF Required, RequireTlsForPassword
      <3> QED
        BY <1>1, <2>1, <3>1, <3>2, GoKeeps
    <2> QED
      BY <2>2, <2>3, <2>4, <2>5
  <1>6. ASSUME NEW kind \in {"right", "wrong", "other"}, Password(kind)
        PROVE  IInv'
    <2>1. phase = "password" /\ HasHash
      BY <1>6 DEF Password, IInv, HandshakeInv
    <2>2. CASE kind # "other" /\ Verify(kind)
      <3>1. Enter(kind = "right") /\ kind = "right"
        BY <1>6, <2>1, <2>2 DEF Password, Verify
      <3> QED
        BY <2>1, <3>1, EnterKeeps DEF Enter
    <2>3. CASE ~(kind # "other" /\ Verify(kind))
      <3> DEFINE why == IF kind = "right" THEN {"hash"} ELSE {"secret"}
      <3>1. Close(why) /\ why # {}
        BY <1>6, <2>3 DEF Password
      <3> QED
        BY <3>1, CloseKeeps
    <2> QED
      BY <2>2, <2>3
  <1>7. ASSUME NEW kind \in {"named", "unnamed", "mechanism", "malformed"}, SaslFirst(kind)
        PROVE  IInv'
    <2>1. conf.requireTls => encrypted
      BY <1>7 DEF SaslFirst, IInv, HandshakeInv
    <2> QED
      BY <1>1, <1>7, <2>1, GoKeeps, CloseKeeps DEF SaslFirst
  <1>8. ASSUME NEW m \in SaslFinals, SaslFinal(m)
        PROVE  IInv'
    <2>1. phase = "saslFinal"
      BY <1>8 DEF SaslFinal
    <2>2. CASE m.framed /\ Finish(m)
      <3>1. /\ Enter(m.secret = "right" /\ m.exchange = "this")
            /\ m.secret = "right" /\ m.exchange = "this"
        BY <1>8, <2>2, FinishVerifies DEF SaslFinal
      <3> QED
        BY <2>1, <3>1, EnterKeeps DEF Enter
    <2>3. CASE ~(m.framed /\ Finish(m))
      <3> DEFINE why == IF ~Honest(m) THEN {"secret"} ELSE IF ~m.framed THEN {"framing"} ELSE {}
      <3>1. Close(why)
        BY <1>8, <2>3 DEF SaslFinal
      <3>2. why # {}
        BY <2>3, FinishVerifies
      <3> QED
        BY <3>1, <3>2, CloseKeeps
    <2> QED
      BY <2>2, <2>3
  <1> QED
    BY <1>2, <1>3, <1>4, <1>5, <1>6, <1>7, <1>8 DEF Handshake

-----------------------------------------------------------------------------
(* The query loop.                                                         *)

LEMMA SendKeeps ==
    ASSUME IInv, NEW m, NEW wait, Send(m, wait)
    PROVE  IInv'
  <1> USE DEF IInv
  <1>1. /\ messages' = messages + 1 /\ shown' = ""
        /\ UNCHANGED <<conf, phase, encrypted, conn, inTxn, admitted, blame>>
    BY DEF Send
  <1>2. HandshakeInv' /\ TxnInv' /\ ShownInv'
    BY <1>1 DEF HandshakeInv, HasHash, FromFile, TxnInv, ShownInv
  <1>3. messages' \in Nat /\ messages' # 0
    <2>1. messages \in Nat
      BY DEF MessageInv
    <2>2. messages + 1 \in Nat /\ messages + 1 # 0
      BY <2>1
    <2> QED
      BY <1>1, <2>2
  <1>4. Admission'
    BY <1>1, <1>3 DEF Admission
  <1> QED
    BY <1>1, <1>2, <1>3, <1>4 DEF MessageInv

(* What a statement does to the transaction, whether it succeeds or fails. *)
(* `Change` is the transaction after it.                                   *)
Change(kind, c, ok, active, id, auto) ==
    \/ active = c.active /\ id = c.id /\ auto = c.auto
       /\ (kind = "begin" => ~ok) /\ (kind \in {"commit", "rollback"} => ~ok /\ ~c.active)
    \/ kind = "begin" /\ ~c.active /\ ok /\ active /\ id /\ ~auto
    \/ kind = "begin" /\ ~c.active /\ ~ok /\ ~active /\ ~id /\ ~auto
    \/ kind \in {"commit", "rollback"} /\ c.active /\ ok /\ ~active /\ ~id /\ ~auto
    \/ kind \in {"commit", "rollback"} /\ c.active /\ ~ok /\ ~id /\ ~auto
    \/ kind = "write" /\ (c.auto \/ ~c.active) /\ ok /\ ~active /\ ~id /\ ~auto
    \/ kind = "write" /\ (c.auto \/ ~c.active) /\ ~ok /\ active /\ auto

LEMMA RunSqlChanges ==
    ASSUME TxnInv, NEW sql, RunSql(sql)
    PROVE  \E ok \in BOOLEAN, active \in BOOLEAN, id \in BOOLEAN, auto \in BOOLEAN :
               /\ conn' = [conn EXCEPT !.active = active, !.id = id, !.auto = auto, !.inError = ~ok]
               /\ Change(Head(sql), conn, ok, active, id, auto)
  <1> DEFINE kind == Head(sql)
             Is(ok, active, id, auto) ==
               /\ conn' = [conn EXCEPT !.active = active, !.id = id, !.auto = auto, !.inError = ~ok]
               /\ Change(kind, conn, ok, active, id, auto)
  <1>1. conn.active \in BOOLEAN /\ conn.id \in BOOLEAN /\ conn.auto \in BOOLEAN
    BY DEF TxnInv
  <1>2. ASSUME NEW ok \in BOOLEAN, conn' = Same(conn, ok),
               kind = "begin" => ~ok, kind \in {"commit", "rollback"} => ~ok /\ ~conn.active
        PROVE  Is(ok, conn.active, conn.id, conn.auto)
    <2>1. conn' = [conn EXCEPT !.active = conn.active, !.id = conn.id, !.auto = conn.auto,
                               !.inError = ~ok]
      BY <1>2 DEF Same, TxnInv
    <2> QED
      BY <1>2, <2>1 DEF Change
  <1>3. conn' \in Outcomes(kind, conn)
    BY DEF RunSql
  <1> HIDE DEF kind
  <1>4. CASE kind = "begin"
    <2>1. conn' \in BeginOutcomes(conn)
      BY <1>3, <1>4 DEF Outcomes
    <2>2. CASE conn.active
      <3>1. conn' = Same(conn, FALSE)
        BY <2>1, <2>2 DEF BeginOutcomes
      <3>2. Is(FALSE, conn.active, conn.id, conn.auto)
        BY <1>2, <1>4, <3>1
      <3> QED
        BY <1>1, <3>2 DEF kind
    <2>3. CASE ~conn.active
      <3>1. Is(TRUE, TRUE, TRUE, FALSE) \/ Is(FALSE, FALSE, FALSE, FALSE)
        BY <1>4, <2>1, <2>3 DEF BeginOutcomes, Txn, Change
      <3> QED
        BY <3>1 DEF kind
    <2> QED
      BY <2>2, <2>3
  <1>5. CASE kind \in {"commit", "rollback"}
    <2>1. conn' \in EndOutcomes(conn) \cup UndoFails(conn)
      BY <1>3, <1>5 DEF Outcomes
    <2>2. CASE ~conn.active
      <3>1. conn' = Same(conn, FALSE)
        BY <2>1, <2>2 DEF EndOutcomes, UndoFails
      <3>2. Is(FALSE, conn.active, conn.id, conn.auto)
        BY <1>2, <2>2, <3>1
      <3> QED
        BY <1>1, <3>2 DEF kind
    <2>3. CASE conn.active
      <3>1. \/ conn' = Txn(conn, TRUE, FALSE, FALSE, FALSE)
            \/ conn' = Txn(conn, FALSE, TRUE, FALSE, FALSE)
            \/ conn' = Txn(conn, FALSE, FALSE, FALSE, FALSE)
        BY <2>1, <2>3 DEF EndOutcomes, UndoFails
      <3>2. \/ Is(TRUE, FALSE, FALSE, FALSE)
            \/ Is(FALSE, TRUE, FALSE, FALSE)
            \/ Is(FALSE, FALSE, FALSE, FALSE)
        BY <1>5, <2>3, <3>1 DEF Txn, Change
      <3> QED
        BY <3>2 DEF kind
    <2> QED
      BY <2>2, <2>3
  <1>6. CASE kind = "write"
    <2>1. conn' \in WriteOutcomes(conn)
      BY <1>3, <1>6 DEF Outcomes
    <2>2. CASE conn' \in {Same(conn, TRUE), Same(conn, FALSE)}
      <3>1. Is(TRUE, conn.active, conn.id, conn.auto) \/ Is(FALSE, conn.active, conn.id, conn.auto)
        BY <1>2, <1>6, <2>2
      <3> QED
        BY <1>1, <3>1 DEF kind
    <2>3. CASE conn' \notin {Same(conn, TRUE), Same(conn, FALSE)}
      <3>1. conn.auto \/ ~conn.active
        BY <1>1, <2>1, <2>3 DEF WriteOutcomes, TxnInv
      <3>2. \/ conn' = Txn(conn, TRUE, FALSE, FALSE, FALSE)
            \/ conn' = Txn(conn, FALSE, TRUE, TRUE, TRUE)
            \/ conn' = Txn(conn, FALSE, TRUE, FALSE, TRUE)
        BY <2>1, <2>3 DEF WriteOutcomes
      <3>3. \/ Is(TRUE, FALSE, FALSE, FALSE)
            \/ Is(FALSE, TRUE, TRUE, TRUE)
            \/ Is(FALSE, TRUE, FALSE, TRUE)
        BY <1>6, <3>1, <3>2 DEF Txn, Change
      <3> QED
        BY <3>3 DEF kind
    <2> QED
      BY <2>2, <2>3
  <1>7. CASE kind \notin {"begin", "commit", "rollback", "write"}
    <2>1. conn' \in {Same(conn, TRUE), Same(conn, FALSE)}
      BY <1>3, <1>7 DEF Outcomes
    <2>2. Is(TRUE, conn.active, conn.id, conn.auto) \/ Is(FALSE, conn.active, conn.id, conn.auto)
      BY <1>2, <1>7, <2>1
    <2> QED
      BY <1>1, <2>2 DEF kind
  <1> QED
    BY <1>4, <1>5, <1>6, <1>7

LEMMA RunSqlKeeps ==
    ASSUME TxnInv, NEW sql, RunSql(sql)
    PROVE  TxnInv'
  <1> DEFINE kind == Head(sql)
  <1>1. PICK ok \in BOOLEAN, active \in BOOLEAN, id \in BOOLEAN, auto \in BOOLEAN :
               /\ conn' = [conn EXCEPT !.active = active, !.id = id, !.auto = auto, !.inError = ~ok]
               /\ Change(kind, conn, ok, active, id, auto)
    BY RunSqlChanges
  <1>2. inTxn' = Told(kind, ~conn'.inError)
    BY DEF RunSql
  <1> HIDE DEF kind
  <1>3. /\ DOMAIN conn' = {"prepared", "params", "last", "inError", "active", "id", "auto"}
        /\ conn'.active = active /\ conn'.id = id /\ conn'.auto = auto /\ conn'.inError = ~ok
    BY <1>1 DEF TxnInv
  <1>4. inTxn' = Told(kind, ok)
    BY <1>2, <1>3
  <1>5. /\ inTxn' \in {"no", "yes", "unknown"}
        /\ inTxn' = "yes" => active /\ id /\ ~auto
        /\ active => inTxn' = "yes" \/ auto \/ ~id
        /\ auto \/ id => active
    BY <1>1, <1>4 DEF Told, Change, TxnInv
  <1> QED
    BY <1>3, <1>5 DEF TxnInv

LEMMA ServerStepKeeps ==
    ASSUME IInv, ServerStep
    PROVE  IInv'
  <1> USE DEF IInv
  <1>1. phase = "ready" /\ msg # <<>> /\ msg' = <<>> /\ messages # 0 /\ shown = ""
    BY DEF ServerStep, Query, Parse, Bind, Execute, Sync, Ignore, Terminate, Received, MessageInv
  <1>2. UNCHANGED <<conf, encrypted, messages, admitted, blame>> /\ phase' \in {"ready", "closed"}
    BY <1>1 DEF ServerStep, Query, Parse, Bind, Execute, Sync, Ignore, Terminate, Kept, history
  <1>3. HandshakeInv' /\ MessageInv' /\ Admission'
    <2>1. HandshakeInv'
      BY <1>1, <1>2 DEF HandshakeInv, HasHash, FromFile
    <2>2. MessageInv' /\ messages' # 0
      BY <1>1, <1>2 DEF MessageInv
    <2>3. Admission'
      BY <1>1, <1>2, <2>2 DEF Admission
    <2> QED
      BY <2>1, <2>2, <2>3
  <1>4. CASE Query
    <2>1. CASE msg.sql = <<>>
      BY <1>3, <1>4, <2>1 DEF Query, TxnInv, ShownInv
    <2>2. CASE msg.sql # <<>>
      <3>1. RunSql(msg.sql) /\ SendReady(conn')
        BY <1>4, <2>2 DEF Query
      <3>2. TxnInv'
        BY <3>1, RunSqlKeeps
      <3>3. ShownInv'
        BY <3>1, <3>2 DEF SendReady, ReadyStatus, ShownInv, TxnInv
      <3> QED
        BY <1>3, <3>2, <3>3
    <2> QED
      BY <2>1, <2>2
  <1>5. CASE Parse \/ Bind
    <2>1. shown' = "" /\ inTxn' = inTxn
      BY <1>1, <1>5 DEF Parse, Bind
    <2>2. /\ DOMAIN conn' = DOMAIN conn
          /\ conn'.active = conn.active /\ conn'.id = conn.id /\ conn'.auto = conn.auto
          /\ conn'.inError = conn.inError
      BY <1>5 DEF Parse, Bind, TxnInv
    <2> QED
      BY <1>3, <2>1, <2>2 DEF TxnInv, ShownInv
  <1>6. CASE Execute
    <2>1. shown' = ""
      BY <1>1, <1>6 DEF Execute
    <2>2. TxnInv'
      <3>1. CASE conn.last = <<>>
        BY <1>6, <3>1 DEF Execute, TxnInv
      <3>2. CASE conn.last # <<>>
        <4>1. RunSql(Substitute(conn.last, conn.params))
          BY <1>6, <3>2 DEF Execute
        <4> QED
          BY <4>1, RunSqlKeeps
      <3> QED
        BY <3>1, <3>2
    <2> QED
      BY <1>3, <2>1, <2>2 DEF ShownInv
  <1>7. CASE Sync
    <2>1. inTxn' = inTxn /\ conn' = [conn EXCEPT !.inError = FALSE] /\ SendReady(conn')
      BY <1>7 DEF Sync
    <2>2. /\ DOMAIN conn' = DOMAIN conn
          /\ conn'.active = conn.active /\ conn'.id = conn.id /\ conn'.auto = conn.auto
          /\ conn'.inError = FALSE
      BY <2>1 DEF TxnInv
    <2>3. TxnInv'
      BY <2>1, <2>2 DEF TxnInv
    <2>4. ShownInv'
      BY <2>1, <2>3 DEF SendReady, ReadyStatus, ShownInv, TxnInv
    <2> QED
      BY <1>3, <2>3, <2>4
  <1>8. CASE Ignore \/ Terminate
    <2>1. UNCHANGED <<conn, shown, inTxn>>
      BY <1>8 DEF Ignore, Terminate, client
    <2> QED
      BY <1>3, <2>1 DEF TxnInv, ShownInv
  <1> QED
    BY <1>4, <1>5, <1>6, <1>7, <1>8 DEF ServerStep

-----------------------------------------------------------------------------
(* Substitution.  A text is a sequence of tokens.                          *)

Tokens == STRING \cup {"'", "NULL", "$1"}
Texts == Seq(Tokens)

LEMMA FlattenStates ==
    ASSUME NEW n \in Nat, NEW f \in Seq(Texts), Len(f) = n
    PROVE  Joinable(f, n) /\ \E st : Joins(st, n, f) /\ st[n] = FlattenSeq(f)
  <1>1. \A i \in 1..n : f[i] \in Texts
    OBVIOUS
  <1>2. Joinable(f, n)
    BY <1>1, ConcatEmptySeq DEF Joinable, Texts
  <1>3. PICK st : Joins(st, n, f) /\ (n # 0 => st[n] = FlattenSeq(f))
    BY <1>2, JoinStates
  <1>4. n = 0 => FlattenSeq(f) = <<>> /\ st[n] = <<>>
    BY <1>3 DEF FlattenSeq, Joins
  <1> QED
    BY <1>2, <1>3, <1>4

(* The joins are texts.                                                    *)
LEMMA JoinsText ==
    ASSUME NEW n \in Nat, NEW f \in Seq(Texts), Len(f) = n, NEW st, Joins(st, n, f)
    PROVE  \A i \in 0..n : st[i] \in Texts
  <1> DEFINE good == {i \in 0..n : st[i] \in Texts}
  <1>1. 0 \in good
    <2>1. st[0] = <<>> /\ <<>> \in Texts
      BY EmptySeq DEF Joins, Texts
    <2> QED
      BY <2>1
  <1>2. ASSUME NEW i \in 0..(n - 1), i \in good
        PROVE  i + 1 \in good
    <2>1. i + 1 \in 1..n /\ (i + 1) - 1 = i /\ st[i] \in Texts
      BY <1>2
    <2>2. st[i + 1] = st[(i + 1) - 1] \o f[i + 1] /\ f[i + 1] \in Texts
      <3> HIDE DEF good
      <3>1. PICK j : j = i + 1
        OBVIOUS
      <3>2. j \in 1..n
        BY <2>1, <3>1
      <3>3. f[j] \in Texts
        BY <3>2
      <3>4. st[j] = st[j - 1] \o f[j]
        BY <3>2 DEF Joins
      <3> QED
        BY <3>1, <3>3, <3>4
    <2>3. st[i + 1] \in Texts
      BY <2>1, <2>2, ConcatProperties DEF Texts
    <2> QED
      BY <2>1, <2>3
  <1> HIDE DEF good
  <1>3. \A i \in 0..n : i \in good
    BY <1>1, <1>2, IndexInduction
  <1> QED
    BY <1>3 DEF good

LEMMA FlattenIs ==
    ASSUME NEW n \in Nat, NEW f \in Seq(Texts), Len(f) = n, NEW st, Joins(st, n, f)
    PROVE  FlattenSeq(f) = st[n] /\ FlattenSeq(f) \in Texts
  <1>1. Joinable(f, n)
    BY FlattenStates
  <1>2. FlattenSeq(f) = st[n]
    <2>1. CASE n = 0
      <3>1. FlattenSeq(f) = <<>> /\ st[n] = <<>>
        BY <2>1 DEF FlattenSeq, Joins
      <3> QED
        BY <3>1
    <2>2. CASE n # 0
      BY <1>1, <2>2, JoinIs
    <2> QED
      BY <2>1, <2>2
  <1> QED
    BY <1>2, JoinsText

(* A text is the join of its tokens.                                       *)
LEMMA FlattenTokens ==
    ASSUME NEW sql \in Texts
    PROVE  FlattenSeq([i \in DOMAIN sql |-> <<sql[i]>>]) = sql
  <1> DEFINE n == Len(sql)
             f == [i \in DOMAIN sql |-> <<sql[i]>>]
             st == [i \in 0..n |-> SubSeq(sql, 1, i)]
  <1>1. n \in Nat /\ DOMAIN sql = 1..n /\ \A i \in 1..n : sql[i] \in Tokens
    BY DEF Texts
  <1>2. \A i \in 1..n : <<sql[i]>> \in Texts
    BY <1>1 DEF Texts
  <1>3. f \in Seq(Texts) /\ Len(f) = n
    BY <1>1, <1>2
  <1>4. st[0] = <<>> /\ st[n] = sql
    BY <1>1 DEF Texts
  <1>5. ASSUME NEW i \in 1..n
        PROVE  st[i] = st[i - 1] \o f[i]
    <2>1. i - 1 \in 0..n /\ i \in 0..n /\ f[i] = <<sql[i]>>
      BY <1>1
    <2>2. SubSeq(sql, 1, i) = SubSeq(sql, 1, i - 1) \o <<sql[i]>>
      BY <1>1 DEF Texts
    <2> QED
      BY <2>1, <2>2
  <1>6. Joins(st, n, f)
    BY <1>4, <1>5 DEF Joins
  <1> HIDE DEF st, f, n
  <1>7. FlattenSeq(f) = st[n]
    BY <1>1, <1>3, <1>6, FlattenIs
  <1> QED
    BY <1>4, <1>7 DEF f

LEMMA FlattenOne ==
    ASSUME NEW t \in Texts
    PROVE  FlattenSeq(<<t>>) = t
  <1> DEFINE st == [i \in 0..1 |-> IF i = 0 THEN <<>> ELSE t]
  <1>1. <<t>> \in Seq(Texts) /\ Len(<<t>>) = 1
    OBVIOUS
  <1>2. <<>> \o t = t
    BY ConcatEmptySeq DEF Texts
  <1>3. st[0] = <<>> /\ st[1] = t
    OBVIOUS
  <1>4. Joins(st, 1, <<t>>)
    <2> HIDE DEF st
    <2>1. st[1] = st[1 - 1] \o <<t>>[1]
      <3>1. 1 - 1 = 0 /\ <<t>>[1] = t
        OBVIOUS
      <3> QED
        BY <1>2, <1>3, <3>1
    <2>2. \A i \in 1..1 : i = 1
      OBVIOUS
    <2> QED
      BY <1>3, <2>1, <2>2 DEF Joins
  <1> HIDE DEF st
  <1> QED
    BY <1>1, <1>3, <1>4, FlattenIs

Associates(a, b, c) == (a \o b) \o c = a \o (b \o c)

LEMMA TextsAssociate ==
    ASSUME NEW a \in Texts, NEW b \in Texts, NEW c \in Texts
    PROVE  Associates(a, b, c)
  <1>1. PICK T : T = Tokens
    OBVIOUS
  <1>2. a \in Seq(T) /\ b \in Seq(T) /\ c \in Seq(T)
    BY <1>1 DEF Texts
  <1>3. \A s, t, u \in Seq(T) : Associates(s, t, u)
    BY ConcatAssociative DEF Associates
  <1> QED
    BY ONLY <1>2, <1>3

LEMMA FlattenConcat ==
    ASSUME NEW f \in Seq(Texts), NEW g \in Seq(Texts)
    PROVE  FlattenSeq(f \o g) = FlattenSeq(f) \o FlattenSeq(g)
  <1>1. PICK m, n : m = Len(f) /\ n = Len(g) /\ m \in Nat /\ n \in Nat
    BY LenProperties
  <1>2. PICK sf : Joins(sf, m, f) /\ sf[m] = FlattenSeq(f)
    BY <1>1, FlattenStates
  <1>3. PICK sg : Joins(sg, n, g) /\ sg[n] = FlattenSeq(g)
    BY <1>1, FlattenStates
  <1>4. /\ \A i \in 0..m : sf[i] \in Texts
        /\ \A i \in 0..n : sg[i] \in Texts
    BY <1>1, <1>2, <1>3, JoinsText
  <1>5. PICK h : h = f \o g
    OBVIOUS
  <1>6. /\ h \in Seq(Texts) /\ Len(h) = m + n
        /\ \A i \in 1..(m + n) : h[i] = IF i <= m THEN f[i] ELSE g[i - m]
    BY <1>1, <1>5, ConcatProperties
  <1> DEFINE st == [i \in 0..(m + n) |-> IF i <= m THEN sf[i] ELSE sf[m] \o sg[i - m]]
  <1>7. st[0] = <<>>
    BY <1>1, <1>2 DEF Joins
  <1>8. ASSUME NEW i \in 1..(m + n)
        PROVE  st[i] = st[i - 1] \o h[i]
    <2>1. CASE i <= m
      <3>1. i \in 1..m /\ i - 1 <= m /\ i \in 0..(m + n) /\ i - 1 \in 0..(m + n)
        BY <1>1, <2>1
      <3>2. sf[i] = sf[i - 1] \o f[i]
        BY <1>2, <3>1 DEF Joins
      <3>3. st[i] = sf[i] /\ st[i - 1] = sf[i - 1] /\ h[i] = f[i]
        BY <1>6, <2>1, <3>1
      <3> QED
        BY <3>2, <3>3
    <2>2. CASE ~(i <= m)
      <3>1. PICK j : j = i - m
        OBVIOUS
      <3>2. j \in 1..n /\ i \in 0..(m + n) /\ i - 1 \in 0..(m + n) /\ j - 1 = (i - 1) - m
        BY <1>1, <2>2, <3>1
      <3>3. sg[j] = sg[j - 1] \o g[j]
        BY <1>3, <3>2 DEF Joins
      <3>4. st[i] = sf[m] \o sg[j] /\ h[i] = g[j]
        BY <1>6, <2>2, <3>1, <3>2
      <3>5. g[j] \in Texts /\ sg[j - 1] \in Texts /\ sf[m] \in Texts
        BY <1>1, <1>4, <3>2
      <3>6. st[i - 1] = sf[m] \o sg[j - 1]
        <4>1. CASE j = 1
          <5>1. i - 1 = m /\ sg[j - 1] = <<>>
            BY <1>1, <1>3, <3>1, <4>1 DEF Joins
          <5>2. st[i - 1] = sf[m]
            BY <3>2, <5>1
          <5> QED
            BY <3>5, <5>1, <5>2, ConcatEmptySeq DEF Texts
        <4>2. CASE j # 1
          <5>1. ~(i - 1 <= m)
            BY <1>1, <3>1, <3>2, <4>2
          <5> QED
            BY <3>2, <5>1
        <4> QED
          BY <4>1, <4>2
      <3>7. sf[m] \o (sg[j - 1] \o g[j]) = (sf[m] \o sg[j - 1]) \o g[j]
        <4>1. PICK a, b, c : a = sf[m] /\ b = sg[j - 1] /\ c = g[j]
          OBVIOUS
        <4>2. a \in Texts /\ b \in Texts /\ c \in Texts
          BY <3>5, <4>1
        <4>3. Associates(a, b, c)
          BY ONLY <4>2, TextsAssociate
        <4> QED
          BY <4>1, <4>3 DEF Associates
      <3> HIDE DEF st
      <3> QED
        BY <3>3, <3>4, <3>6, <3>7
    <2> QED
      BY <2>1, <2>2
  <1>9. Joins(st, m + n, h)
    BY <1>7, <1>8 DEF Joins
  <1>10. st[m + n] = sf[m] \o sg[n]
    <2>1. CASE n = 0
      <3>1. sg[n] = <<>> /\ sf[m] \in Texts /\ m + n = m
        BY <1>1, <1>3, <1>4, <2>1 DEF Joins
      <3>2. st[m + n] = sf[m]
        BY <1>1, <3>1
      <3> QED
        BY <3>1, <3>2, ConcatEmptySeq DEF Texts
    <2>2. CASE n # 0
      <3>1. m + n \in 0..(m + n) /\ ~(m + n <= m) /\ (m + n) - m = n
        BY <1>1, <2>2
      <3> QED
        BY <3>1
    <2> QED
      BY <2>1, <2>2
  <1> HIDE DEF st
  <1>11. m + n \in Nat
    BY <1>1
  <1>12. FlattenSeq(h) = st[m + n]
    BY <1>6, <1>9, <1>11, FlattenIs
  <1> QED
    BY <1>2, <1>3, <1>5, <1>10, <1>12

(* Replace token by token.                                                 *)
Pieces(sql, mark, with) == [i \in DOMAIN sql |-> IF sql[i] = mark THEN with ELSE <<sql[i]>>]

LEMMA PiecesType ==
    ASSUME NEW sql \in Texts, NEW mark, NEW with \in Texts
    PROVE  /\ Pieces(sql, mark, with) \in Seq(Texts) /\ Len(Pieces(sql, mark, with)) = Len(sql)
           /\ Replace(sql, mark, with) = FlattenSeq(Pieces(sql, mark, with))
  <1>1. PICK n : n = Len(sql) /\ n \in Nat /\ DOMAIN sql = 1..n /\ \A i \in 1..n : sql[i] \in Tokens
    BY DEF Texts
  <1>2. \A i \in 1..n : <<sql[i]>> \in Texts
    BY <1>1 DEF Texts
  <1>3. \A i \in 1..n : (IF sql[i] = mark THEN with ELSE <<sql[i]>>) \in Texts
    BY <1>2
  <1>4. Pieces(sql, mark, with) \in Seq(Texts) /\ Len(Pieces(sql, mark, with)) = n
    BY <1>1, <1>3 DEF Pieces
  <1> QED
    BY <1>1, <1>4 DEF Replace, Pieces

LEMMA ReplaceConcat ==
    ASSUME NEW s \in Texts, NEW t \in Texts, NEW mark, NEW with \in Texts
    PROVE  Replace(s \o t, mark, with) = Replace(s, mark, with) \o Replace(t, mark, with)
  <1>1. PICK f, g, m, n : /\ f = Pieces(s, mark, with) /\ g = Pieces(t, mark, with)
                          /\ m = Len(s) /\ n = Len(t)
    OBVIOUS
  <1>2. /\ f \in Seq(Texts) /\ g \in Seq(Texts) /\ Len(f) = m /\ Len(g) = n
        /\ Replace(s, mark, with) = FlattenSeq(f) /\ Replace(t, mark, with) = FlattenSeq(g)
    BY <1>1, PiecesType
  <1>3. m \in Nat /\ n \in Nat /\ DOMAIN s = 1..m /\ DOMAIN t = 1..n
    BY <1>1 DEF Texts
  <1>4. PICK u, h, k : u = s \o t /\ h = Pieces(u, mark, with) /\ k = f \o g
    OBVIOUS
  <1>5. /\ u \in Texts /\ Len(u) = m + n /\ DOMAIN u = 1..(m + n)
        /\ \A i \in 1..(m + n) : u[i] = IF i <= m THEN s[i] ELSE t[i - m]
    BY <1>1, <1>3, <1>4, ConcatProperties DEF Texts
  <1>6. /\ k \in Seq(Texts) /\ Len(k) = m + n
        /\ \A i \in 1..(m + n) : k[i] = IF i <= m THEN f[i] ELSE g[i - m]
    BY <1>2, <1>4, ConcatProperties
  <1>7. h \in Seq(Texts) /\ Len(h) = m + n /\ Replace(u, mark, with) = FlattenSeq(h)
    BY <1>4, <1>5, PiecesType
  <1>8. ASSUME NEW i \in 1..(m + n)
        PROVE  h[i] = k[i]
    <2>1. h[i] = IF u[i] = mark THEN with ELSE <<u[i]>>
      BY <1>4, <1>5 DEF Pieces
    <2>2. CASE i <= m
      <3>1. i \in 1..m
        BY <1>3, <2>2
      <3>2. f[i] = IF s[i] = mark THEN with ELSE <<s[i]>>
        BY <1>1, <1>3, <3>1 DEF Pieces
      <3> QED
        BY <1>5, <1>6, <2>1, <2>2, <3>2
    <2>3. CASE ~(i <= m)
      <3>1. i - m \in 1..n
        BY <1>3, <2>3
      <3>2. g[i - m] = IF t[i - m] = mark THEN with ELSE <<t[i - m]>>
        BY <1>1, <1>3, <3>1 DEF Pieces
      <3> QED
        BY <1>5, <1>6, <2>1, <2>3, <3>2
    <2> QED
      BY <2>2, <2>3
  <1>9. h = k
    BY <1>3, <1>6, <1>7, <1>8, SeqEqual
  <1> QED
    BY <1>2, <1>4, <1>7, <1>9, FlattenConcat

LEMMA ReplaceNone ==
    ASSUME NEW sql \in Texts, NEW mark, NEW with, ~Contains(sql, mark)
    PROVE  Replace(sql, mark, with) = sql
  <1>1. \A i \in DOMAIN sql : sql[i] # mark
    BY DEF Contains, Texts
  <1>2. [i \in DOMAIN sql |-> IF sql[i] = mark THEN with ELSE <<sql[i]>>] = [i \in DOMAIN sql |-> <<sql[i]>>]
    BY <1>1
  <1> QED
    BY <1>2, FlattenTokens DEF Replace

LEMMA ReplaceMark ==
    ASSUME NEW mark \in Tokens, NEW with \in Texts
    PROVE  Replace(<<mark>>, mark, with) = with
  <1>1. DOMAIN <<mark>> = 1..1 /\ <<mark>>[1] = mark
    OBVIOUS
  <1>2. Pieces(<<mark>>, mark, with) = <<with>>
    BY <1>1 DEF Pieces
  <1> QED
    BY <1>2, FlattenOne DEF Replace, Pieces

(* Replacing in a join is joining what was replaced.                       *)
LEMMA ReplaceFlatten ==
    ASSUME NEW n \in Nat, NEW f \in Seq(Texts), Len(f) = n, NEW g \in Seq(Texts), Len(g) = n,
           NEW mark, NEW with \in Texts, \A i \in 1..n : Replace(f[i], mark, with) = g[i]
    PROVE  Replace(FlattenSeq(f), mark, with) = FlattenSeq(g)
  <1>1. PICK sf : Joins(sf, n, f) /\ sf[n] = FlattenSeq(f)
    BY FlattenStates
  <1>2. \A i \in 0..n : sf[i] \in Texts
    BY <1>1, JoinsText
  <1> DEFINE st == [i \in 0..n |-> Replace(sf[i], mark, with)]
  <1>3. st[0] = <<>>
    <2>1. sf[0] = <<>> /\ <<>> \in Texts /\ ~Contains(<<>>, mark)
      BY <1>1, EmptySeq DEF Joins, Texts, Contains
    <2>2. Replace(<<>>, mark, with) = <<>>
      BY <2>1, ReplaceNone
    <2> QED
      BY <2>1, <2>2
  <1>4. ASSUME NEW i \in 1..n
        PROVE  st[i] = st[i - 1] \o g[i]
    <2>1. i - 1 \in 0..n /\ i \in 0..n
      OBVIOUS
    <2>2. sf[i] = sf[i - 1] \o f[i] /\ sf[i - 1] \in Texts
      BY <1>1, <1>2, <2>1 DEF Joins
    <2>3. f[i] \in Texts
      OBVIOUS
    <2>4. PICK x, y : x = sf[i - 1] /\ y = f[i]
      OBVIOUS
    <2>5. Replace(x \o y, mark, with) = Replace(x, mark, with) \o Replace(y, mark, with)
      <3>1. x \in Texts /\ y \in Texts
        BY <2>2, <2>3, <2>4
      <3> QED
        BY ONLY <3>1, with \in Texts, ReplaceConcat
    <2>6. st[i] = Replace(x \o y, mark, with) /\ st[i - 1] = Replace(x, mark, with)
      BY <2>1, <2>2, <2>4
    <2> HIDE DEF st
    <2> QED
      BY <2>4, <2>5, <2>6
  <1>5. Joins(st, n, g)
    BY <1>3, <1>4 DEF Joins
  <1>6. st[n] = Replace(FlattenSeq(f), mark, with)
    BY <1>1
  <1> HIDE DEF st
  <1> QED
    BY <1>5, <1>6, FlattenIs

FillAll(b, seq) == FoldLeft(Fill, b, seq)

(* A fold is the last of the states that it goes through.                  *)
Fills(st, n, seq, b, t) ==
    st[0] = b /\ (\A i \in 1..n : st[i] = Fill(st[i - 1], seq[i])) /\ st[n] = t

LEMMA FillStates ==
    ASSUME NEW n \in Nat, NEW seq, DOMAIN seq = 1..n, NEW b, NEW t, FillAll(b, seq) = t
    PROVE  \E st : Fills(st, n, seq, b, t)
  <1> DEFINE Eq(f, m) == f = [x \in SUBSET (1..m) |->
                                IF x = {} THEN b ELSE Fill(f[x \ {Max(x)}], seq[Max(x)])]
             good == {m \in 0..n : \E f : Eq(f, m)}
  <1>1. 0 \in good
    <2> DEFINE f == [x \in SUBSET (1..0) |-> b]
    <2>1. \A x \in SUBSET (1..0) : x = {}
      OBVIOUS
    <2>2. Eq(f, 0)
      BY <2>1
    <2> QED
      BY <2>2
  <1>2. ASSUME NEW m \in 0..(n - 1), m \in good
        PROVE  m + 1 \in good
    <2>1. PICK f : Eq(f, m)
      BY <1>2
    <2> DEFINE g == [x \in SUBSET (1..(m + 1)) |->
                        IF m + 1 \in x THEN Fill(f[x \ {m + 1}], seq[m + 1]) ELSE f[x]]
               h == [x \in SUBSET (1..(m + 1)) |->
                        IF x = {} THEN b ELSE Fill(g[x \ {Max(x)}], seq[Max(x)])]
    <2>2. ASSUME NEW x \in SUBSET (1..(m + 1))
          PROVE  g[x] = h[x]
      <3>1. CASE m + 1 \in x
        <4>1. Max(x) = m + 1
          BY <3>1, MaxIs
        <4>2. x \ {m + 1} \in SUBSET (1..(m + 1)) /\ m + 1 \notin x \ {m + 1} /\ x # {}
          BY <3>1
        <4>3. g[x \ {m + 1}] = f[x \ {m + 1}]
          BY <4>2
        <4> QED
          BY <3>1, <4>1, <4>2, <4>3
      <3>2. CASE m + 1 \notin x
        <4>1. x \in SUBSET (1..m)
          BY <3>2
        <4>2. g[x] = IF x = {} THEN b ELSE Fill(f[x \ {Max(x)}], seq[Max(x)])
          BY <2>1, <3>2, <4>1
        <4>3. x \ {Max(x)} \in SUBSET (1..(m + 1)) /\ m + 1 \notin x \ {Max(x)}
          BY <3>2
        <4>4. g[x \ {Max(x)}] = f[x \ {Max(x)}]
          BY <4>3
        <4> QED
          BY <4>2, <4>4
      <3> QED
        BY <3>1, <3>2
    <2>3. Eq(g, m + 1)
      <3>1. g = h
        BY <2>2
      <3> QED
        BY <3>1
    <2> HIDE DEF g
    <2>4. PICK ff : ff = g
      OBVIOUS
    <2>5. Eq(ff, m + 1)
      BY <2>3, <2>4
    <2>6. m + 1 \in 0..n
      OBVIOUS
    <2> QED
      BY <2>5, <2>6
  <1>3. n \in good
    <2> HIDE DEF good
    <2>1. \A i \in 0..n : i \in good
      BY <1>1, <1>2, IndexInduction
    <2> QED
      BY <2>1
  <1> DEFINE it == CHOOSE f : Eq(f, n)
  <1>4. Eq(it, n)
    BY <1>3
  <1>5. FillAll(b, seq) = it[1..n]
    BY DEF FillAll, FoldLeft, MapThenFoldSet
  <1> HIDE DEF it
  <1> DEFINE st == [i \in 0..n |-> it[1..i]]
  <1>6. st[0] = b
    BY <1>4
  <1>7. ASSUME NEW i \in 1..n
        PROVE  st[i] = Fill(st[i - 1], seq[i])
    <2>1. 1..i \in SUBSET (1..n) /\ i \in 1..i /\ (1..i) \ {i} = 1..(i - 1)
      OBVIOUS
    <2> HIDE DEF st
    <2>3. Max(1..i) = i
      BY <2>1, MaxIs
    <2> USE DEF st
    <2>2. it[1..i] = Fill(it[1..(i - 1)], seq[i])
      BY <1>4, <2>1, <2>3
    <2> QED
      BY <2>2
  <1>8. FillAll(b, seq) = st[n]
    BY <1>5
  <1> HIDE DEF st
  <1> QED
    BY <1>6, <1>7, <1>8 DEF Fills

FilledTwice(n, seq, b, t) ==
    /\ n = 0 => t = b
    /\ n = 1 => t = Fill(b, seq[1])
    /\ n = 2 => t = Fill(Fill(b, seq[1]), seq[2])

LEMMA FoldOfTwo ==
    ASSUME NEW n \in 0..2, NEW seq, DOMAIN seq = 1..n, NEW b, NEW t, FillAll(b, seq) = t
    PROVE  FilledTwice(n, seq, b, t)
  <1>1. FillAll(b, seq) = t
    OBVIOUS
  <1>2. n \in Nat /\ DOMAIN seq = 1..n
    OBVIOUS
  <1>3. \E st : Fills(st, n, seq, b, t)
    BY ONLY <1>1, <1>2, FillStates
  <1>4. PICK st : Fills(st, n, seq, b, t)
    BY <1>3
  <1>5. /\ n = 1 => 1 \in 1..n
        /\ n = 2 => 1 \in 1..n /\ 2 \in 1..n
        /\ 1 - 1 = 0 /\ 2 - 1 = 1
    OBVIOUS
  <1>6. /\ st[0] = b /\ st[n] = t
        /\ n \in {1, 2} => st[1] = Fill(st[0], seq[1])
        /\ n = 2 => st[2] = Fill(st[1], seq[2])
    BY <1>4, <1>5 DEF Fills
  <1> QED
    BY <1>6 DEF FilledTwice

(* What substitute_params replaces, one parameter after the other.         *)
LEMMA SubstituteIs ==
    ASSUME NEW sql, NEW params, NEW n \in 0..2, params \in Seq(Texts), Len(params) = n
    PROVE  /\ n = 0 => Substitute(sql, params) = sql
           /\ n = 1 => Substitute(sql, params) = Replace(sql, "$1", Replacement(params[1]))
           /\ n = 2 => Substitute(sql, params)
                          = Replace(Replace(sql, "$2", Replacement(params[2])), "$1", Replacement(params[1]))
  <1>1. PICK f, g : /\ f = [i \in DOMAIN params |-> [placeholder |-> Placeholders[i], value |-> params[i]]]
                    /\ g = Reverse(f)
    OBVIOUS
  <1>2. DOMAIN params = 1..n /\ Len(f) = n /\ DOMAIN g = 1..n
    BY <1>1 DEF Reverse
  <1>3. \A i \in 1..n : g[i] = f[(n - i) + 1]
    BY <1>1, <1>2 DEF Reverse
  <1>4. Substitute(sql, params) = FillAll(sql, g)
    BY <1>1 DEF Substitute, FillAll
  <1>5. /\ n \in {1, 2} => f[1] = [placeholder |-> "$1", value |-> params[1]]
        /\ n = 2 => f[2] = [placeholder |-> "$2", value |-> params[2]]
    BY <1>1, <1>2 DEF Placeholders
  <1>6. /\ n = 1 => g[1] = f[1]
        /\ n = 2 => g[1] = f[2] /\ g[2] = f[1]
    BY <1>3
  <1>7. /\ n = 0 => FillAll(sql, g) = sql
        /\ n = 1 => FillAll(sql, g) = Fill(sql, g[1])
        /\ n = 2 => FillAll(sql, g) = Fill(Fill(sql, g[1]), g[2])
    <2>1. PICK t : FillAll(sql, g) = t
      OBVIOUS
    <2>2. n \in 0..2 /\ DOMAIN g = 1..n
      BY <1>2
    <2>3. FilledTwice(n, g, sql, t)
      BY ONLY <2>1, <2>2, FoldOfTwo
    <2> QED
      BY <2>1, <2>3 DEF FilledTwice
  <1> QED
    BY <1>4, <1>5, <1>6, <1>7 DEF Fill

LEMMA ReplacementIs ==
    ASSUME NEW v \in Texts, ~Misread(v)
    PROVE  /\ Replacement(v) \in Texts /\ Literal(v) = Replacement(v)
           /\ ~Contains(v, "$1") => ~Contains(Replacement(v), "$1")
  <1>2. CASE v = None
    <2>1. Replacement(v) = <<"NULL">> /\ Literal(v) = <<"NULL">>
      BY <1>2 DEF Replacement, Literal
    <2>2. <<"NULL">> \in Texts
      BY DEF Texts, Tokens
    <2>3. ~Contains(<<"NULL">>, "$1")
      BY DEF Contains
    <2> QED
      BY <2>1, <2>2, <2>3
  <1>3. CASE v # None /\ Unquoted(v)
    <2>1. IsNumber(v) /\ v # <<"null">>
      BY <1>3 DEF Misread
    <2>2. Replacement(v) = v /\ Literal(v) = v
      BY <1>3, <2>1 DEF Replacement, Literal
    <2> QED
      BY <2>2
  <1>4. CASE v # None /\ ~Unquoted(v)
    <2>10. v # <<"null">> /\ ~Contains(v, "'")
      BY DEF Misread
    <2>11. ~IsNumber(v)
      <3>1. ASSUME NEW n \in Numbers, v = <<n>>
            PROVE  FALSE
        BY <1>4, <3>1, WireSessionAssumption DEF Unquoted
      <3> QED
        BY <3>1 DEF IsNumber
    <2>12. Replace(v, "'", <<"'", "'">>) = v
      <3>1. PICK mark, with : mark = "'" /\ with = <<"'", "'">>
        OBVIOUS
      <3>2. Replace(v, mark, with) = v
        BY <2>10, <3>1, ReplaceNone
      <3> QED
        BY <3>1, <3>2
    <2>1. Replacement(v) = <<"'">> \o v \o <<"'">>
      BY <1>4, <2>10 DEF Replacement, Quoted
    <2>13. Literal(v) = Replacement(v)
      BY <1>4, <2>1, <2>11, <2>12 DEF Literal, Quoted
    <2> DEFINE q == <<"'">>
    <2>4. PICK x, y : x = q \o v /\ y = x \o q
      OBVIOUS
    <2>0. q \in Seq(Tokens)
      BY DEF Tokens
    <2>5. Len(q) = 1 /\ q[1] = "'"
      OBVIOUS
    <2> HIDE DEF q
    <2>6. v \in Seq(Tokens) /\ Len(v) \in Nat
      BY DEF Texts
    <2>7. /\ x \in Seq(Tokens) /\ Len(x) = 1 + Len(v)
          /\ \A i \in 1..(1 + Len(v)) : x[i] = IF i <= 1 THEN q[i] ELSE v[i - 1]
      <3>1. /\ q \o v \in Seq(Tokens) /\ Len(q \o v) = Len(q) + Len(v)
            /\ \A i \in 1..(Len(q) + Len(v)) : (q \o v)[i] = IF i <= Len(q) THEN q[i] ELSE v[i - Len(q)]
        BY <2>0, <2>6, ConcatProperties
      <3> QED
        BY <2>4, <2>5, <3>1
    <2>8. /\ y \in Seq(Tokens) /\ Len(y) = Len(x) + 1
          /\ \A i \in 1..(Len(x) + 1) : y[i] = IF i <= Len(x) THEN x[i] ELSE q[i - Len(x)]
      <3>1. /\ x \o q \in Seq(Tokens) /\ Len(x \o q) = Len(x) + Len(q)
            /\ \A i \in 1..(Len(x) + Len(q)) : (x \o q)[i] = IF i <= Len(x) THEN x[i] ELSE q[i - Len(x)]
        BY <2>0, <2>7, ConcatProperties
      <3> QED
        BY <2>4, <2>5, <3>1
    <2>9. Replacement(v) = y
      BY <2>1, <2>4 DEF q
    <2>2. Replacement(v) \in Texts
      BY <2>8, <2>9 DEF Texts
    <2>3. \A i \in 1..Len(Replacement(v)) :
             Replacement(v)[i] = "'" \/ \E j \in 1..Len(v) : Replacement(v)[i] = v[j]
      <3> SUFFICES ASSUME NEW i \in 1..(Len(v) + 2)
                   PROVE  y[i] = "'" \/ \E j \in 1..Len(v) : y[i] = v[j]
        BY <2>6, <2>7, <2>8, <2>9
      <3>1. CASE i = 1 \/ i = Len(v) + 2
        BY <2>5, <2>6, <2>7, <2>8, <3>1
      <3>2. CASE ~(i = 1 \/ i = Len(v) + 2)
        <4>1. i - 1 \in 1..Len(v) /\ y[i] = v[i - 1]
          BY <2>6, <2>7, <2>8, <3>2
        <4> QED
          BY <4>1
      <3> QED
        BY <3>1, <3>2
    <2> QED
      BY <2>2, <2>3, <2>13 DEF Contains
  <1> QED
    BY <1>2, <1>3, <1>4

(* If the values do not read as something else, the text that is run is    *)
(* the one that was meant.                                                 *)
LEMMA SubstituteMeant ==
    ASSUME NEW sql \in Texts, NEW params \in Seq(Texts), Len(params) <= 2, ~Ambiguous(params)
    PROVE  Substitute(sql, params) = Meant(sql, params)
  <1>1. PICK n : n = Len(params) /\ n \in 0..2 /\ DOMAIN params = 1..n
    BY LenProperties
  <1>2. PICK m : m = Len(sql) /\ m \in Nat /\ DOMAIN sql = 1..m /\ \A i \in 1..m : sql[i] \in Tokens
    BY DEF Texts
  <1>3. \A i \in 1..n : params[i] \in Texts /\ ~Misread(params[i])
    BY <1>1 DEF Ambiguous
  <1> DEFINE M == [i \in DOMAIN sql |->
                     IF \E j \in DOMAIN params : sql[i] = Placeholders[j]
                     THEN Literal(params[CHOOSE j \in DOMAIN params : sql[i] = Placeholders[j]])
                     ELSE <<sql[i]>>]
  <1>4. Meant(sql, params) = FlattenSeq(M)
    BY DEF Meant
  <1>5. CASE n = 0
    <2>1. \A i \in 1..m : M[i] = <<sql[i]>>
      BY <1>1, <1>2, <1>5
    <2>2. M = [i \in DOMAIN sql |-> <<sql[i]>>]
      BY <1>2, <2>1
    <2>3. Substitute(sql, params) = sql
      BY <1>1, <1>5, SubstituteIs
    <2> QED
      BY <1>4, <2>2, <2>3, FlattenTokens
  <1>6. CASE n = 1
    <2>1. Substitute(sql, params) = Replace(sql, "$1", Replacement(params[1]))
      BY <1>1, <1>6, SubstituteIs
    <2>2. Literal(params[1]) = Replacement(params[1])
      BY <1>3, <1>6, ReplacementIs
    <2>3. \A j \in 1..n : j = 1 /\ Placeholders[j] = "$1"
      BY <1>6 DEF Placeholders
    <2>4. ASSUME NEW i \in 1..m
          PROVE  M[i] = IF sql[i] = "$1" THEN Replacement(params[1]) ELSE <<sql[i]>>
      <3>1. CASE sql[i] = "$1"
        <4>1. 1 \in DOMAIN params /\ sql[i] = Placeholders[1]
          BY <1>1, <1>6, <3>1 DEF Placeholders
        <4>2. (CHOOSE j \in DOMAIN params : sql[i] = Placeholders[j]) = 1
          BY <1>1, <2>3, <4>1
        <4> QED
          BY <1>2, <2>2, <3>1, <4>1, <4>2
      <3>2. CASE sql[i] # "$1"
        BY <1>1, <1>2, <2>3, <3>2
      <3> QED
        BY <3>1, <3>2
    <2>5. M = Pieces(sql, "$1", Replacement(params[1]))
      BY <1>2, <2>4 DEF Pieces
    <2> QED
      BY <1>4, <2>1, <2>5 DEF Replace, Pieces
  <1>7. CASE n = 2
    <2>1. PICK v, w : v = Replacement(params[1]) /\ w = Replacement(params[2])
      OBVIOUS
    <2>2. Substitute(sql, params) = Replace(Replace(sql, "$2", w), "$1", v)
      BY <1>1, <1>7, <2>1, SubstituteIs
    <2>3. /\ v \in Texts /\ w \in Texts
          /\ Literal(params[1]) = v /\ Literal(params[2]) = w
      BY <1>3, <1>7, <2>1, ReplacementIs
    <2>4. ~Contains(w, "$1")
      <3>1. 2 \in DOMAIN params /\ 1 \in 1..(2 - 1) /\ Placeholders[1] = "$1"
        BY <1>1, <1>7 DEF Placeholders
      <3>2. ~Contains(params[2], "$1")
        BY <3>1 DEF Ambiguous
      <3> QED
        BY <1>3, <1>7, <2>1, <3>2, ReplacementIs
    <2>5. /\ \A j \in 1..n : j = 1 \/ j = 2
          /\ Placeholders[1] = "$1" /\ Placeholders[2] = "$2"
      BY <1>7 DEF Placeholders
    <2>6. ASSUME NEW i \in 1..m
          PROVE  M[i] = IF sql[i] = "$1" THEN v ELSE IF sql[i] = "$2" THEN w ELSE <<sql[i]>>
      <3>1. CASE sql[i] = "$1"
        <4>1. 1 \in DOMAIN params /\ \A j \in DOMAIN params : sql[i] = Placeholders[j] <=> j = 1
          BY <1>1, <1>7, <2>5, <3>1
        <4>2. (CHOOSE j \in DOMAIN params : sql[i] = Placeholders[j]) = 1
          BY <4>1
        <4> QED
          BY <1>2, <2>3, <3>1, <4>1, <4>2
      <3>2. CASE sql[i] = "$2"
        <4>1. 2 \in DOMAIN params /\ \A j \in DOMAIN params : sql[i] = Placeholders[j] <=> j = 2
          BY <1>1, <1>7, <2>5, <3>2
        <4>2. (CHOOSE j \in DOMAIN params : sql[i] = Placeholders[j]) = 2
          BY <4>1
        <4> QED
          BY <1>2, <2>3, <3>2, <4>1, <4>2
      <3>3. CASE sql[i] # "$1" /\ sql[i] # "$2"
        BY <1>1, <1>2, <2>5, <3>3
      <3> QED
        BY <3>1, <3>2, <3>3
    <2>7. PICK f : f = Pieces(sql, "$2", w)
      OBVIOUS
    <2>8. f \in Seq(Texts) /\ Len(f) = m /\ Replace(sql, "$2", w) = FlattenSeq(f)
      BY <1>2, <2>3, <2>7, PiecesType
    <2>9. \A i \in 1..m : <<sql[i]>> \in Texts
      BY <1>2 DEF Texts
    <2> HIDE DEF M
    <2>10. M \in Seq(Texts) /\ Len(M) = m
      <3>1. \A i \in 1..m : M[i] \in Texts
        BY <2>3, <2>6, <2>9
      <3>2. M = [i \in 1..m |-> M[i]]
        BY <1>2 DEF M
      <3> QED
        BY <1>2, <3>1, <3>2
    <2>11. ASSUME NEW i \in 1..m
           PROVE  Replace(f[i], "$1", v) = M[i]
      <3>1. f[i] = IF sql[i] = "$2" THEN w ELSE <<sql[i]>>
        BY <1>2, <2>7 DEF Pieces
      <3>2. CASE sql[i] = "$2"
        <4>1. Replace(w, "$1", v) = w
          BY <2>3, <2>4, ReplaceNone
        <4> QED
          BY <2>6, <3>1, <3>2, <4>1
      <3>3. CASE sql[i] = "$1"
        <4>1. Replace(<<"$1">>, "$1", v) = v
          <5>1. PICK mark : mark = "$1" /\ mark \in Tokens
            BY DEF Tokens
          <5>2. Replace(<<mark>>, mark, v) = v
            BY <2>3, <5>1, ReplaceMark
          <5> QED
            BY <5>1, <5>2
        <4> QED
          BY <2>6, <3>1, <3>3, <4>1
      <3>4. CASE sql[i] # "$1" /\ sql[i] # "$2"
        <4>1. ~Contains(<<sql[i]>>, "$1")
          BY <3>4 DEF Contains
        <4>2. Replace(<<sql[i]>>, "$1", v) = <<sql[i]>>
          BY <2>9, <4>1, ReplaceNone
        <4> QED
          BY <2>6, <3>1, <3>4, <4>2
      <3> QED
        BY <3>2, <3>3, <3>4
    <2>12. Replace(FlattenSeq(f), "$1", v) = FlattenSeq(M)
      BY <1>2, <2>3, <2>8, <2>10, <2>11, ReplaceFlatten
    <2> QED
      BY <1>4, <2>2, <2>8, <2>12
  <1> QED
    BY <1>1, <1>5, <1>6, <1>7

(* No text, whatever the parameters, is no text.                           *)
LEMMA MeantOfNothing ==
    ASSUME NEW params
    PROVE  Meant(<<>>, params) = <<>>
  <1>1. PICK f : f = [i \in DOMAIN << >> |->
            IF \E j \in DOMAIN params : << >>[i] = Placeholders[j]
            THEN Literal(params[CHOOSE j \in DOMAIN params : << >>[i] = Placeholders[j]])
            ELSE << << >>[i] >>]
    OBVIOUS
  <1>2. f = << >>
    BY <1>1
  <1>3. FlattenSeq(<< >>) = << >>
    <2>1. << >> \in Seq(Texts) /\ Len(<< >>) = 0
      OBVIOUS
    <2> QED
      BY <2>1 DEF FlattenSeq
  <1> QED
    BY <1>1, <1>2, <1>3 DEF Meant

-----------------------------------------------------------------------------
(* What the session binds.                                                 *)

InFlight(type) == msg # <<>> /\ msg.type = type

(* What the client knows of its statements and portals.                    *)
ViewInv ==
    /\ DOMAIN view = {"stmts", "portals", "named"} /\ view.named \in BOOLEAN
    /\ \A n \in DOMAIN view.stmts : view.stmts[n] \in Texts

(* The server has every named statement of the client, but for one that is *)
(* on its way.                                                             *)
PreparedInv ==
    \A n \in DOMAIN view.stmts :
        n # "" /\ ~(InFlight("P") /\ msg.name = n) =>
            n \in DOMAIN conn.prepared /\ conn.prepared[n] = view.stmts[n]

(* And the unnamed one, until a Bind of a named statement takes its place. *)
LastInv ==
    "" \in DOMAIN view.stmts /\ ~view.named /\ ~(InFlight("P") /\ msg.name = "") =>
        conn.last = view.stmts[""]

(* A Parse in flight is the client's newest; a Bind in flight that is not  *)
(* odd is of a statement that the server has or will have.                 *)
ParseFlight ==
    InFlight("P") => /\ msg.name \in DOMAIN view.stmts /\ view.stmts[msg.name] = msg.sql
                     /\ msg.name = "" => odd # {} /\ ~view.named

PlainBind ==
    /\ msg.portal = "" /\ msg.name \in DOMAIN view.stmts /\ ~msg.formats
    /\ ~Ambiguous(msg.params) /\ (msg.name = "" => ~view.named)
    /\ "" \in DOMAIN view.portals
    /\ view.portals[""] = [sql |-> view.stmts[msg.name], params |-> msg.params]

BindFlight ==
    InFlight("B") => /\ msg \in Binds
                     /\ msg.name # "" => view.named
                     /\ odd = {} => PlainBind

ExecuteFlight == InFlight("E") /\ odd = {} => msg.portal = ""

(* Once a Bind that is not odd is handled, the session holds the unnamed   *)
(* portal.                                                                 *)
Holds(portal) ==
    /\ conn.last = portal.sql /\ conn.params = portal.params
    /\ conn.last \in Texts /\ conn.params \in Seq(Texts) /\ Len(conn.params) <= 2
    /\ ~Ambiguous(conn.params)

BoundInv ==
    odd = {} /\ ~InFlight("B") =>
        IF "" \in DOMAIN view.portals THEN Holds(view.portals[""]) ELSE conn.last = <<>>

SessionInv == PreparedInv /\ LastInv /\ ParseFlight /\ BindFlight /\ ExecuteFlight /\ BoundInv

BindInv == ViewInv /\ (phase # "closed" => SessionInv) /\ ExecutesWhatWasBound

(* What the session holds changes only with Parse and Bind.                *)
HeldSame == conn'.prepared = conn.prepared /\ conn'.params = conn.params /\ conn'.last = conn.last

LEMMA SameBound ==
    ASSUME BindInv, phase # "closed", UNCHANGED <<conn, msg, view, ran, odd>>
    PROVE  BindInv'
  <1>1. ViewInv' /\ ExecutesWhatWasBound'
    BY DEF BindInv, ViewInv, ExecutesWhatWasBound
  <1>2. InFlight("P")' = InFlight("P") /\ InFlight("B")' = InFlight("B") /\ InFlight("E")' = InFlight("E")
    BY DEF InFlight
  <1>3. PreparedInv' /\ LastInv'
    BY <1>2 DEF BindInv, SessionInv, PreparedInv, LastInv
  <1>4. ParseFlight' /\ BindFlight' /\ ExecuteFlight'
    BY <1>2 DEF BindInv, SessionInv, ParseFlight, BindFlight, PlainBind, ExecuteFlight
  <1>5. BoundInv'
    BY <1>2 DEF BindInv, SessionInv, BoundInv, Holds
  <1> QED
    BY <1>1, <1>3, <1>4, <1>5 DEF BindInv, SessionInv

(* A connection that ends leaves nothing to run.                           *)
LEMMA ClosedBound ==
    ASSUME BindInv, phase' = "closed", UNCHANGED <<view, ran>>
    PROVE  BindInv'
  BY DEF BindInv, ViewInv, ExecutesWhatWasBound

LEMMA HandshakeBound ==
    ASSUME BindInv, Handshake
    PROVE  BindInv'
  <1>1. phase # "closed"
    BY DEF Handshake, SslRequest, OtherCode, PlainStartup, Startup, Password, SaslFirst, SaslFinal
  <1>2. ASSUME NEW why, Close(why)
        PROVE  UNCHANGED <<conn, msg, view, ran, odd>>
    BY <1>2 DEF Close, client
  <1>3. ASSUME NEW to, Go(to)
        PROVE  UNCHANGED <<conn, msg, view, ran, odd>>
    BY <1>3 DEF Go, client
  <1>4. ASSUME NEW verified, Enter(verified)
        PROVE  UNCHANGED <<conn, msg, view, ran, odd>>
    BY <1>4 DEF Enter, client
  <1>5. \/ \E why : Close(why)
        \/ \E to : Go(to)
        \/ \E verified : Enter(verified)
    BY Zenon DEF Handshake, SslRequest, OtherCode, PlainStartup, Startup, Password, SaslFirst, SaslFinal
  <1>6. UNCHANGED <<conn, msg, view, ran, odd>>
    BY <1>2, <1>3, <1>4, <1>5
  <1> QED
    BY <1>1, <1>6, SameBound

(* A message that neither parses nor binds leaves what is held.            *)
LEMMA QuietBound ==
    ASSUME BindInv, phase = "ready", ~InFlight("P"), ~InFlight("B"), msg' = <<>>, HeldSame,
           UNCHANGED <<view, odd>>, ExecutesWhatWasBound'
    PROVE  BindInv'
  <1>1. SessionInv
    BY DEF BindInv
  <1>2. ~InFlight("P")' /\ ~InFlight("B")' /\ ~InFlight("E")'
    BY DEF InFlight
  <1>3. ViewInv'
    BY DEF BindInv, ViewInv
  <1>4. PreparedInv' /\ LastInv'
    BY <1>1, <1>2 DEF SessionInv, PreparedInv, LastInv, HeldSame
  <1>5. ParseFlight' /\ BindFlight' /\ ExecuteFlight'
    BY <1>2 DEF ParseFlight, BindFlight, ExecuteFlight
  <1>6. BoundInv'
    BY <1>1, <1>2 DEF SessionInv, BoundInv, Holds, HeldSame
  <1> QED
    BY <1>3, <1>4, <1>5, <1>6 DEF BindInv, SessionInv

LEMMA RunSqlHolds ==
    ASSUME TxnInv, NEW sql, RunSql(sql)
    PROVE  HeldSame
  <1>1. PICK ok \in BOOLEAN, active \in BOOLEAN, id \in BOOLEAN, auto \in BOOLEAN :
               /\ conn' = [conn EXCEPT !.active = active, !.id = id, !.auto = auto, !.inError = ~ok]
               /\ Change(Head(sql), conn, ok, active, id, auto)
    BY RunSqlChanges
  <1> QED
    BY <1>1 DEF TxnInv, HeldSame

(* Parse: what was in flight is now the server's too.                      *)
LEMMA ParseBound ==
    ASSUME BindInv, TxnInv, Parse
    PROVE  BindInv'
  <1>1. /\ phase = "ready" /\ InFlight("P") /\ ~InFlight("B") /\ msg' = <<>>
        /\ UNCHANGED <<phase, view, odd, ran>>
    BY DEF Parse, Received, InFlight, Kept
  <1>2. SessionInv
    BY <1>1 DEF BindInv
  <1>3. ~InFlight("P")' /\ ~InFlight("B")' /\ ~InFlight("E")'
    BY <1>1 DEF InFlight
  <1>4. ViewInv' /\ ExecutesWhatWasBound'
    BY <1>1 DEF BindInv, ViewInv, ExecutesWhatWasBound
  <1>5. ParseFlight' /\ BindFlight' /\ ExecuteFlight'
    BY <1>3 DEF ParseFlight, BindFlight, ExecuteFlight
  <1>6. msg.name \in DOMAIN view.stmts /\ view.stmts[msg.name] = msg.sql
    BY <1>1, <1>2 DEF SessionInv, ParseFlight
  <1>7. CASE msg.name = ""
    <2>1. conn'.last = msg.sql /\ conn'.prepared = conn.prepared
      BY <1>7 DEF Parse, TxnInv
    <2>2. odd # {}
      BY <1>1, <1>2, <1>7 DEF SessionInv, ParseFlight
    <2>3. PreparedInv' /\ LastInv'
      BY <1>1, <1>2, <1>3, <1>6, <1>7, <2>1 DEF SessionInv, PreparedInv, LastInv
    <2>4. BoundInv'
      BY <1>1, <2>2 DEF BoundInv
    <2> QED
      BY <1>4, <1>5, <2>3, <2>4 DEF BindInv, SessionInv
  <1>8. CASE msg.name # ""
    <2>1. /\ conn'.last = conn.last /\ conn'.params = conn.params
          /\ conn'.prepared = Put(conn.prepared, msg.name, msg.sql)
      BY <1>8 DEF Parse, TxnInv
    <2>2. PreparedInv'
      BY <1>1, <1>2, <1>3, <1>6, <2>1 DEF SessionInv, PreparedInv, Put
    <2>3. LastInv'
      BY <1>1, <1>2, <1>3, <1>8, <2>1 DEF SessionInv, LastInv
    <2>4. BoundInv'
      BY <1>1, <1>2, <1>3, <2>1 DEF SessionInv, BoundInv, Holds
    <2> QED
      BY <1>4, <1>5, <2>2, <2>3, <2>4 DEF BindInv, SessionInv
  <1> QED
    BY <1>7, <1>8

(* The values of a Bind message are texts, at most two.                    *)
LEMMA BindTexts ==
    ASSUME NEW b \in Binds
    PROVE  /\ b # <<>> /\ b.type = "B" /\ b.formats \in BOOLEAN
           /\ b.params \in Seq(Texts) /\ Len(b.params) <= 2
  <1>1. /\ b \in [type : {"B"}, portal : Portals, name : Names,
                   params : Seq(Seq(STRING)), formats : BOOLEAN]
        /\ Len(b.params) <= 2
    BY WireSessionAssumption
  <1>2. b.params \in Seq(Seq(STRING)) /\ b.type = "B" /\ b.formats \in BOOLEAN
    BY <1>1
  <1>3. b # <<>>
    <2>1. "type" \in DOMAIN b
      BY <1>1
    <2>2. DOMAIN << >> = {}
      OBVIOUS
    <2> QED
      BY <2>1, <2>2
  <1>4. Seq(STRING) \subseteq Texts
    BY DEF Texts, Tokens
  <1>5. b.params \in Seq(Texts)
    BY <1>2, <1>4
  <1> QED
    BY <1>1, <1>2, <1>3, <1>5

(* Bind: a Bind that is not odd makes the session hold its portal.         *)
LEMMA BindBound ==
    ASSUME BindInv, TxnInv, Bind
    PROVE  BindInv'
  <1>1. /\ phase = "ready" /\ ~InFlight("P") /\ InFlight("B") /\ msg' = <<>>
        /\ UNCHANGED <<phase, view, odd, ran>>
    BY DEF Bind, Received, InFlight, Kept
  <1>2. SessionInv
    BY <1>1 DEF BindInv
  <1>3. ~InFlight("P")' /\ ~InFlight("B")' /\ ~InFlight("E")'
    BY <1>1 DEF InFlight
  <1>4. ViewInv' /\ ExecutesWhatWasBound'
    BY <1>1 DEF BindInv, ViewInv, ExecutesWhatWasBound
  <1>5. ParseFlight' /\ BindFlight' /\ ExecuteFlight'
    BY <1>3 DEF ParseFlight, BindFlight, ExecuteFlight
  <1>6. /\ conn'.prepared = conn.prepared
        /\ conn'.params = IF msg.formats THEN <<>> ELSE msg.params
        /\ conn'.last = IF msg.name # "" /\ msg.name \in DOMAIN conn.prepared
                        THEN conn.prepared[msg.name] ELSE conn.last
    BY DEF Bind, TxnInv
  <1>7. msg \in Binds /\ (msg.name # "" => view.named) /\ (odd = {} => PlainBind)
    BY <1>1, <1>2 DEF SessionInv, BindFlight
  <1>8. PreparedInv' /\ LastInv'
    BY <1>1, <1>2, <1>3, <1>6, <1>7 DEF SessionInv, PreparedInv, LastInv
  <1>9. BoundInv'
    <2> SUFFICES ASSUME odd = {}
                 PROVE  "" \in DOMAIN view'.portals /\ Holds(view.portals[""])'
      BY <1>1 DEF BoundInv
    <2>1. PlainBind
      BY <1>7
    <2>2. conn'.last = view.stmts[msg.name]
      <3>1. CASE msg.name = ""
        BY <1>1, <1>2, <1>6, <2>1, <3>1 DEF SessionInv, LastInv, PlainBind
      <3>2. CASE msg.name # ""
        BY <1>1, <1>2, <1>6, <2>1, <3>2 DEF SessionInv, PreparedInv, PlainBind
      <3> QED
        BY <3>1, <3>2
    <2>3. conn'.params = msg.params
      BY <1>6, <2>1 DEF PlainBind
    <2>4. msg.params \in Seq(Texts) /\ Len(msg.params) <= 2
      BY <1>7, BindTexts
    <2>5. view.stmts[msg.name] \in Texts
      BY <2>1 DEF PlainBind, BindInv, ViewInv
    <2>6. /\ "" \in DOMAIN view.portals /\ ~Ambiguous(msg.params)
          /\ view.portals[""].sql = view.stmts[msg.name] /\ view.portals[""].params = msg.params
      <3>1. PICK s, p : s = view.stmts[msg.name] /\ p = msg.params
        OBVIOUS
      <3>2. view.portals[""] = [sql |-> s, params |-> p]
        BY <2>1, <3>1 DEF PlainBind
      <3>3. PICK r : r = view.portals[""]
        OBVIOUS
      <3>4. r.sql = s /\ r.params = p
        <4>1. r = [sql |-> s, params |-> p]
          BY <3>2, <3>3
        <4> QED
          BY ONLY <4>1
      <3>5. "" \in DOMAIN view.portals /\ ~Ambiguous(msg.params)
        BY <2>1 DEF PlainBind
      <3> QED
        BY <3>1, <3>3, <3>4, <3>5
    <2> QED
      BY <1>1, <2>2, <2>3, <2>4, <2>5, <2>6 DEF Holds, Ambiguous
  <1> QED
    BY <1>4, <1>5, <1>8, <1>9 DEF BindInv, SessionInv

(* Execute: what is held is what the portal means.                         *)
LEMMA ExecuteBound ==
    ASSUME BindInv, TxnInv, Execute
    PROVE  BindInv'
  <1>1. /\ phase = "ready" /\ ~InFlight("P") /\ ~InFlight("B") /\ InFlight("E") /\ msg' = <<>>
        /\ UNCHANGED <<phase, view, odd>>
    BY DEF Execute, Received, InFlight, Kept
  <1>2. SessionInv
    BY <1>1 DEF BindInv
  <1>3. HeldSame
    <2>1. CASE conn.last = <<>>
      BY <2>1 DEF Execute, HeldSame
    <2>2. CASE conn.last # <<>>
      <3>1. RunSql(Substitute(conn.last, conn.params))
        BY <2>2 DEF Execute
      <3> QED
        BY <3>1, RunSqlHolds
    <2> QED
      BY <2>1, <2>2
  <1>4. PICK got, want :
          /\ ran' = [got |-> got, want |-> want, odd |-> odd]
          /\ got = IF conn.last = <<>> THEN <<>> ELSE Substitute(conn.last, conn.params)
          /\ want = IF msg.portal \in DOMAIN view.portals
                    THEN Meant(view.portals[msg.portal].sql, view.portals[msg.portal].params)
                    ELSE <<>>
    BY DEF Execute
  <1>5. ASSUME odd = {}
        PROVE  got = want
    <2>1. msg.portal = ""
      BY <1>1, <1>2, <1>5 DEF SessionInv, ExecuteFlight
    <2>2. CASE "" \notin DOMAIN view.portals
      BY <1>1, <1>2, <1>4, <1>5, <2>1, <2>2 DEF SessionInv, BoundInv
    <2>3. CASE "" \in DOMAIN view.portals
      <3>1. PICK sql, params : sql = conn.last /\ params = conn.params
        OBVIOUS
      <3>2. Holds(view.portals[""])
        BY <1>1, <1>2, <1>5, <2>3 DEF SessionInv, BoundInv
      <3>3. /\ sql \in Texts /\ params \in Seq(Texts) /\ Len(params) <= 2 /\ ~Ambiguous(params)
            /\ view.portals[""].sql = sql /\ view.portals[""].params = params
        BY <3>1, <3>2 DEF Holds, Ambiguous
      <3>4. Substitute(sql, params) = Meant(sql, params)
        BY <3>3, SubstituteMeant
      <3>5. want = Meant(sql, params)
        BY <1>4, <2>1, <2>3, <3>3
      <3>6. CASE sql # <<>>
        BY <1>4, <3>1, <3>4, <3>5, <3>6
      <3>7. CASE sql = <<>>
        <4>1. Meant(sql, params) = <<>>
          BY <3>7, MeantOfNothing
        <4> QED
          BY <1>4, <3>1, <3>5, <3>7, <4>1
      <3> QED
        BY <3>6, <3>7
    <2> QED
      BY <2>2, <2>3
  <1>6. ExecutesWhatWasBound'
    BY <1>4, <1>5 DEF ExecutesWhatWasBound
  <1> QED
    BY <1>1, <1>3, <1>6, QuietBound

LEMMA ServerStepBound ==
    ASSUME BindInv, TxnInv, ServerStep
    PROVE  BindInv'
  <1>1. CASE Query
    <2>1. /\ phase = "ready" /\ ~InFlight("P") /\ ~InFlight("B") /\ msg' = <<>>
          /\ UNCHANGED <<phase, view, odd, ran>>
      BY <1>1 DEF Query, Received, InFlight, Kept
    <2>2. HeldSame
      <3>1. CASE msg.sql = <<>>
        BY <1>1, <3>1 DEF Query, HeldSame
      <3>2. CASE msg.sql # <<>>
        BY <1>1, <3>2, RunSqlHolds DEF Query
      <3> QED
        BY <3>1, <3>2
    <2>3. ExecutesWhatWasBound'
      BY <2>1 DEF BindInv, ExecutesWhatWasBound
    <2> QED
      BY <2>1, <2>2, <2>3, QuietBound
  <1>2. CASE Sync \/ Ignore
    <2>1. /\ phase = "ready" /\ ~InFlight("P") /\ ~InFlight("B") /\ msg' = <<>>
          /\ UNCHANGED <<phase, view, odd, ran>>
      BY <1>2 DEF Sync, Ignore, Received, InFlight, Kept, client
    <2>2. HeldSame
      BY <1>2 DEF Sync, Ignore, HeldSame, TxnInv
    <2>3. ExecutesWhatWasBound'
      BY <2>1 DEF BindInv, ExecutesWhatWasBound
    <2> QED
      BY <2>1, <2>2, <2>3, QuietBound
  <1>3. CASE Terminate
    BY <1>3, ClosedBound DEF Terminate, client, history
  <1> QED
    BY <1>1, <1>2, <1>3, ParseBound, BindBound, ExecuteBound DEF ServerStep

(* The client sends a message that changes neither its view nor its habits *)
(* or an Execute.                                                          *)
LEMMA SendBound ==
    ASSUME BindInv, NEW m, NEW wait, Send(m, wait), m.type \notin {"P", "B"},
           view' = view, odd' = odd \/ odd' # {},
           m.type = "E" /\ odd' = {} => m.portal = ""
    PROVE  BindInv'
  <1>1. phase = "ready" /\ msg = <<>> /\ msg' = m /\ conn' = conn /\ phase' = phase /\ ran' = <<>>
    BY DEF Send
  <1>2. SessionInv
    BY <1>1 DEF BindInv
  <1>3. /\ ~InFlight("P") /\ ~InFlight("B")
        /\ ~InFlight("P")' /\ ~InFlight("B")' /\ (InFlight("E")' => m.type = "E")
    BY <1>1 DEF InFlight
  <1>4. ViewInv' /\ ExecutesWhatWasBound'
    BY <1>1 DEF BindInv, ViewInv, ExecutesWhatWasBound
  <1>5. PreparedInv' /\ LastInv'
    BY <1>1, <1>2, <1>3 DEF SessionInv, PreparedInv, LastInv
  <1>6. ParseFlight' /\ BindFlight' /\ ExecuteFlight'
    BY <1>1, <1>3 DEF ParseFlight, BindFlight, ExecuteFlight
  <1>7. BoundInv'
    BY <1>1, <1>2, <1>3 DEF SessionInv, BoundInv, Holds
  <1> QED
    BY <1>4, <1>5, <1>6, <1>7 DEF BindInv, SessionInv

LEMMA SendParseBound ==
    ASSUME BindInv, NEW name \in Names, NEW sql \in Prepared, SendParse(name, sql)
    PROVE  BindInv'
  <1>1. /\ phase = "ready" /\ msg = <<>> /\ conn' = conn /\ phase' = phase /\ ran' = <<>>
        /\ msg' = [type |-> "P", name |-> name, sql |-> sql]
    BY DEF SendParse, Send
  <1>2. SessionInv /\ ViewInv
    BY <1>1 DEF BindInv
  <1>3. ~InFlight("P") /\ ~InFlight("B")
    BY <1>1 DEF InFlight
  <1>4. /\ msg'.type = "P" /\ msg'.name = name /\ msg'.sql = sql
        /\ InFlight("P")' /\ ~InFlight("B")' /\ ~InFlight("E")'
    BY <1>1 DEF InFlight
  <1>5. /\ DOMAIN view' = DOMAIN view /\ view'.portals = view.portals
        /\ view'.stmts = Put(view.stmts, name, sql)
        /\ view'.named = (view.named /\ name # "")
    BY <1>2 DEF SendParse, ViewInv
  <1>6. /\ DOMAIN view'.stmts = DOMAIN view.stmts \cup {name}
        /\ view'.stmts[name] = sql
        /\ \A n \in DOMAIN view.stmts : n # name => view'.stmts[n] = view.stmts[n]
    BY <1>5 DEF Put
  <1>7. sql \in Texts
    <2>1. sql \in Seq(STRING)
      BY WireSessionAssumption
    <2> QED
      BY <2>1 DEF Texts, Tokens
  <1>8. ViewInv'
    <2>1. view'.named \in BOOLEAN
      BY <1>2, <1>5 DEF ViewInv
    <2>2. \A n \in DOMAIN view'.stmts : view'.stmts[n] \in Texts
      BY <1>2, <1>6, <1>7 DEF ViewInv
    <2> QED
      BY <1>2, <1>5, <2>1, <2>2 DEF ViewInv
  <1>9. ExecutesWhatWasBound'
    BY <1>1 DEF ExecutesWhatWasBound
  <1>10. PreparedInv'
    BY <1>1, <1>2, <1>3, <1>4, <1>6 DEF SessionInv, PreparedInv
  <1>11. LastInv'
    BY <1>1, <1>2, <1>3, <1>4, <1>5, <1>6 DEF SessionInv, LastInv
  <1>12. odd' = IF name = "" THEN odd \cup {"reparse"} ELSE odd
    BY DEF SendParse
  <1>13. ParseFlight' /\ BindFlight' /\ ExecuteFlight'
    BY <1>4, <1>5, <1>6, <1>12 DEF ParseFlight, BindFlight, ExecuteFlight
  <1>14. BoundInv'
    <2>1. CASE name = ""
      <3>1. odd' # {}
        BY <1>12, <2>1
      <3> QED
        BY <3>1 DEF BoundInv
    <2>2. CASE name # ""
      BY <1>1, <1>2, <1>3, <1>5, <1>12, <2>2 DEF SessionInv, BoundInv, Holds
    <2> QED
      BY <2>1, <2>2
  <1> QED
    BY <1>8, <1>9, <1>10, <1>11, <1>13, <1>14 DEF BindInv, SessionInv

LEMMA SendBindBound ==
    ASSUME BindInv, NEW b \in Binds, SendBind(b)
    PROVE  BindInv'
  <1> DEFINE known == b.name \in DOMAIN view.stmts
             portal == [sql |-> view.stmts[b.name], params |-> b.params]
  <1>1. /\ phase = "ready" /\ msg = <<>> /\ conn' = conn /\ phase' = phase /\ ran' = <<>>
        /\ msg' = b
    BY DEF SendBind, Send
  <1>2. SessionInv /\ ViewInv
    BY <1>1 DEF BindInv
  <1>3. ~InFlight("P") /\ ~InFlight("B")
    BY <1>1 DEF InFlight
  <1>4. InFlight("B")' /\ ~InFlight("P")' /\ ~InFlight("E")'
    BY <1>1, BindTexts DEF InFlight
  <1>5. /\ DOMAIN view' = DOMAIN view /\ view'.stmts = view.stmts
        /\ known => view'.portals = Put(view.portals, b.portal, portal)
        /\ view'.named = (view.named \/ b.name # "")
    BY <1>2 DEF SendBind, ViewInv
  <1>6. ViewInv'
    <2>1. view'.named \in BOOLEAN
      BY <1>2, <1>5 DEF ViewInv
    <2> QED
      BY <1>2, <1>5, <2>1 DEF ViewInv
  <1>7. ExecutesWhatWasBound'
    BY <1>1 DEF ExecutesWhatWasBound
  <1>8. PreparedInv' /\ LastInv'
    BY <1>1, <1>2, <1>3, <1>5 DEF SessionInv, PreparedInv, LastInv
  <1>9. ASSUME odd' = {}
        PROVE  /\ b.portal = "" /\ known /\ ~b.formats /\ ~Ambiguous(b.params)
               /\ (b.name = "" => ~view.named)
    <2>1. odd' = (IF b.portal # "" THEN {"portal"} ELSE {})
                 \cup (IF known THEN {} ELSE {"unknown"})
                 \cup (IF b.formats THEN {"formats"} ELSE {})
                 \cup (IF b.name = "" /\ view.named THEN {"rebind"} ELSE {})
                 \cup (IF Ambiguous(b.params) THEN {"value"} ELSE {})
      BY DEF SendBind
    <2> QED
      BY <1>9, <2>1
  <1>10. odd' = {} => PlainBind'
    <2> SUFFICES ASSUME odd' = {}
                 PROVE  PlainBind'
      OBVIOUS
    <2>1. /\ b.portal = "" /\ known /\ ~b.formats /\ ~Ambiguous(b.params)
          /\ (b.name = "" => ~view.named)
      BY <1>9
    <2>2. "" \in DOMAIN view'.portals /\ view'.portals[""] = portal
      BY <1>5, <2>1 DEF Put
    <2>3. ~Ambiguous(msg.params)'
      BY <1>1, <2>1 DEF Ambiguous
    <2>4. b.name = "" => ~view'.named
      BY <1>5, <2>1
    <2> QED
      BY <1>1, <1>5, <2>1, <2>2, <2>3, <2>4 DEF PlainBind
  <1>11. ParseFlight' /\ BindFlight' /\ ExecuteFlight'
    BY <1>1, <1>4, <1>5, <1>10 DEF ParseFlight, BindFlight, ExecuteFlight
  <1>12. BoundInv'
    BY <1>4 DEF BoundInv
  <1> QED
    BY <1>6, <1>7, <1>8, <1>11, <1>12 DEF BindInv, SessionInv

LEMMA ClientStepBound ==
    ASSUME BindInv, ClientStep
    PROVE  BindInv'
  <1>1. ASSUME NEW sql, SendQuery(sql)
        PROVE  BindInv'
    BY <1>1, SendBound DEF SendQuery
  <1>2. ASSUME SendSync
        PROVE  BindInv'
    BY <1>2, SendBound DEF SendSync
  <1>3. ASSUME NEW type \in {"X", "D"}, SendOther(type)
        PROVE  BindInv'
    BY <1>3, SendBound DEF SendOther
  <1>4. ASSUME NEW portal \in Portals, SendExecute(portal)
        PROVE  BindInv'
    <2>1. PICK m : m = [type |-> "E", portal |-> portal]
      OBVIOUS
    <2>2. Send(m, FALSE) /\ view' = view /\ odd' = IF portal # "" THEN odd \cup {"portal"} ELSE odd
      BY <1>4, <2>1 DEF SendExecute
    <2>3. m.type \notin {"P", "B"} /\ m.portal = portal
      BY <2>1
    <2>4. (odd' = odd \/ odd' # {}) /\ (odd' = {} => portal = "")
      BY <2>2
    <2> QED
      BY <2>2, <2>3, <2>4, SendBound
  <1> QED
    BY <1>1, <1>2, <1>3, <1>4, SendParseBound, SendBindBound DEF ClientStep

-----------------------------------------------------------------------------
LEMMA InitHolds == Init => IInv
  <1> SUFFICES ASSUME Init
               PROVE  IInv
    OBVIOUS
  <1>1. HandshakeInv
    BY DEF Init, HandshakeInv
  <1>2. MessageInv /\ ShownInv /\ Admission
    BY DEF Init, MessageInv, ShownInv, Admission
  <1>3. TxnInv
    BY DEF Init, TxnInv, NewConn
  <1> QED
    BY <1>1, <1>2, <1>3 DEF IInv

LEMMA StepKeeps == IInv /\ [Next]_vars => IInv'
  <1> SUFFICES ASSUME IInv, [Next]_vars
               PROVE  IInv'
    OBVIOUS
  <1>1. CASE UNCHANGED vars
    BY <1>1 DEF vars, client, history, IInv, HandshakeInv, HasHash, FromFile, MessageInv, TxnInv,
                ShownInv, Admission
  <1>2. CASE Handshake
    BY <1>2, HandshakeKeeps
  <1>3. CASE ClientStep
    <2>1. \E m, wait : Send(m, wait)
      BY <1>3 DEF ClientStep, SendQuery, SendSync, SendOther, SendParse, SendBind, SendExecute
    <2> QED
      BY <2>1, SendKeeps
  <1>4. CASE ServerStep
    BY <1>4, ServerStepKeeps
  <1>5. CASE Disconnect
    <2>1. /\ phase' = "closed" /\ msg' = <<>> /\ blame' # {}
          /\ UNCHANGED <<conf, encrypted, conn, messages, shown, inTxn, admitted>>
      BY <1>5 DEF Disconnect, client
    <2> QED
      BY <2>1 DEF IInv, HandshakeInv, MessageInv, TxnInv, ShownInv, Admission
  <1> QED
    BY <1>1, <1>2, <1>3, <1>4, <1>5 DEF Next

LEMMA Invariant == Spec => []IInv
  BY InitHolds, StepKeeps, PTL DEF Spec

(* Nobody gets to the query loop without the password that is configured,  *)
(* shown in this very exchange, or in the clear where require_tls is set;  *)
(* and nobody is turned away without a reason of its own (protocol.rs      *)
(* negotiate_stream and run_session, auth.rs, scram.rs).  The exception,   *)
(* in Enter: where a SCRAM secret that does not parse is all that is       *)
(* configured (auth.rs from_config_and_env drops it), everybody gets in.   *)
THEOREM AdmissionHolds == Spec => []Admission
  <1>1. IInv => Admission
    BY DEF IInv
  <1> QED
    BY <1>1, Invariant, PTL

(* The status byte of ReadyForQuery agrees with the session's transaction  *)
(* and with what the client's BEGINs, COMMITs and ROLLBACKs were answered, *)
(* through failures, those of COMMIT and ROLLBACK too, implicit            *)
(* transactions and pipelines (session.rs ready_status, protocol.rs        *)
(* run_sql, executor.rs execute).                                          *)
THEOREM StatusStaysTruthful == Spec => []StatusTruthful
  <1>1. IInv => StatusTruthful
    BY DEF IInv, TxnInv, ShownInv, StatusTruthful
  <1> QED
    BY <1>1, Invariant, PTL

LEMMA InitBound == Init => BindInv
  <1> SUFFICES ASSUME Init
               PROVE  BindInv
    OBVIOUS
  <1>1. ~InFlight("P") /\ ~InFlight("B") /\ ~InFlight("E")
    BY DEF Init, InFlight
  <1>2. /\ DOMAIN view = {"stmts", "portals", "named"} /\ view.named = FALSE
        /\ DOMAIN view.stmts = {} /\ DOMAIN view.portals = {} /\ conn.last = <<>>
    <2>1. DOMAIN << >> = {}
      OBVIOUS
    <2>2. view.stmts = << >> /\ view.portals = << >> /\ conn.last = << >>
      BY DEF Init, NewConn
    <2>3. DOMAIN view = {"stmts", "portals", "named"} /\ view.named = FALSE
      BY DEF Init
    <2> QED
      BY <2>1, <2>2, <2>3
  <1>3. ViewInv /\ ExecutesWhatWasBound
    <2>1. ran = << >>
      BY DEF Init
    <2> QED
      BY <1>2, <2>1 DEF ViewInv, ExecutesWhatWasBound
  <1>4. SessionInv
    BY <1>1, <1>2 DEF SessionInv, PreparedInv, LastInv, ParseFlight, BindFlight, ExecuteFlight, BoundInv
  <1> QED
    BY <1>3, <1>4 DEF BindInv

LEMMA StepBound == IInv /\ BindInv /\ [Next]_vars => BindInv'
  <1> SUFFICES ASSUME IInv, BindInv, [Next]_vars
               PROVE  BindInv'
    OBVIOUS
  <1>1. TxnInv
    BY DEF IInv
  <1>2. CASE UNCHANGED vars
    <2>1. UNCHANGED <<phase, conn, msg, view, ran, odd>>
      BY <1>2 DEF vars, client, history
    <2> QED
      BY <2>1, SameBound, ClosedBound
  <1>3. CASE Handshake
    BY <1>3, HandshakeBound
  <1>4. CASE ClientStep
    BY <1>4, ClientStepBound
  <1>5. CASE ServerStep
    BY <1>1, <1>5, ServerStepBound
  <1>6. CASE Disconnect
    BY <1>6, ClosedBound DEF Disconnect, client
  <1> QED
    BY <1>2, <1>3, <1>4, <1>5, <1>6 DEF Next

(* Through every order of Parse, Bind and Execute, named and unnamed       *)
(* statements, with the next message sent at once: what Execute runs is    *)
(* the statement of the portal with each placeholder the literal of its    *)
(* value, so the substitution that goes through the SQL once for each      *)
(* parameter replaces nothing twice (query_util.rs substitute_params,      *)
(* protocol.rs handle_parse, handle_bind, handle_execute).  The exceptions *)
(* are those that ExecutesWhatWasBound names, the values that the          *)
(* substitution lets read as something else (Misread) among them.          *)
THEOREM ExecuteRunsWhatWasBound == Spec => []ExecutesWhatWasBound
  <1>1. BindInv => ExecutesWhatWasBound
    BY DEF BindInv
  <1> QED
    BY <1>1, InitBound, StepBound, Invariant, PTL DEF Spec

-----------------------------------------------------------------------------
(* Queries: the folds.                                                     *)

(* One more element at the end.                                            *)
LEMMA AppendIs ==
    ASSUME NEW T, NEW s \in Seq(T), NEW x \in T
    PROVE  /\ Append(s, x) \in Seq(T) /\ Len(Append(s, x)) = Len(s) + 1
           /\ Range(Append(s, x)) = Range(s) \cup {x}
           /\ IsInjective(s) /\ x \notin Range(s) => IsInjective(Append(s, x))
  <1>1. PICK n, a : n = Len(s) /\ a = Append(s, x)
    OBVIOUS
  <1>2. /\ a \in Seq(T) /\ n \in Nat /\ Len(a) = n + 1 /\ DOMAIN a = 1..(n + 1) /\ DOMAIN s = 1..n
        /\ a[n + 1] = x /\ \A i \in 1..n : a[i] = s[i]
    BY <1>1
  <1>3. Range(a) = Range(s) \cup {x}
    BY <1>2 DEF Range
  <1>4. IsInjective(s) /\ x \notin Range(s) => IsInjective(a)
    BY <1>2 DEF IsInjective, Range
  <1> QED
    BY <1>1, <1>2, <1>3, <1>4

(* A filter is the last of the sequences that it goes through.            *)
KeepAll(b, seq, set) == FoldLeft(LAMBDA x, y : Keep(x, y, set), b, seq)

Keeps(st, n, seq, b, set, t) ==
    st[0] = b /\ (\A i \in 1..n : st[i] = Keep(st[i - 1], seq[i], set)) /\ st[n] = t

LEMMA KeepStates ==
    ASSUME NEW n \in Nat, NEW seq, DOMAIN seq = 1..n, NEW b, NEW set, NEW t, KeepAll(b, seq, set) = t
    PROVE  \E st : Keeps(st, n, seq, b, set, t)
  <1> DEFINE Eq(f, m) == f = [x \in SUBSET (1..m) |->
                                IF x = {} THEN b ELSE Keep(f[x \ {Max(x)}], seq[Max(x)], set)]
             good == {m \in 0..n : \E f : Eq(f, m)}
  <1>1. 0 \in good
    <2> DEFINE f == [x \in SUBSET (1..0) |-> b]
    <2>1. \A x \in SUBSET (1..0) : x = {}
      OBVIOUS
    <2>2. Eq(f, 0)
      BY <2>1
    <2> QED
      BY <2>2
  <1>2. ASSUME NEW m \in 0..(n - 1), m \in good
        PROVE  m + 1 \in good
    <2>1. PICK f : Eq(f, m)
      BY <1>2
    <2> DEFINE g == [x \in SUBSET (1..(m + 1)) |->
                        IF m + 1 \in x THEN Keep(f[x \ {m + 1}], seq[m + 1], set) ELSE f[x]]
               h == [x \in SUBSET (1..(m + 1)) |->
                        IF x = {} THEN b ELSE Keep(g[x \ {Max(x)}], seq[Max(x)], set)]
    <2>2. ASSUME NEW x \in SUBSET (1..(m + 1))
          PROVE  g[x] = h[x]
      <3>1. CASE m + 1 \in x
        <4>1. Max(x) = m + 1
          BY <3>1, MaxIs
        <4>2. x \ {m + 1} \in SUBSET (1..(m + 1)) /\ m + 1 \notin x \ {m + 1} /\ x # {}
          BY <3>1
        <4>3. g[x \ {m + 1}] = f[x \ {m + 1}]
          BY <4>2
        <4> QED
          BY <3>1, <4>1, <4>2, <4>3
      <3>2. CASE m + 1 \notin x
        <4>1. x \in SUBSET (1..m)
          BY <3>2
        <4>2. g[x] = IF x = {} THEN b ELSE Keep(f[x \ {Max(x)}], seq[Max(x)], set)
          BY <2>1, <3>2, <4>1
        <4>3. x \ {Max(x)} \in SUBSET (1..(m + 1)) /\ m + 1 \notin x \ {Max(x)}
          BY <3>2
        <4>4. g[x \ {Max(x)}] = f[x \ {Max(x)}]
          BY <4>3
        <4> QED
          BY <4>2, <4>4
      <3> QED
        BY <3>1, <3>2
    <2>3. Eq(g, m + 1)
      <3>1. g = h
        BY <2>2
      <3> QED
        BY <3>1
    <2> HIDE DEF g
    <2>4. PICK ff : ff = g
      OBVIOUS
    <2>5. Eq(ff, m + 1)
      BY <2>3, <2>4
    <2>6. m + 1 \in 0..n
      OBVIOUS
    <2> QED
      BY <2>5, <2>6
  <1>3. n \in good
    <2> HIDE DEF good
    <2>1. \A i \in 0..n : i \in good
      BY <1>1, <1>2, IndexInduction
    <2> QED
      BY <2>1
  <1> DEFINE it == CHOOSE f : Eq(f, n)
  <1>4. Eq(it, n)
    BY <1>3
  <1>5. KeepAll(b, seq, set) = it[1..n]
    BY DEF KeepAll, FoldLeft, MapThenFoldSet
  <1> HIDE DEF it
  <1> DEFINE st == [i \in 0..n |-> it[1..i]]
  <1>6. st[0] = b
    BY <1>4
  <1>7. ASSUME NEW i \in 1..n
        PROVE  st[i] = Keep(st[i - 1], seq[i], set)
    <2>1. 1..i \in SUBSET (1..n) /\ i \in 1..i /\ (1..i) \ {i} = 1..(i - 1)
      OBVIOUS
    <2> HIDE DEF st
    <2>3. Max(1..i) = i
      BY <2>1, MaxIs
    <2> USE DEF st
    <2>2. it[1..i] = Keep(it[1..(i - 1)], seq[i], set)
      BY <1>4, <2>1, <2>3
    <2> QED
      BY <2>2
  <1>8. KeepAll(b, seq, set) = st[n]
    BY <1>5
  <1> HIDE DEF st
  <1> QED
    BY <1>6, <1>7, <1>8 DEF Keeps

(* So is an index of the indexes, row by row.                              *)
VisitAll(b, seq, old, new) == FoldLeft(LAMBDA x, y : Visit(x, y, old, new), b, seq)

Visits(st, n, seq, b, old, new, t) ==
    st[0] = b /\ (\A i \in 1..n : st[i] = Visit(st[i - 1], seq[i], old, new)) /\ st[n] = t

LEMMA VisitStates ==
    ASSUME NEW n \in Nat, NEW seq, DOMAIN seq = 1..n, NEW b, NEW old, NEW new, NEW t, VisitAll(b, seq, old, new) = t
    PROVE  \E st : Visits(st, n, seq, b, old, new, t)
  <1> DEFINE Eq(f, m) == f = [x \in SUBSET (1..m) |->
                                IF x = {} THEN b ELSE Visit(f[x \ {Max(x)}], seq[Max(x)], old, new)]
             good == {m \in 0..n : \E f : Eq(f, m)}
  <1>1. 0 \in good
    <2> DEFINE f == [x \in SUBSET (1..0) |-> b]
    <2>1. \A x \in SUBSET (1..0) : x = {}
      OBVIOUS
    <2>2. Eq(f, 0)
      BY <2>1
    <2> QED
      BY <2>2
  <1>2. ASSUME NEW m \in 0..(n - 1), m \in good
        PROVE  m + 1 \in good
    <2>1. PICK f : Eq(f, m)
      BY <1>2
    <2> DEFINE g == [x \in SUBSET (1..(m + 1)) |->
                        IF m + 1 \in x THEN Visit(f[x \ {m + 1}], seq[m + 1], old, new) ELSE f[x]]
               h == [x \in SUBSET (1..(m + 1)) |->
                        IF x = {} THEN b ELSE Visit(g[x \ {Max(x)}], seq[Max(x)], old, new)]
    <2>2. ASSUME NEW x \in SUBSET (1..(m + 1))
          PROVE  g[x] = h[x]
      <3>1. CASE m + 1 \in x
        <4>1. Max(x) = m + 1
          BY <3>1, MaxIs
        <4>2. x \ {m + 1} \in SUBSET (1..(m + 1)) /\ m + 1 \notin x \ {m + 1} /\ x # {}
          BY <3>1
        <4>3. g[x \ {m + 1}] = f[x \ {m + 1}]
          BY <4>2
        <4> QED
          BY <3>1, <4>1, <4>2, <4>3
      <3>2. CASE m + 1 \notin x
        <4>1. x \in SUBSET (1..m)
          BY <3>2
        <4>2. g[x] = IF x = {} THEN b ELSE Visit(f[x \ {Max(x)}], seq[Max(x)], old, new)
          BY <2>1, <3>2, <4>1
        <4>3. x \ {Max(x)} \in SUBSET (1..(m + 1)) /\ m + 1 \notin x \ {Max(x)}
          BY <3>2
        <4>4. g[x \ {Max(x)}] = f[x \ {Max(x)}]
          BY <4>3
        <4> QED
          BY <4>2, <4>4
      <3> QED
        BY <3>1, <3>2
    <2>3. Eq(g, m + 1)
      <3>1. g = h
        BY <2>2
      <3> QED
        BY <3>1
    <2> HIDE DEF g
    <2>4. PICK ff : ff = g
      OBVIOUS
    <2>5. Eq(ff, m + 1)
      BY <2>3, <2>4
    <2>6. m + 1 \in 0..n
      OBVIOUS
    <2> QED
      BY <2>5, <2>6
  <1>3. n \in good
    <2> HIDE DEF good
    <2>1. \A i \in 0..n : i \in good
      BY <1>1, <1>2, IndexInduction
    <2> QED
      BY <2>1
  <1> DEFINE it == CHOOSE f : Eq(f, n)
  <1>4. Eq(it, n)
    BY <1>3
  <1>5. VisitAll(b, seq, old, new) = it[1..n]
    BY DEF VisitAll, FoldLeft, MapThenFoldSet
  <1> HIDE DEF it
  <1> DEFINE st == [i \in 0..n |-> it[1..i]]
  <1>6. st[0] = b
    BY <1>4
  <1>7. ASSUME NEW i \in 1..n
        PROVE  st[i] = Visit(st[i - 1], seq[i], old, new)
    <2>1. 1..i \in SUBSET (1..n) /\ i \in 1..i /\ (1..i) \ {i} = 1..(i - 1)
      OBVIOUS
    <2> HIDE DEF st
    <2>3. Max(1..i) = i
      BY <2>1, MaxIs
    <2> USE DEF st
    <2>2. it[1..i] = Visit(it[1..(i - 1)], seq[i], old, new)
      BY <1>4, <2>1, <2>3
    <2> QED
      BY <2>2
  <1>8. VisitAll(b, seq, old, new) = st[n]
    BY <1>5
  <1> HIDE DEF st
  <1> QED
    BY <1>6, <1>7, <1>8 DEF Visits

(* And a sorted sequence of the sorted beginnings.                         *)
PlaceAll(b, seq, asc) == FoldLeft(LAMBDA x, y : Place(x, y, asc), b, seq)

Places(st, n, seq, b, asc, t) ==
    st[0] = b /\ (\A i \in 1..n : st[i] = Place(st[i - 1], seq[i], asc)) /\ st[n] = t

LEMMA PlaceStates ==
    ASSUME NEW n \in Nat, NEW seq, DOMAIN seq = 1..n, NEW b, NEW asc, NEW t, PlaceAll(b, seq, asc) = t
    PROVE  \E st : Places(st, n, seq, b, asc, t)
  <1> DEFINE Eq(f, m) == f = [x \in SUBSET (1..m) |->
                                IF x = {} THEN b ELSE Place(f[x \ {Max(x)}], seq[Max(x)], asc)]
             good == {m \in 0..n : \E f : Eq(f, m)}
  <1>1. 0 \in good
    <2> DEFINE f == [x \in SUBSET (1..0) |-> b]
    <2>1. \A x \in SUBSET (1..0) : x = {}
      OBVIOUS
    <2>2. Eq(f, 0)
      BY <2>1
    <2> QED
      BY <2>2
  <1>2. ASSUME NEW m \in 0..(n - 1), m \in good
        PROVE  m + 1 \in good
    <2>1. PICK f : Eq(f, m)
      BY <1>2
    <2> DEFINE g == [x \in SUBSET (1..(m + 1)) |->
                        IF m + 1 \in x THEN Place(f[x \ {m + 1}], seq[m + 1], asc) ELSE f[x]]
               h == [x \in SUBSET (1..(m + 1)) |->
                        IF x = {} THEN b ELSE Place(g[x \ {Max(x)}], seq[Max(x)], asc)]
    <2>2. ASSUME NEW x \in SUBSET (1..(m + 1))
          PROVE  g[x] = h[x]
      <3>1. CASE m + 1 \in x
        <4>1. Max(x) = m + 1
          BY <3>1, MaxIs
        <4>2. x \ {m + 1} \in SUBSET (1..(m + 1)) /\ m + 1 \notin x \ {m + 1} /\ x # {}
          BY <3>1
        <4>3. g[x \ {m + 1}] = f[x \ {m + 1}]
          BY <4>2
        <4> QED
          BY <3>1, <4>1, <4>2, <4>3
      <3>2. CASE m + 1 \notin x
        <4>1. x \in SUBSET (1..m)
          BY <3>2
        <4>2. g[x] = IF x = {} THEN b ELSE Place(f[x \ {Max(x)}], seq[Max(x)], asc)
          BY <2>1, <3>2, <4>1
        <4>3. x \ {Max(x)} \in SUBSET (1..(m + 1)) /\ m + 1 \notin x \ {Max(x)}
          BY <3>2
        <4>4. g[x \ {Max(x)}] = f[x \ {Max(x)}]
          BY <4>3
        <4> QED
          BY <4>2, <4>4
      <3> QED
        BY <3>1, <3>2
    <2>3. Eq(g, m + 1)
      <3>1. g = h
        BY <2>2
      <3> QED
        BY <3>1
    <2> HIDE DEF g
    <2>4. PICK ff : ff = g
      OBVIOUS
    <2>5. Eq(ff, m + 1)
      BY <2>3, <2>4
    <2>6. m + 1 \in 0..n
      OBVIOUS
    <2> QED
      BY <2>5, <2>6
  <1>3. n \in good
    <2> HIDE DEF good
    <2>1. \A i \in 0..n : i \in good
      BY <1>1, <1>2, IndexInduction
    <2> QED
      BY <2>1
  <1> DEFINE it == CHOOSE f : Eq(f, n)
  <1>4. Eq(it, n)
    BY <1>3
  <1>5. PlaceAll(b, seq, asc) = it[1..n]
    BY DEF PlaceAll, FoldLeft, MapThenFoldSet
  <1> HIDE DEF it
  <1> DEFINE st == [i \in 0..n |-> it[1..i]]
  <1>6. st[0] = b
    BY <1>4
  <1>7. ASSUME NEW i \in 1..n
        PROVE  st[i] = Place(st[i - 1], seq[i], asc)
    <2>1. 1..i \in SUBSET (1..n) /\ i \in 1..i /\ (1..i) \ {i} = 1..(i - 1)
      OBVIOUS
    <2> HIDE DEF st
    <2>3. Max(1..i) = i
      BY <2>1, MaxIs
    <2> USE DEF st
    <2>2. it[1..i] = Place(it[1..(i - 1)], seq[i], asc)
      BY <1>4, <2>1, <2>3
    <2> QED
      BY <2>2
  <1>8. PlaceAll(b, seq, asc) = st[n]
    BY <1>5
  <1> HIDE DEF st
  <1> QED
    BY <1>6, <1>7, <1>8 DEF Places

(* What a filter has kept of the first i elements.                         *)
Before(seq, i) == {seq[j] : j \in 1..i}

KeptOf(s, i, seq, set, T) ==
    /\ s \in Seq(T) /\ Len(s) <= i
    /\ Range(s) = Before(seq, i) \cap set
    /\ IsInjective(seq) => IsInjective(s)

LEMMA KeepOne ==
    ASSUME NEW T, NEW seq \in Seq(T), NEW set, NEW i \in 1..Len(seq), NEW s, NEW u,
           KeptOf(s, i - 1, seq, set, T), u = Keep(s, seq[i], set)
    PROVE  KeptOf(u, i, seq, set, T)
  <1>1. PICK x : x = seq[i]
    OBVIOUS
  <1>2. x \in T
    BY <1>1
  <1>3. Before(seq, i) = Before(seq, i - 1) \cup {x}
    BY <1>1 DEF Before
  <1>4. s \in Seq(T) /\ Len(s) <= i - 1 /\ Range(s) = Before(seq, i - 1) \cap set
    BY DEF KeptOf
  <1>5. CASE x \notin set
    <2>1. u = s
      BY <1>1, <1>5 DEF Keep
    <2>2. Range(s) = Before(seq, i) \cap set
      BY <1>3, <1>4, <1>5
    <2>3. Len(s) <= i
      BY <1>4
    <2> QED
      BY <1>4, <2>1, <2>2, <2>3 DEF KeptOf
  <1>6. CASE x \in set
    <2>1. u = Append(s, x)
      BY <1>1, <1>6 DEF Keep
    <2>2. /\ u \in Seq(T) /\ Len(u) = Len(s) + 1 /\ Range(u) = Range(s) \cup {x}
          /\ IsInjective(s) /\ x \notin Range(s) => IsInjective(u)
      BY <1>2, <1>4, <2>1, AppendIs
    <2>3. Range(u) = Before(seq, i) \cap set
      BY <1>3, <1>4, <1>6, <2>2
    <2>4. Len(u) <= i
      BY <1>4, <2>2
    <2>5. IsInjective(seq) => x \notin Before(seq, i - 1)
      BY <1>1 DEF IsInjective, Before
    <2>6. IsInjective(seq) => IsInjective(u)
      BY <1>4, <2>2, <2>5 DEF KeptOf
    <2> QED
      BY <2>2, <2>3, <2>4, <2>6 DEF KeptOf
  <1> QED
    BY <1>5, <1>6

(* A filter keeps, once each, the elements that are in the set.            *)
LEMMA OnlyIs ==
    ASSUME NEW T, NEW seq \in Seq(T), NEW set
    PROVE  /\ Only(seq, set) \in Seq(T) /\ Len(Only(seq, set)) <= Len(seq)
           /\ Range(Only(seq, set)) = Range(seq) \cap set
           /\ IsInjective(seq) => IsInjective(Only(seq, set))
  <1>1. PICK n, b, t : n = Len(seq) /\ b = << >> /\ t = Only(seq, set)
    OBVIOUS
  <1>2. n \in Nat /\ DOMAIN seq = 1..n
    BY <1>1
  <1>3. KeepAll(b, seq, set) = t
    BY <1>1 DEF KeepAll, Only
  <1>4. PICK st : Keeps(st, n, seq, b, set, t)
    BY <1>2, <1>3, KeepStates
  <1> DEFINE good == {i \in 0..n : KeptOf(st[i], i, seq, set, T)}
  <1>5. 0 \in good
    <2>1. st[0] = << >>
      BY <1>1, <1>4 DEF Keeps
    <2>2. Before(seq, 0) = {}
      BY DEF Before
    <2>3. Range(<< >>) = {} /\ IsInjective(<< >>) /\ << >> \in Seq(T) /\ Len(<< >>) = 0
      BY DEF Range, IsInjective
    <2>4. KeptOf(st[0], 0, seq, set, T)
      BY <2>1, <2>2, <2>3 DEF KeptOf
    <2> QED
      BY <1>2, <2>4
  <1>6. ASSUME NEW i \in 0..(n - 1), i \in good
        PROVE  i + 1 \in good
    <2>1. PICK j, s, u : j = i + 1 /\ s = st[i] /\ u = st[i + 1]
      OBVIOUS
    <2>2. j \in 1..Len(seq) /\ j - 1 = i /\ j \in 1..n
      BY <1>1, <1>2, <2>1
    <2>3. u = Keep(s, seq[j], set)
      BY <1>4, <2>1, <2>2 DEF Keeps
    <2>4. KeptOf(s, j - 1, seq, set, T)
      BY <1>6, <2>1, <2>2
    <2>5. KeptOf(u, j, seq, set, T)
      BY <2>2, <2>3, <2>4, KeepOne
    <2> QED
      BY <1>2, <2>1, <2>2, <2>5
  <1>7. n \in good
    <2> HIDE DEF good
    <2>1. \A i \in 0..n : i \in good
      BY <1>2, <1>5, <1>6, IndexInduction
    <2> QED
      BY <1>2, <2>1
  <1>8. KeptOf(t, n, seq, set, T)
    BY <1>4, <1>7 DEF Keeps
  <1>9. Before(seq, n) = Range(seq)
    BY <1>2 DEF Before, Range
  <1> QED
    BY <1>1, <1>8, <1>9 DEF KeptOf

-----------------------------------------------------------------------------
(* The index.                                                              *)

(* An index of the values f has: under each key its ids, once each.        *)
Files(t, f) ==
    /\ \A k \in DOMAIN t :
          t[k] \in Seq(Nat) /\ IsInjective(t[k]) /\ Range(t[k]) = {i \in DOMAIN f : Key(f[i]) = k}
    /\ \A i \in DOMAIN f : Key(f[i]) \in DOMAIN t

LEMMA FilesSame ==
    ASSUME NEW t, NEW f, NEW g, Files(t, f), DOMAIN g = DOMAIN f, \A i \in DOMAIN f : g[i] = f[i]
    PROVE  Files(t, g)
  <1>1. \A k : {i \in DOMAIN f : Key(f[i]) = k} = {i \in DOMAIN g : Key(g[i]) = k}
    OBVIOUS
  <1> QED
    BY <1>1 DEF Files

LEMMA AddsEntry ==
    ASSUME NEW t, NEW f, NEW g, NEW x, NEW id \in Nat, Files(t, f), id \notin DOMAIN f,
           DOMAIN g = DOMAIN f \cup {id}, g[id] = x, \A i \in DOMAIN f : g[i] = f[i]
    PROVE  Files(AddEntry(t, x, id), g)
  <1>1. PICK kx, u : kx = Key(x) /\ u = AddEntry(t, x, id)
    OBVIOUS
  <1>2. /\ DOMAIN u = DOMAIN t \cup {kx}
        /\ \A k \in DOMAIN t : k # kx => u[k] = t[k]
        /\ u[kx] = IF kx \in DOMAIN t THEN Append(t[kx], id) ELSE <<id>>
    BY <1>1 DEF AddEntry
  <1>3. ASSUME NEW k \in DOMAIN t, k # kx
        PROVE  u[k] \in Seq(Nat) /\ IsInjective(u[k]) /\ Range(u[k]) = {i \in DOMAIN g : Key(g[i]) = k}
    <2>1. {i \in DOMAIN g : Key(g[i]) = k} = {i \in DOMAIN f : Key(f[i]) = k}
      BY <1>1, <1>3
    <2> QED
      BY <1>2, <1>3, <2>1 DEF Files
  <1>4. {i \in DOMAIN g : Key(g[i]) = kx} = {i \in DOMAIN f : Key(f[i]) = kx} \cup {id}
    BY <1>1
  <1>5. u[kx] \in Seq(Nat) /\ IsInjective(u[kx]) /\ Range(u[kx]) = {i \in DOMAIN g : Key(g[i]) = kx}
    <2>1. CASE kx \in DOMAIN t
      <3>1. PICK s : s = t[kx]
        OBVIOUS
      <3>2. s \in Seq(Nat) /\ IsInjective(s) /\ Range(s) = {i \in DOMAIN f : Key(f[i]) = kx}
        BY <2>1, <3>1 DEF Files
      <3>3. id \notin Range(s)
        BY <3>2
      <3>4. Append(s, id) \in Seq(Nat) /\ Range(Append(s, id)) = Range(s) \cup {id} /\ IsInjective(Append(s, id))
        BY <3>2, <3>3, AppendIs
      <3> QED
        BY <1>2, <1>4, <2>1, <3>1, <3>2, <3>4
    <2>2. CASE kx \notin DOMAIN t
      <3>1. {i \in DOMAIN f : Key(f[i]) = kx} = {}
        BY <2>2 DEF Files
      <3>2. <<id>> \in Seq(Nat) /\ IsInjective(<<id>>) /\ Range(<<id>>) = {id}
        BY DEF IsInjective, Range
      <3> QED
        BY <1>2, <1>4, <2>2, <3>1, <3>2
    <2> QED
      BY <2>1, <2>2
  <1>6. \A i \in DOMAIN g : Key(g[i]) \in DOMAIN u
    BY <1>1, <1>2 DEF Files
  <1> QED
    BY <1>1, <1>2, <1>3, <1>5, <1>6 DEF Files

LEMMA RemovesEntry ==
    ASSUME NEW t, NEW f, NEW g, NEW x, NEW id \in Nat, Files(t, f), id \in DOMAIN f, f[id] = x,
           DOMAIN g = DOMAIN f \ {id}, \A i \in DOMAIN g : g[i] = f[i]
    PROVE  Files(RemoveEntry(t, x, id), g)
  <1>1. PICK kx, s : kx = Key(x) /\ s = t[kx]
    OBVIOUS
  <1>2. kx \in DOMAIN t
    BY <1>1 DEF Files
  <1>3. s \in Seq(Nat) /\ IsInjective(s) /\ Range(s) = {i \in DOMAIN f : Key(f[i]) = kx}
    BY <1>1, <1>2 DEF Files
  <1>4. PICK left, u : left = Only(s, Range(s) \ {id}) /\ u = RemoveEntry(t, x, id)
    OBVIOUS
  <1>5. left \in Seq(Nat) /\ IsInjective(left) /\ Range(left) = Range(s) \ {id}
    <2>1. PICK T, set : T = Nat /\ set = Range(s) \ {id}
      OBVIOUS
    <2>2. Only(s, set) \in Seq(T) /\ IsInjective(Only(s, set)) /\ Range(Only(s, set)) = Range(s) \cap set
      BY <1>3, <2>1, OnlyIs
    <2> QED
      BY <1>4, <2>1, <2>2
  <1>6. u = IF left = <<>> THEN Restrict(t, DOMAIN t \ {kx}) ELSE [t EXCEPT ![kx] = left]
    BY <1>1, <1>2, <1>4 DEF RemoveEntry
  <1>7. {i \in DOMAIN g : Key(g[i]) = kx} = Range(left)
    BY <1>3, <1>5
  <1>8. ASSUME NEW k \in DOMAIN t, k # kx
        PROVE  t[k] \in Seq(Nat) /\ IsInjective(t[k]) /\ Range(t[k]) = {i \in DOMAIN g : Key(g[i]) = k}
    <2>1. {i \in DOMAIN g : Key(g[i]) = k} = {i \in DOMAIN f : Key(f[i]) = k}
      BY <1>1, <1>8
    <2> QED
      BY <1>8, <2>1 DEF Files
  <1>9. CASE left = <<>>
    <2>1. DOMAIN u = DOMAIN t \ {kx} /\ \A k \in DOMAIN u : u[k] = t[k]
      BY <1>6, <1>9 DEF Restrict
    <2>2. Range(left) = {}
      BY <1>9 DEF Range
    <2>3. \A i \in DOMAIN g : Key(g[i]) \in DOMAIN u
      BY <1>7, <2>1, <2>2 DEF Files
    <2> QED
      BY <1>4, <1>8, <2>1, <2>3 DEF Files
  <1>10. CASE left # <<>>
    <2>1. DOMAIN u = DOMAIN t /\ u[kx] = left /\ \A k \in DOMAIN u : k # kx => u[k] = t[k]
      BY <1>2, <1>6, <1>10
    <2>2. \A i \in DOMAIN g : Key(g[i]) \in DOMAIN u
      BY <2>1 DEF Files
    <2> QED
      BY <1>4, <1>5, <1>7, <1>8, <2>1, <2>2 DEF Files
  <1> QED
    BY <1>9, <1>10

(* A row the statement comes by leaves with the value it had and comes     *)
(* with the one it gets.                                                   *)
LEMMA VisitsRow ==
    ASSUME NEW t, NEW f, NEW g, NEW id \in Nat, NEW old, NEW new, Files(t, f),
           id \in DOMAIN f <=> id \in DOMAIN old, id \in DOMAIN f => f[id] = old[id],
           \A i : i # id => (i \in DOMAIN g <=> i \in DOMAIN f),
           id \in DOMAIN g <=> id \in DOMAIN new, id \in DOMAIN g => g[id] = new[id],
           \A i \in DOMAIN g : i # id => g[i] = f[i]
    PROVE  Files(Visit(t, id, old, new), g)
  <1> DEFINE h == [i \in DOMAIN f \ {id} |-> f[i]]
             cut == IF id \in DOMAIN old THEN RemoveEntry(t, old[id], id) ELSE t
  <1>1. Files(cut, h)
    <2>1. CASE id \in DOMAIN old
      <3>1. PICK x, hh : x = old[id] /\ hh = h
        OBVIOUS
      <3>2. DOMAIN hh = DOMAIN f \ {id} /\ \A i \in DOMAIN hh : hh[i] = f[i]
        BY <3>1
      <3>3. Files(RemoveEntry(t, x, id), hh)
        BY <2>1, <3>1, <3>2, RemovesEntry
      <3> QED
        BY <2>1, <3>1, <3>3
    <2>2. CASE id \notin DOMAIN old
      <3>1. DOMAIN h = DOMAIN f /\ \A i \in DOMAIN f : h[i] = f[i]
        BY <2>2
      <3> HIDE DEF h
      <3> QED
        BY <2>2, <3>1, FilesSame
    <2> QED
      BY <2>1, <2>2
  <1>2. PICK hh, c : hh = h /\ c = cut
    OBVIOUS
  <1>3. DOMAIN hh = DOMAIN f \ {id} /\ \A i \in DOMAIN hh : hh[i] = f[i]
    BY <1>2
  <1>4. Files(c, hh) /\ Visit(t, id, old, new) = IF id \in DOMAIN new THEN AddEntry(c, new[id], id) ELSE c
    BY <1>1, <1>2 DEF Visit
  <1> HIDE DEF h, cut
  <1>5. CASE id \in DOMAIN new
    <2>1. DOMAIN g = DOMAIN hh \cup {id} /\ g[id] = new[id] /\ id \notin DOMAIN hh
      BY <1>3, <1>5
    <2>2. \A i \in DOMAIN hh : g[i] = hh[i]
      BY <1>3, <2>1
    <2>3. Files(AddEntry(c, new[id], id), g)
      BY <1>4, <2>1, <2>2, AddsEntry
    <2> QED
      BY <1>4, <1>5, <2>3
  <1>6. CASE id \notin DOMAIN new
    <2>1. DOMAIN g = DOMAIN hh /\ \A i \in DOMAIN hh : g[i] = hh[i]
      BY <1>3, <1>6
    <2> QED
      BY <1>4, <1>6, <2>1, FilesSame
  <1> QED
    BY <1>5, <1>6

(* The table when a statement has come by some rows.                       *)
After(old, new, seen) ==
    [i \in {j \in DOMAIN old \cup DOMAIN new : IF j \in seen THEN j \in DOMAIN new ELSE j \in DOMAIN old}
        |-> IF i \in seen THEN new[i] ELSE old[i]]

FilesAfter(t, i, ids, old, new) == Files(t, After(old, new, Before(ids, i)))

LEMMA VisitOne ==
    ASSUME NEW ids \in Seq(Nat), IsInjective(ids), NEW i \in 1..Len(ids), NEW old, NEW new,
           NEW t, NEW u, FilesAfter(t, i - 1, ids, old, new), u = Visit(t, ids[i], old, new)
    PROVE  FilesAfter(u, i, ids, old, new)
  <1>1. PICK id, f, g : /\ id = ids[i] /\ f = After(old, new, Before(ids, i - 1))
                        /\ g = After(old, new, Before(ids, i))
    OBVIOUS
  <1>2. id \in Nat
    BY <1>1
  <1>3. Before(ids, i) = Before(ids, i - 1) \cup {id}
    BY <1>1 DEF Before
  <1>4. id \notin Before(ids, i - 1)
    BY <1>1 DEF IsInjective, Before
  <1>5. /\ id \in DOMAIN f <=> id \in DOMAIN old
        /\ id \in DOMAIN f => f[id] = old[id]
    BY <1>1, <1>4 DEF After
  <1>6. /\ \A j : j # id => (j \in DOMAIN g <=> j \in DOMAIN f)
        /\ \A j \in DOMAIN g : j # id => g[j] = f[j]
    BY <1>1, <1>3 DEF After
  <1>7. /\ id \in DOMAIN g <=> id \in DOMAIN new
        /\ id \in DOMAIN g => g[id] = new[id]
    BY <1>1, <1>3 DEF After
  <1>8. Files(t, f)
    BY <1>1 DEF FilesAfter
  <1>9. Files(Visit(t, id, old, new), g)
    BY <1>2, <1>5, <1>6, <1>7, <1>8, VisitsRow
  <1> QED
    BY <1>1, <1>9 DEF FilesAfter

(* An index of the table before a statement becomes one of the table after *)
(* it.                                                                     *)
LEMMA ReindexedIs ==
    ASSUME NEW t, NEW ids \in Seq(Nat), IsInjective(ids), NEW old, NEW new, Files(t, old)
    PROVE  Files(Reindexed(t, ids, old, new), After(old, new, Range(ids)))
  <1>1. PICK n, r : n = Len(ids) /\ r = Reindexed(t, ids, old, new)
    OBVIOUS
  <1>2. n \in Nat /\ DOMAIN ids = 1..n
    BY <1>1
  <1>3. VisitAll(t, ids, old, new) = r
    BY <1>1 DEF VisitAll, Reindexed
  <1>4. PICK st : Visits(st, n, ids, t, old, new, r)
    BY <1>2, <1>3, VisitStates
  <1> DEFINE good == {i \in 0..n : FilesAfter(st[i], i, ids, old, new)}
  <1>5. 0 \in good
    <2>1. st[0] = t
      BY <1>4 DEF Visits
    <2>2. PICK seen, f : seen = Before(ids, 0) /\ f = After(old, new, seen)
      OBVIOUS
    <2>3. seen = {}
      BY <2>2 DEF Before
    <2>4. DOMAIN f = DOMAIN old /\ \A i \in DOMAIN old : f[i] = old[i]
      BY <2>2, <2>3 DEF After
    <2>5. Files(t, f)
      BY <2>4, FilesSame
    <2> QED
      BY <1>2, <2>1, <2>2, <2>5 DEF FilesAfter
  <1>6. ASSUME NEW i \in 0..(n - 1), i \in good
        PROVE  i + 1 \in good
    <2>1. PICK j, s, u : j = i + 1 /\ s = st[i] /\ u = st[i + 1]
      OBVIOUS
    <2>2. j \in 1..Len(ids) /\ j - 1 = i /\ j \in 1..n
      BY <1>1, <1>2, <2>1
    <2>3. u = Visit(s, ids[j], old, new)
      BY <1>4, <2>1, <2>2 DEF Visits
    <2>4. FilesAfter(s, j - 1, ids, old, new)
      BY <1>6, <2>1, <2>2
    <2>5. FilesAfter(u, j, ids, old, new)
      BY <2>2, <2>3, <2>4, VisitOne
    <2> QED
      BY <1>2, <2>1, <2>2, <2>5
  <1>7. n \in good
    <2> HIDE DEF good
    <2>1. \A i \in 0..n : i \in good
      BY <1>2, <1>5, <1>6, IndexInduction
    <2> QED
      BY <1>2, <2>1
  <1>8. FilesAfter(r, n, ids, old, new)
    BY <1>4, <1>7 DEF Visits
  <1>9. Before(ids, n) = Range(ids)
    BY <1>2 DEF Before, Range
  <1> QED
    BY <1>1, <1>8, <1>9 DEF FilesAfter

-----------------------------------------------------------------------------
(* Values.                                                                 *)

Types == {"NULL", "BOOL", "INT4", "INT8", "FLOAT8", "TEXT"}

ValueOK(x) ==
    /\ x \in [type : Types, v : Int]
    /\ x.type = "NULL" => x.v = 0
    /\ x.type = "BOOL" => x.v \in {0, 1}
    /\ x.type = "INT4" => Fits(x.v, Int4Max)
    /\ x.type = "INT8" => Fits(x.v, Int8Max)

(* What a column may hold.                                                 *)
ColumnOK(c, x) ==
    /\ IsNull(x) => c.nullable
    /\ ~IsNull(x) => x.type = c.type \/ c.type = "VARCHAR"
    /\ x.type = "INT4" => c.type = "INT4"

Meanings == [kind : {"int", "dec", "text", "bool", "null"}, v : Int]
Writable ==
    [kind : {"int", "dec", "text"}, v : Nat]
        \cup [kind : {"bool"}, v : {0, 1}] \cup [kind : {"null"}, v : {0}]

(* `as` keeps a number that fits, and makes one that fits.                 *)
LEMMA WrapIs ==
    ASSUME NEW n \in Int, NEW max \in Nat
    PROVE  /\ Wrap(n, max) \in Int /\ Fits(Wrap(n, max), max)
           /\ Fits(n, max) => Wrap(n, max) = n
  <1>1. PICK m, s, r : m = 2 * (max + 1) /\ s = n + max + 1 /\ r = s % m
    OBVIOUS
  <1>2. m \in Nat \ {0} /\ s \in Int
    BY <1>1
  <1>3. r \in 0..(m - 1)
    BY <1>1, <1>2
  <1>4. s \in 0..(m - 1) => r = s
    BY <1>1, <1>2
  <1>5. Wrap(n, max) = r - (max + 1)
    BY <1>1 DEF Wrap
  <1>6. Wrap(n, max) \in Int /\ Fits(Wrap(n, max), max)
    BY <1>1, <1>3, <1>5 DEF Fits
  <1>7. Fits(n, max) => Wrap(n, max) = n
    BY <1>1, <1>4, <1>5 DEF Fits
  <1> QED
    BY <1>6, <1>7

(* Rounding gives a number, and knows no sign.                             *)
LEMMA RoundIs ==
    ASSUME NEW n \in Int
    PROVE  Round(n) \in Int /\ Round(-n) = -Round(n)
  <1>1. ASSUME NEW m \in Nat
        PROVE  RoundUp(m) \in Int
    <2>1. PICK h, k : h = Coarse \div 2 /\ k = (m + h) \div Coarse
      OBVIOUS
    <2>2. h \in Int
      BY <2>1, WidthAssumption
    <2>3. k \in Int
      BY <2>1, <2>2, WidthAssumption
    <2>4. RoundUp(m) = IF m <= Fine THEN m ELSE Coarse * k
      BY <2>1 DEF RoundUp
    <2>5. Coarse * k \in Int
      BY <2>3, WidthAssumption
    <2> QED
      BY <2>4, <2>5
  <1>2. RoundUp(0) = 0
    BY WidthAssumption DEF RoundUp
  <1>3. CASE n = 0
    BY <1>2, <1>3 DEF Round
  <1>4. CASE n > 0
    <2>1. PICK r : r = RoundUp(n) /\ r \in Int
      BY <1>1, <1>4
    <2>2. PICK k : k = -n
      OBVIOUS
    <2>3. -k = n /\ k < 0
      BY <1>4, <2>2
    <2>4. Round(n) = r
      BY <1>4, <2>1 DEF Round
    <2>5. Round(k) = -r
      BY <2>1, <2>3 DEF Round
    <2> QED
      BY <2>1, <2>2, <2>4, <2>5
  <1>5. CASE n < 0
    <2>1. PICK k, r : k = -n /\ r = RoundUp(k)
      OBVIOUS
    <2>2. k \in Nat /\ k > 0 /\ r \in Int
      BY <1>1, <1>5, <2>1
    <2>3. Round(n) = -r
      BY <1>5, <2>1 DEF Round
    <2>4. Round(k) = r
      BY <2>1, <2>2 DEF Round
    <2> QED
      BY <2>1, <2>2, <2>3, <2>4
  <1> QED
    BY <1>3, <1>4, <1>5

LEMMA Written ==
    /\ Literals \subseteq Writable /\ Operands \subseteq Writable /\ Writable \subseteq Meanings
    /\ \A l \in Operands : l.kind \in {"int", "dec"} /\ l.v \in Nat
    /\ Columns \subseteq [type : ColumnTypes, nullable : BOOLEAN]
    /\ Int4Max \in Nat /\ Int8Max \in Nat /\ Int4Max < Int8Max /\ Unit \in Nat \ {0}
  BY StatementAssumption, WidthAssumption DEF Writable, Meanings

(* What from_sql_literal makes of a literal.                               *)
LEMMA LiteralIs ==
    ASSUME NEW l \in Writable
    PROVE  /\ ValueOK(FromSqlLiteral(l)) /\ FromSqlLiteral(l).type # "INT4"
           /\ l.kind = "int" => FromSqlLiteral(l) = Value("INT8", IF Fits(l.v, Int8Max) THEN l.v ELSE 0)
           /\ l.kind = "dec" => FromSqlLiteral(l) = Value("FLOAT8", Round(l.v))
           /\ l.kind = "text" => FromSqlLiteral(l) = Value("TEXT", l.v)
           /\ l.kind = "bool" => FromSqlLiteral(l) = Value("BOOL", l.v)
           /\ l.kind = "null" => FromSqlLiteral(l) = Null
  <1>1. Fits(0, Int8Max)
    BY Written DEF Fits
  <1>2. l.kind \in {"int", "dec", "text", "bool", "null"} /\ l.v \in Int
        /\ (l.kind = "bool" => l.v \in {0, 1})
    BY DEF Writable
  <1>3. CASE l.kind = "int"
    <2>1. FromSqlLiteral(l) = Value("INT8", IF Fits(l.v, Int8Max) THEN l.v ELSE 0)
      BY <1>3 DEF FromSqlLiteral
    <2> QED
      BY <1>1, <1>2, <1>3, <2>1 DEF ValueOK, Value, Types
  <1>4. CASE l.kind = "dec"
    <2>1. FromSqlLiteral(l) = Value("FLOAT8", Round(l.v))
      BY <1>4 DEF FromSqlLiteral
    <2>2. PICK r : r = Round(l.v) /\ r \in Int
      BY <1>2, RoundIs
    <2> QED
      BY <1>4, <2>1, <2>2 DEF ValueOK, Value, Types
  <1>5. CASE l.kind = "text"
    <2>1. FromSqlLiteral(l) = Value("TEXT", l.v)
      BY <1>5 DEF FromSqlLiteral
    <2> QED
      BY <1>2, <1>5, <2>1 DEF ValueOK, Value, Types
  <1>6. CASE l.kind = "bool"
    <2>1. FromSqlLiteral(l) = Value("BOOL", l.v)
      BY <1>6 DEF FromSqlLiteral
    <2> QED
      BY <1>2, <1>6, <2>1 DEF ValueOK, Value, Types
  <1>7. CASE l.kind = "null"
    <2>1. FromSqlLiteral(l) = Null
      BY <1>7 DEF FromSqlLiteral
    <2> QED
      BY <1>7, <2>1 DEF ValueOK, Value, Types, Null
  <1> QED
    BY <1>2, <1>3, <1>4, <1>5, <1>6, <1>7

(* coerce_to of a value that is let in.                                    *)
Coerced(c, x, y) ==
    \/ y = x /\ (IsNull(x) \/ x.type = c.type \/ c.type = "VARCHAR")
    \/ x.type = "INT8" /\ c.type = "INT4" /\ y = Value("INT4", Wrap(x.v, Int4Max))
    \/ x.type = "INT4" /\ c.type = "INT8" /\ y = Value("INT8", x.v)
    \/ Integer(x) /\ c.type = "FLOAT8" /\ y = Value("FLOAT8", Round(Unit * x.v))

LEMMA CoercedIs ==
    ASSUME NEW x, ValueOK(x), CoerceTo(x, col.type)[1]
    PROVE  Coerced(col, x, Stored(x))
  <1>1. PICK ty : ty = col.type
    OBVIOUS
  <1>2. Stored(x) = CoerceTo(x, ty)[2] /\ CoerceTo(x, ty)[1]
    BY <1>1 DEF Stored
  <1>3. CASE IsNull(x) \/ x.type = ty \/ ty = "VARCHAR"
    <2>1. CoerceTo(x, ty) = <<TRUE, x>>
      BY <1>3 DEF CoerceTo
    <2> QED
      BY <1>1, <1>2, <1>3, <2>1 DEF Coerced
  <1>4. CASE ~(IsNull(x) \/ x.type = ty \/ ty = "VARCHAR")
    <2>1. CASE x.type = "INT8" /\ ty = "INT4"
      <3>1. CoerceTo(x, ty) = <<TRUE, Value("INT4", Wrap(x.v, Int4Max))>>
        BY <1>4, <2>1 DEF CoerceTo, Integer
      <3> QED
        BY <1>1, <1>2, <2>1, <3>1 DEF Coerced
    <2>2. CASE x.type = "INT4" /\ ty = "INT8"
      <3>1. CoerceTo(x, ty) = <<TRUE, Value("INT8", x.v)>>
        BY <1>4, <2>2 DEF CoerceTo, Integer
      <3> QED
        BY <1>1, <1>2, <2>2, <3>1 DEF Coerced
    <2>3. CASE Integer(x) /\ ty = "FLOAT8"
      <3>1. CoerceTo(x, ty) = <<TRUE, Value("FLOAT8", Round(Unit * x.v))>>
        BY <1>4, <2>3 DEF CoerceTo, Integer
      <3> QED
        BY <1>1, <1>2, <2>3, <3>1 DEF Coerced
    <2>4. CASE /\ ~(x.type = "INT8" /\ ty = "INT4") /\ ~(x.type = "INT4" /\ ty = "INT8")
               /\ ~(Integer(x) /\ ty = "FLOAT8")
      <3>1. CoerceTo(x, ty) = <<FALSE, x>>
        BY <1>4, <2>4 DEF CoerceTo
      <3> QED
        BY <1>2, <3>1
    <2> QED
      BY <2>1, <2>2, <2>3, <2>4
  <1> QED
    BY <1>3, <1>4

(* What is stored belongs in the column.                                   *)
LEMMA StoredFits ==
    ASSUME NEW x, ValueOK(x), Accepted(x), x.type = "INT4" => col.type = "INT4"
    PROVE  ValueOK(Stored(x)) /\ ColumnOK(col, Stored(x))
  <1>1. PICK y, c : y = Stored(x) /\ c = col
    OBVIOUS
  <1>2. Coerced(c, x, y) /\ (IsNull(x) => c.nullable)
    BY <1>1, CoercedIs DEF Accepted
  <1>3. x.type \in Types /\ x.v \in Int
    BY DEF ValueOK
  <1>4. CASE y = x /\ (IsNull(x) \/ x.type = c.type \/ c.type = "VARCHAR")
    <2>1. ColumnOK(c, x)
      BY <1>1, <1>2, <1>4 DEF ColumnOK
    <2> QED
      BY <1>1, <1>4, <2>1
  <1>5. CASE x.type = "INT8" /\ c.type = "INT4" /\ y = Value("INT4", Wrap(x.v, Int4Max))
    <2>1. PICK w : w = Wrap(x.v, Int4Max)
      OBVIOUS
    <2>2. w \in Int /\ Fits(w, Int4Max)
      BY <1>3, <2>1, Written, WrapIs
    <2>3. y = [type |-> "INT4", v |-> w]
      BY <1>5, <2>1 DEF Value
    <2>4. ValueOK(y)
      BY <2>2, <2>3 DEF ValueOK, Types
    <2>5. ColumnOK(c, y)
      BY <1>5, <2>3 DEF ColumnOK, IsNull
    <2> QED
      BY <1>1, <2>4, <2>5
  <1>6. CASE x.type = "INT4" /\ c.type = "INT8" /\ y = Value("INT8", x.v)
    BY <1>1, <1>6
  <1>7. CASE Integer(x) /\ c.type = "FLOAT8" /\ y = Value("FLOAT8", Round(Unit * x.v))
    <2>1. PICK w : w = Round(Unit * x.v)
      OBVIOUS
    <2>2. w \in Int
      <3>1. Unit * x.v \in Int
        BY <1>3, Written
      <3> QED
        BY <2>1, <3>1, RoundIs
    <2>3. y = [type |-> "FLOAT8", v |-> w]
      BY <1>7, <2>1 DEF Value
    <2>4. ValueOK(y)
      BY <2>2, <2>3 DEF ValueOK, Types
    <2>5. ColumnOK(c, y)
      BY <1>7, <2>3 DEF ColumnOK, IsNull
    <2> QED
      BY <1>1, <2>4, <2>5
  <1> QED
    BY <1>2, <1>4, <1>5, <1>6, <1>7 DEF Coerced

(* A value that holds what a statement says: an integer as an integer or   *)
(* as a double, a decimal as the double it is rounded to.                  *)
Means(x, t) ==
    /\ t.kind = "null" => x = Null
    /\ t.kind = "text" => x = Value("TEXT", t.v)
    /\ t.kind = "bool" => x = Value("BOOL", t.v)
    /\ t.kind = "dec" => x = Value("FLOAT8", Round(t.v))
    /\ t.kind = "int" => \/ x \in {Value("INT4", t.v), Value("INT8", t.v)}
                         \/ x = Value("FLOAT8", Round(Unit * t.v))

(* coerce_to keeps the meaning of a number in range.                       *)
LEMMA StoredMeans ==
    ASSUME NEW x, ValueOK(x), Accepted(x), x.type # "INT4", NEW t \in Meanings,
           Means(x, t), ~OutOfRange(t)
    PROVE  Means(Stored(x), t)
  <1>1. PICK y, c : y = Stored(x) /\ c = col
    OBVIOUS
  <1>2. Coerced(c, x, y)
    BY <1>1, CoercedIs DEF Accepted
  <1>3. t.kind \in {"int", "dec", "text", "bool", "null"} /\ t.v \in Int
    BY DEF Meanings
  <1>4. CASE y = x
    BY <1>1, <1>4
  <1>5. CASE y # x
    <2>1. x.type = "INT8"
      BY <1>2, <1>5 DEF Coerced, Integer
    <2>2. t.kind = "int" /\ x = Value("INT8", t.v)
      BY <1>3, <2>1 DEF Means, Value, Null
    <2>3. x.v = t.v
      BY <2>2 DEF Value
    <2>4. CASE c.type = "INT4" /\ y = Value("INT4", Wrap(x.v, Int4Max))
      <3>1. Fits(t.v, Int4Max)
        BY <1>1, <2>2, <2>4 DEF OutOfRange
      <3>2. Wrap(t.v, Int4Max) = t.v
        BY <1>3, <3>1, Written, WrapIs
      <3>3. y = Value("INT4", t.v)
        BY <2>3, <2>4, <3>2
      <3> QED
        BY <1>1, <2>2, <3>3 DEF Means
    <2>5. CASE y = Value("FLOAT8", Round(Unit * x.v))
      BY <1>1, <2>2, <2>3, <2>5 DEF Means
    <2> QED
      BY <1>2, <1>5, <2>1, <2>4, <2>5 DEF Coerced
  <1> QED
    BY <1>4, <1>5

LEMMA LiteralMeans ==
    ASSUME NEW l \in Writable, ~TooLarge(l)
    PROVE  Means(FromSqlLiteral(l), l)
  <1>1. l.kind = "int" => FromSqlLiteral(l) = Value("INT8", l.v)
    BY LiteralIs DEF TooLarge
  <1> QED
    BY <1>1, LiteralIs DEF Means

(* A number the column holds is one that from_sql_literal reads.           *)
LEMMA InRangeReads ==
    ASSUME NEW l \in Writable, ~OutOfRange(l)
    PROVE  ~TooLarge(l)
  <1>1. l.kind = "int" => l.v \in Int
    BY DEF Writable
  <1> QED
    BY <1>1, Written DEF OutOfRange, TooLarge, Fits

LEMMA AssignmentIs ==
    ASSUME NEW e \in Assignments
    PROVE  /\ e.form \in {"lit", "neg", "op"} /\ e.lit \in Operands
           /\ e.lit \in Writable /\ e.lit.kind \in {"int", "dec"} /\ e.lit.v \in Nat
           /\ e.form = "op" => e.op \in {"+", "-", "*"}
  <1>1. e.form \in {"lit", "neg", "op"} /\ e.lit \in Operands /\ (e.form = "op" => e.op \in {"+", "-", "*"})
    BY DEF Assignments
  <1> QED
    BY <1>1, Written

LEMMA Calculates ==
    ASSUME NEW a \in Int, NEW b \in Int, NEW op \in {"+", "-", "*"}
    PROVE  Calculate(a, op, b) \in Int
  BY DEF Calculate

(* What eval_binary makes of an operator of arithmetic.                    *)
LEMMA EvaluatesIs ==
    ASSUME NEW x, NEW op \in {"+", "-", "*"}, NEW y
    PROVE  EvalBinary(x, op, y) =
              IF <<x.type, op, y.type>> \in Arithmetic
              THEN Value(y.type, Rounded(y.type, Calculate(x.v, op, y.v))) ELSE Null
  BY DEF EvalBinary

LEMMA AssignedFits ==
    ASSUME NEW e \in Assignments, NEW x, ValueOK(x)
    PROVE  ValueOK(AssignmentValue(e, x)) /\ AssignmentValue(e, x).type # "INT4"
  <1>1. PICK l, y : l = e.lit /\ y = FromSqlLiteral(l)
    OBVIOUS
  <1>2. l \in Writable /\ l.kind \in {"int", "dec"} /\ l.v \in Nat
    BY <1>1, AssignmentIs
  <1>3. /\ ValueOK(y) /\ y.type # "INT4" /\ y.type \in {"INT8", "FLOAT8"} /\ y.v \in Int
        /\ y.type = "INT8" => y.v \in Nat
    BY <1>1, <1>2, LiteralIs DEF Value, ValueOK
  <1>4. CASE e.form = "lit"
    BY <1>1, <1>3, <1>4 DEF AssignmentValue
  <1>5. CASE e.form = "neg"
    <2>1. PICK n : n = -y.v
      OBVIOUS
    <2>2. AssignmentValue(e, x) = [type |-> y.type, v |-> n]
      BY <1>1, <1>3, <1>5, <2>1 DEF AssignmentValue, Minus, Value
    <2>3. n \in Int /\ (y.type = "INT8" => Fits(n, Int8Max))
      BY <1>3, <2>1, Written DEF ValueOK, Fits
    <2> QED
      BY <1>3, <2>2, <2>3 DEF ValueOK, Types
  <1>6. CASE e.form = "op"
    <2>1. PICK op : op = e.op
      OBVIOUS
    <2>2. op \in {"+", "-", "*"}
      BY <1>6, <2>1, AssignmentIs
    <2>3. AssignmentValue(e, x) = EvalBinary(x, op, y)
      BY <1>1, <1>6, <2>1 DEF AssignmentValue
    <2>4. PICK n, r : n = Calculate(x.v, op, y.v) /\ r = Rounded(y.type, n)
      OBVIOUS
    <2>5. n \in Int
      BY <1>3, <2>2, <2>4, Calculates DEF ValueOK
    <2>6. r \in Int /\ (y.type = "INT8" => Fits(r, Int8Max))
      <3>1. CASE y.type = "INT8"
        <4>1. r = Wrap(n, Int8Max)
          BY <2>4, <3>1 DEF Rounded
        <4> QED
          BY <2>5, <4>1, Written, WrapIs
      <3>2. CASE y.type = "FLOAT8"
        <4>1. r = Round(n)
          BY <2>4, <3>2 DEF Rounded
        <4> QED
          BY <2>5, <3>2, <4>1, RoundIs
      <3> QED
        BY <1>3, <3>1, <3>2
    <2>7. CASE <<x.type, op, y.type>> \in Arithmetic
      <3>1. AssignmentValue(e, x) = [type |-> y.type, v |-> r]
        BY <2>2, <2>3, <2>4, <2>7, EvaluatesIs DEF Value
      <3> QED
        BY <1>3, <2>6, <3>1 DEF ValueOK, Types
    <2>8. CASE <<x.type, op, y.type>> \notin Arithmetic
      <3>1. AssignmentValue(e, x) = Null
        BY <2>2, <2>3, <2>8, EvaluatesIs
      <3> QED
        BY <3>1 DEF ValueOK, Types, Null, Value
    <2> QED
      BY <2>7, <2>8
  <1> QED
    BY <1>4, <1>5, <1>6, AssignmentIs

LEMMA MeaningIs ==
    ASSUME NEW e \in Assignments, NEW t \in Meanings
    PROVE  Meaning(e, t) \in Meanings
  <1>1. PICK l, op : l = e.lit /\ op = e.op
    OBVIOUS
  <1>2. l \in Meanings /\ l.kind \in {"int", "dec"} /\ l.v \in Int
    BY <1>1, AssignmentIs, Written
  <1>3. t.v \in Int /\ Scaled(t) \in Int /\ Scaled(l) \in Int
    BY <1>2, Written DEF Meanings, Scaled
  <1>4. CASE e.form = "lit"
    BY <1>1, <1>2, <1>4 DEF Meaning
  <1>5. CASE e.form = "neg"
    BY <1>1, <1>2, <1>5 DEF Meaning, Token, Meanings
  <1>6. CASE e.form = "op"
    <2>1. op \in {"+", "-", "*"}
      BY <1>1, <1>6, AssignmentIs
    <2>2. PICK m, n : m = Calculate(t.v, op, l.v) /\ n = Calculate(Scaled(t), op, Scaled(l))
      OBVIOUS
    <2>3. m \in Int /\ n \in Int
      BY <1>2, <1>3, <2>1, <2>2, Calculates
    <2>4. Meaning(e, t) \in {t, Token("int", m), Token("dec", n)}
      BY <1>1, <1>6, <2>2 DEF Meaning
    <2> QED
      BY <2>3, <2>4 DEF Token, Meanings
  <1> QED
    BY <1>4, <1>5, <1>6, AssignmentIs

(* Arithmetic that eval_binary knows, on numbers that mean what the        *)
(* statements say.                                                         *)
LEMMA CalculatedMeans ==
    ASSUME NEW e \in Assignments, e.form = "op", NEW x, ValueOK(x), NEW t \in Meanings, Means(x, t),
           ~TooLarge(e.lit), ~Unknown(e, x), ~Rounds(e, x, t), ~OutOfRange(Meaning(e, t))
    PROVE  Means(AssignmentValue(e, x), Meaning(e, t))
  <1>1. PICK l, y, op : l = e.lit /\ y = FromSqlLiteral(l) /\ op = e.op
    OBVIOUS
  <1>2. l \in Writable /\ l.kind \in {"int", "dec"} /\ l.v \in Nat /\ op \in {"+", "-", "*"}
    BY <1>1, AssignmentIs
  <1>3. y = IF l.kind = "int" THEN Value("INT8", l.v) ELSE Value("FLOAT8", Round(l.v))
    BY <1>1, <1>2, LiteralIs DEF TooLarge
  <1>4. /\ y.type = (IF l.kind = "int" THEN "INT8" ELSE "FLOAT8")
        /\ y.v = IF l.kind = "int" THEN l.v ELSE Round(l.v)
    BY <1>3 DEF Value
  <1>5. t.kind \in {"int", "dec", "text", "bool", "null"} /\ t.v \in Int
    BY DEF Meanings
  <1>6. PICK z : z = AssignmentValue(e, x)
    OBVIOUS
  <1>7. z = IF <<x.type, op, y.type>> \in Arithmetic
            THEN Value(y.type, Rounded(y.type, Calculate(x.v, op, y.v))) ELSE Null
    <2>1. z = EvalBinary(x, op, y)
      BY <1>1, <1>6 DEF AssignmentValue
    <2> QED
      BY <1>2, <2>1, EvaluatesIs
  <1>8. CASE t.kind = "null"
    <2>1. x.type = "NULL"
      BY <1>8 DEF Means, Null, Value
    <2>2. z = Null
      BY <1>7, <2>1 DEF Arithmetic
    <2>3. Meaning(e, t) = t
      BY <1>8 DEF Meaning
    <2> QED
      BY <1>6, <1>8, <2>2, <2>3 DEF Means
  <1>9. CASE t.kind # "null"
    <2>1. x.type # "NULL"
      BY <1>5, <1>9 DEF Means, Value
    <2>2. <<x.type, op, y.type>> \in Arithmetic
      BY <1>1, <2>1 DEF Unknown, IsNull
    <2>3. z = Value(y.type, Rounded(y.type, Calculate(x.v, op, y.v)))
      BY <1>7, <2>2
    <2>4. \/ x.type \in {"INT4", "INT8"} /\ y.type = "INT8"
          \/ x.type = "FLOAT8" /\ y.type = "FLOAT8"
      BY <1>4, <2>2 DEF Arithmetic
    <2>5. CASE x.type \in {"INT4", "INT8"} /\ y.type = "INT8"
      <3>1. t.kind = "int" /\ x.v = t.v
        BY <1>5, <1>9, <2>5 DEF Means, Value
      <3>2. l.kind = "int"
        BY <1>4, <2>5
      <3>3. PICK n : n = Calculate(t.v, op, l.v)
        OBVIOUS
      <3>4. n \in Int
        <4>1. PICK a, b : a = t.v /\ b = l.v
          OBVIOUS
        <4>2. a \in Int /\ b \in Int
          BY <1>2, <1>5, <4>1
        <4>3. Calculate(a, op, b) \in Int
          BY <1>2, <4>2, Calculates
        <4> QED
          BY <3>3, <4>1, <4>3
      <3>5. Meaning(e, t) = Token("int", n)
        BY <1>1, <3>1, <3>2, <3>3 DEF Meaning
      <3>6. Fits(n, Int8Max)
        BY <3>4, <3>5, Written DEF OutOfRange, Token, Fits
      <3>7. Rounded(y.type, Calculate(x.v, op, y.v)) = Wrap(n, Int8Max)
        BY <1>4, <2>5, <3>1, <3>2, <3>3 DEF Rounded
      <3>8. Wrap(n, Int8Max) = n
        BY <3>4, <3>6, Written, WrapIs
      <3>9. z = Value("INT8", n)
        BY <2>3, <2>5, <3>7, <3>8
      <3>10. Means(z, Token("int", n))
        BY <3>9 DEF Means, Token
      <3> QED
        BY <1>6, <3>5, <3>10
    <2>6. CASE x.type = "FLOAT8" /\ y.type = "FLOAT8"
      <3>10. Round(Scaled(l)) = Scaled(l) /\ (Numeric(t) => Round(Scaled(t)) = Scaled(t))
        BY <1>1, <1>2, <2>6 DEF Rounds, Inexact, Numeric
      <3>1. t.kind \in {"int", "dec"} /\ x.v = Scaled(t)
        <4>1. t.kind \in {"int", "dec"} /\ x.v = Round(Scaled(t))
          BY <1>5, <1>9, <2>6 DEF Means, Value, Scaled
        <4> QED
          BY <3>10, <4>1 DEF Numeric
      <3>2. l.kind = "dec" /\ y.v = Scaled(l)
        BY <1>2, <1>4, <2>6, <3>10 DEF Scaled
      <3>3. PICK n : n = Calculate(Scaled(t), op, Scaled(l))
        OBVIOUS
      <3>4. Meaning(e, t) = Token("dec", n)
        BY <1>1, <3>1, <3>2, <3>3 DEF Meaning
      <3>5. z = Value("FLOAT8", Round(n))
        BY <2>3, <2>6, <3>1, <3>2, <3>3 DEF Rounded
      <3>6. Means(z, Token("dec", n))
        BY <3>5 DEF Means, Token
      <3> QED
        BY <1>6, <3>4, <3>6
    <2> QED
      BY <2>4, <2>5, <2>6
  <1> QED
    BY <1>8, <1>9

(* What an assignment computes means what it says, unless the row is lost  *)
(* by it.                                                                  *)
LEMMA AssignedMeans ==
    ASSUME NEW e \in Assignments, NEW x, ValueOK(x), NEW t \in Meanings,
           e.form = "op" => Means(x, t) /\ ~Unknown(e, x), ~Rounds(e, x, t),
           ~TooLarge(e.lit), ~OutOfRange(Meaning(e, t))
    PROVE  Means(AssignmentValue(e, x), Meaning(e, t))
  <1>1. PICK l : l = e.lit
    OBVIOUS
  <1>2. l \in Writable /\ l.kind \in {"int", "dec"} /\ l.v \in Nat /\ ~TooLarge(l)
    BY <1>1, AssignmentIs
  <1>3. CASE e.form = "lit"
    <2>1. AssignmentValue(e, x) = FromSqlLiteral(l) /\ Meaning(e, t) = l
      BY <1>1, <1>3 DEF AssignmentValue, Meaning
    <2> QED
      BY <1>2, <2>1, LiteralMeans
  <1>4. CASE e.form = "neg"
    <2>1. PICK y, n : y = FromSqlLiteral(l) /\ n = -l.v
      OBVIOUS
    <2>2. y = IF l.kind = "int" THEN Value("INT8", l.v) ELSE Value("FLOAT8", Round(l.v))
      BY <1>2, <2>1, LiteralIs DEF TooLarge
    <2>6. Round(n) = -Round(l.v)
      BY <1>2, <2>1, RoundIs
    <2>3. Minus(y) = IF l.kind = "int" THEN Value("INT8", n) ELSE Value("FLOAT8", Round(n))
      BY <2>1, <2>2, <2>6 DEF Minus, Value
    <2>4. AssignmentValue(e, x) = Minus(y) /\ Meaning(e, t) = Token(l.kind, n)
      BY <1>1, <1>4, <2>1 DEF AssignmentValue, Meaning
    <2>5. Means(Minus(y), Token(l.kind, n))
      BY <1>2, <2>3 DEF Means, Token
    <2> QED
      BY <2>4, <2>5
  <1>5. CASE e.form = "op"
    BY <1>5, CalculatedMeans
  <1> QED
    BY <1>3, <1>4, <1>5, AssignmentIs

-----------------------------------------------------------------------------
(* Scans.                                                                  *)

RowsOK == next \in Nat \ {0} /\ DOMAIN rows \subseteq 1..(next - 1)

(* A scan comes by every row once.                                         *)
LEMMA IdsAre ==
    ASSUME RowsOK
    PROVE  Ids \in Seq(Nat) /\ IsInjective(Ids) /\ Range(Ids) = DOMAIN rows
  <1>1. PICK s, set, T : s = [i \in 1..(next - 1) |-> i] /\ set = DOMAIN rows /\ T = Nat
    OBVIOUS
  <1>2. next - 1 \in Nat
    BY DEF RowsOK
  <1>3. s \in Seq(T) /\ IsInjective(s) /\ Range(s) = 1..(next - 1)
    BY <1>1, <1>2 DEF IsInjective, Range
  <1>4. Only(s, set) \in Seq(T) /\ IsInjective(Only(s, set)) /\ Range(Only(s, set)) = Range(s) \cap set
    BY <1>3, OnlyIs
  <1> QED
    BY <1>1, <1>3, <1>4 DEF Ids, RowsOK

LEMMA ScanIs ==
    ASSUME RowsOK, NEW w
    PROVE  FullScan(w) \in Seq(Nat) /\ IsInjective(FullScan(w)) /\ Range(FullScan(w)) = Matching(w)
  <1>1. PICK s, set, T : s = Ids /\ set = Matching(w) /\ T = Nat
    OBVIOUS
  <1>2. s \in Seq(T) /\ IsInjective(s) /\ Range(s) = DOMAIN rows
    BY <1>1, IdsAre
  <1>3. Only(s, set) \in Seq(T) /\ IsInjective(Only(s, set)) /\ Range(Only(s, set)) = Range(s) \cap set
    BY <1>2, OnlyIs
  <1>4. set \subseteq DOMAIN rows
    BY <1>1 DEF Matching
  <1> QED
    BY <1>1, <1>2, <1>3, <1>4 DEF FullScan

-----------------------------------------------------------------------------
(* The invariant.                                                          *)

RowOK(c, x) == ValueOK(x) /\ ColumnOK(c, x)

QueryInv ==
    /\ col \in Columns /\ RowsOK /\ next <= MaxRows + 1 /\ index \in BOOLEAN
    /\ \A id \in DOMAIN rows : RowOK(col, rows[id])
    /\ DOMAIN meant = DOMAIN rows /\ lost \subseteq DOMAIN rows
    /\ \A id \in DOMAIN rows : meant[id] \in Meanings
    /\ \A id \in DOMAIN rows \ lost : Means(rows[id], meant[id])
    /\ index => Files(tree, rows)

LEMMA QueryInitHolds ==
    ASSUME QueryInit
    PROVE  QueryInv
  <1>1. DOMAIN << >> = {}
    OBVIOUS
  <1>2. DOMAIN rows = {} /\ DOMAIN meant = {}
    BY <1>1 DEF QueryInit
  <1>3. RowsOK
    BY <1>2 DEF QueryInit, RowsOK
  <1>4. next <= MaxRows + 1
    BY StatementAssumption DEF QueryInit
  <1> QED
    BY <1>2, <1>3, <1>4 DEF QueryInit, QueryInv

LEMMA InsertedIs ==
    ASSUME NEW l, NEW negative \in BOOLEAN,
           IF negative THEN l \in Operands ELSE l \in Literals
    PROVE  /\ ValueOK(InsertValue(l, negative)) /\ InsertValue(l, negative).type # "INT4"
           /\ (IF negative THEN Token(l.kind, -l.v) ELSE l) \in Meanings
           /\ ~negative /\ ~OutOfRange(l) => Means(InsertValue(l, negative), l)
  <1>1. l \in Writable /\ l \in Meanings
    BY Written
  <1>2. CASE negative
    <2>1. InsertValue(l, negative) = [type |-> "NULL", v |-> 0]
      BY <1>2 DEF InsertValue, Null, Value
    <2>2. Token(l.kind, -l.v) \in Meanings
      BY <1>2, Written DEF Token, Meanings
    <2>3. ValueOK([type |-> "NULL", v |-> 0])
      BY DEF ValueOK, Types
    <2>4. ValueOK(InsertValue(l, negative)) /\ InsertValue(l, negative).type # "INT4"
      BY <2>1, <2>3
    <2> QED
      BY <1>2, <2>2, <2>4
  <1>3. CASE ~negative
    <2>1. InsertValue(l, negative) = FromSqlLiteral(l)
      BY <1>3 DEF InsertValue
    <2> QED
      BY <1>1, <1>3, <2>1, LiteralIs, InRangeReads, LiteralMeans
  <1> QED
    BY <1>2, <1>3

LEMMA InsertHolds ==
    ASSUME QueryInv, NEW l, NEW negative \in BOOLEAN,
           IF negative THEN l \in Operands ELSE l \in Literals, Insert(l, negative)
    PROVE  QueryInv'
  <1>1. PICK x, y, t, id : /\ x = InsertValue(l, negative) /\ y = Stored(x) /\ id = next
                           /\ t = IF negative THEN Token(l.kind, -l.v) ELSE l
    OBVIOUS
  <1>2. /\ next <= MaxRows /\ Accepted(x) /\ rows' = With(rows, id, y) /\ next' = id + 1
        /\ tree' = (IF index THEN AddEntry(tree, y, id) ELSE tree)
        /\ meant' = With(meant, id, t)
        /\ lost' = (IF negative \/ OutOfRange(t) THEN lost \cup {id} ELSE lost)
        /\ col' = col /\ index' = index
    BY <1>1 DEF Insert
  <1>3. ValueOK(x) /\ x.type # "INT4" /\ t \in Meanings /\ (~negative /\ ~OutOfRange(l) => Means(x, l))
    BY <1>1, InsertedIs
  <1>4. RowOK(col, y)
    BY <1>1, <1>2, <1>3, StoredFits DEF RowOK
  <1>5. ~negative /\ ~OutOfRange(t) => Means(y, t)
    <2>1. SUFFICES ASSUME ~negative, ~OutOfRange(t)
                   PROVE  Means(y, t)
      OBVIOUS
    <2>2. t = l /\ Means(x, t)
      BY <1>1, <1>3, <2>1
    <2> QED
      BY <1>1, <1>2, <1>3, <2>1, <2>2, StoredMeans
  <1>6. id \in Nat \ {0} /\ id \notin DOMAIN rows
    BY <1>1 DEF QueryInv, RowsOK
  <1>7. /\ DOMAIN rows' = DOMAIN rows \cup {id} /\ rows'[id] = y
        /\ \A i \in DOMAIN rows : rows'[i] = rows[i]
    BY <1>2, <1>6 DEF With
  <1>8. /\ DOMAIN meant' = DOMAIN rows \cup {id} /\ meant'[id] = t
        /\ \A i \in DOMAIN rows : meant'[i] = meant[i]
    BY <1>2, <1>6 DEF With, QueryInv
  <1>9. RowsOK'
    BY <1>1, <1>2, <1>6, <1>7 DEF QueryInv, RowsOK
  <1>10. next' <= MaxRows + 1
    BY <1>1, <1>2, <1>6, StatementAssumption
  <1>11. \A i \in DOMAIN rows' : RowOK(col', rows'[i])
    BY <1>2, <1>4, <1>7 DEF QueryInv
  <1>12. \A i \in DOMAIN rows' : meant'[i] \in Meanings
    BY <1>3, <1>7, <1>8 DEF QueryInv
  <1>13. lost' \subseteq DOMAIN rows'
    BY <1>2, <1>7 DEF QueryInv
  <1>14. \A i \in DOMAIN rows' \ lost' : Means(rows'[i], meant'[i])
    BY <1>2, <1>5, <1>7, <1>8 DEF QueryInv
  <1>15. index' => Files(tree', rows')
    <2>1. SUFFICES ASSUME index
                   PROVE  Files(AddEntry(tree, y, id), rows')
      BY <1>2
    <2>2. PICK g : g = rows'
      OBVIOUS
    <2>3. Files(tree, rows)
      BY <2>1 DEF QueryInv
    <2>4. Files(AddEntry(tree, y, id), g)
      BY <1>6, <1>7, <2>2, <2>3, AddsEntry
    <2> QED
      BY <2>2, <2>4
  <1> QED
    BY <1>2, <1>7, <1>8, <1>9, <1>10, <1>11, <1>12, <1>13, <1>14, <1>15 DEF QueryInv

LEMMA UpdateHolds ==
    ASSUME QueryInv, NEW e \in Assignments, NEW w, Update(e, w)
    PROVE  QueryInv'
  <1> DEFINE hit == Matching(w)
             value == [id \in hit |-> AssignmentValue(e, rows[id])]
             new == [id \in hit |-> Stored(value[id])]
             says == [id \in hit |-> Meaning(e, meant[id])]
  <1>1. RowsOK
    BY DEF QueryInv
  <1>2. PICK ids : ids = FullScan(w)
    OBVIOUS
  <1>3. ids \in Seq(Nat) /\ IsInjective(ids) /\ Range(ids) = hit /\ hit \subseteq DOMAIN rows
    BY <1>1, <1>2, ScanIs DEF Matching
  <1>4. /\ \A id \in hit : Accepted(value[id])
        /\ rows' = [id \in DOMAIN rows |-> IF id \in hit THEN new[id] ELSE rows[id]]
        /\ tree' = (IF index THEN Reindexed(tree, ids, rows, new) ELSE tree)
        /\ meant' = [id \in DOMAIN rows |-> IF id \in hit THEN says[id] ELSE meant[id]]
        /\ lost' = {id \in DOMAIN rows :
                      IF id \notin hit THEN id \in lost
                      ELSE \/ OutOfRange(says[id]) \/ TooLarge(e.lit)
                           \/ Rounds(e, rows[id], meant[id])
                           \/ e.form = "op" /\ (id \in lost \/ Unknown(e, rows[id]))}
        /\ col' = col /\ next' = next /\ index' = index
    BY <1>2, <1>3 DEF Update
  <1>5. ASSUME NEW id \in hit
        PROVE  /\ RowOK(col, new[id]) /\ says[id] \in Meanings
               /\ id \notin lost' => Means(new[id], says[id])
    <2>1. PICK x, y, t, u : /\ x = rows[id] /\ y = AssignmentValue(e, x) /\ t = meant[id]
                            /\ u = Meaning(e, t)
      OBVIOUS
    <2>2. new[id] = Stored(y) /\ says[id] = u /\ value[id] = y
      BY <2>1
    <2>3. RowOK(col, x) /\ t \in Meanings /\ id \in DOMAIN rows
      BY <1>3, <2>1 DEF QueryInv
    <2>4. ValueOK(y) /\ y.type # "INT4" /\ u \in Meanings /\ Accepted(y)
      BY <1>4, <2>1, <2>2, <2>3, AssignedFits, MeaningIs DEF RowOK
    <2>5. RowOK(col, Stored(y))
      BY <2>4, StoredFits DEF RowOK
    <2>6. ASSUME id \notin lost'
          PROVE  Means(Stored(y), u)
      <3>1. /\ ~OutOfRange(u) /\ ~TooLarge(e.lit) /\ ~Rounds(e, x, t)
            /\ e.form = "op" => id \notin lost /\ ~Unknown(e, x)
        BY <1>4, <2>1, <2>2, <2>3, <2>6
      <3>2. e.form = "op" => Means(x, t)
        BY <2>1, <2>3, <3>1 DEF QueryInv
      <3>3. Means(y, u)
        BY <2>1, <2>3, <3>1, <3>2, AssignedMeans DEF RowOK
      <3> QED
        BY <2>4, <3>1, <3>3, StoredMeans
    <2> QED
      BY <2>2, <2>4, <2>5, <2>6
  <1>6. PICK n, s : n = new /\ s = says
    OBVIOUS
  <1>7. /\ DOMAIN n = hit
        /\ DOMAIN rows' = DOMAIN rows /\ DOMAIN meant' = DOMAIN rows
        /\ \A id \in DOMAIN rows : rows'[id] = IF id \in hit THEN n[id] ELSE rows[id]
        /\ \A id \in DOMAIN rows : meant'[id] = IF id \in hit THEN s[id] ELSE meant[id]
        /\ lost' \subseteq DOMAIN rows
        /\ \A id \in DOMAIN rows \ hit : id \notin lost' => id \notin lost
    BY <1>4, <1>6
  <1>8. \A id \in hit : /\ RowOK(col, n[id]) /\ s[id] \in Meanings
                        /\ id \notin lost' => Means(n[id], s[id])
    BY <1>5, <1>6
  <1>9. index => tree' = Reindexed(tree, ids, rows, n)
    BY <1>4, <1>6
  <1> HIDE DEF value, new, says, hit
  <1>10. RowsOK'
    BY <1>1, <1>4, <1>7 DEF RowsOK
  <1>11. \A id \in DOMAIN rows' : RowOK(col', rows'[id])
    BY <1>4, <1>7, <1>8 DEF QueryInv
  <1>12. \A id \in DOMAIN rows' : meant'[id] \in Meanings
    BY <1>7, <1>8 DEF QueryInv
  <1>13. \A id \in DOMAIN rows' \ lost' : Means(rows'[id], meant'[id])
    BY <1>7, <1>8 DEF QueryInv
  <1>14. index' => Files(tree', rows')
    <2>1. SUFFICES ASSUME index
                   PROVE  Files(tree', rows')
      BY <1>4
    <2>2. PICK f, g, a : f = rows /\ g = rows' /\ a = After(f, n, Range(ids))
      OBVIOUS
    <2>3. Files(tree, f)
      BY <2>1, <2>2 DEF QueryInv
    <2>4. Files(Reindexed(tree, ids, f, n), a)
      BY <1>3, <2>2, <2>3, ReindexedIs
    <2>5. DOMAIN a = DOMAIN f /\ \A i \in DOMAIN f : a[i] = IF i \in hit THEN n[i] ELSE f[i]
      BY <1>3, <1>7, <2>2 DEF After
    <2>6. DOMAIN g = DOMAIN a /\ \A i \in DOMAIN a : g[i] = a[i]
      BY <1>7, <2>2, <2>5
    <2>7. Files(Reindexed(tree, ids, f, n), g)
      BY <2>4, <2>6, FilesSame
    <2> QED
      BY <1>9, <2>1, <2>2, <2>7
  <1>15. next' <= MaxRows + 1 /\ col' \in Columns /\ index' \in BOOLEAN
    BY <1>4 DEF QueryInv
  <1> QED
    BY <1>7, <1>10, <1>11, <1>12, <1>13, <1>14, <1>15 DEF QueryInv

LEMMA DeleteHolds ==
    ASSUME QueryInv, NEW w, Delete(w)
    PROVE  QueryInv'
  <1>1. RowsOK
    BY DEF QueryInv
  <1>2. PICK ids, hit, left : ids = FullScan(w) /\ hit = Matching(w) /\ left = DOMAIN rows \ hit
    OBVIOUS
  <1>3. ids \in Seq(Nat) /\ IsInjective(ids) /\ Range(ids) = hit /\ hit \subseteq DOMAIN rows
    BY <1>1, <1>2, ScanIs DEF Matching
  <1>4. /\ rows' = Restrict(rows, left) /\ meant' = Restrict(meant, left)
        /\ tree' = (IF index THEN Reindexed(tree, ids, rows, <<>>) ELSE tree)
        /\ lost' = lost \ hit
        /\ col' = col /\ next' = next /\ index' = index
    BY <1>2, <1>3 DEF Delete
  <1>5. /\ DOMAIN rows' = left /\ DOMAIN meant' = left
        /\ \A id \in left : rows'[id] = rows[id] /\ meant'[id] = meant[id]
    BY <1>4 DEF Restrict
  <1>6. RowsOK'
    BY <1>1, <1>2, <1>4, <1>5 DEF RowsOK
  <1>7. \A id \in DOMAIN rows' : RowOK(col', rows'[id]) /\ meant'[id] \in Meanings
    BY <1>2, <1>4, <1>5 DEF QueryInv
  <1>8. \A id \in DOMAIN rows' \ lost' : Means(rows'[id], meant'[id])
    BY <1>2, <1>4, <1>5 DEF QueryInv
  <1>9. lost' \subseteq DOMAIN rows'
    BY <1>2, <1>4, <1>5 DEF QueryInv
  <1>10. index' => Files(tree', rows')
    <2>1. SUFFICES ASSUME index
                   PROVE  Files(tree', rows')
      BY <1>4
    <2>2. PICK f, g, n, a : f = rows /\ g = rows' /\ n = << >> /\ a = After(f, n, Range(ids))
      OBVIOUS
    <2>3. Files(tree, f)
      BY <2>1, <2>2 DEF QueryInv
    <2>4. Files(Reindexed(tree, ids, f, n), a)
      BY <1>3, <2>2, <2>3, ReindexedIs
    <2>5. DOMAIN << >> = {}
      OBVIOUS
    <2>6. DOMAIN n = {}
      BY <2>2, <2>5
    <2>7. DOMAIN a = left /\ \A i \in left : a[i] = f[i]
      BY <1>2, <1>3, <2>2, <2>6 DEF After
    <2>8. DOMAIN g = DOMAIN a /\ \A i \in DOMAIN a : g[i] = a[i]
      BY <1>5, <2>2, <2>7
    <2>9. Files(Reindexed(tree, ids, f, n), g)
      BY <2>4, <2>8, FilesSame
    <2> QED
      BY <1>4, <2>1, <2>2, <2>9
  <1>11. next' <= MaxRows + 1 /\ col' \in Columns /\ index' \in BOOLEAN
    BY <1>4 DEF QueryInv
  <1> QED
    BY <1>5, <1>6, <1>7, <1>8, <1>9, <1>10, <1>11 DEF QueryInv

LEMMA CreateIndexHolds ==
    ASSUME QueryInv, CreateIndex
    PROVE  QueryInv'
  <1>1. RowsOK
    BY DEF QueryInv
  <1>2. PICK ids, e, n, a : ids = Ids /\ e = << >> /\ n = rows /\ a = After(e, n, Range(ids))
    OBVIOUS
  <1>3. ids \in Seq(Nat) /\ IsInjective(ids) /\ Range(ids) = DOMAIN rows
    BY <1>1, <1>2, IdsAre
  <1>4. /\ index' = TRUE /\ tree' = Reindexed(e, ids, e, n)
        /\ rows' = rows /\ next' = next /\ col' = col /\ meant' = meant /\ lost' = lost
    BY <1>2 DEF CreateIndex, table
  <1>5. DOMAIN << >> = {}
    OBVIOUS
  <1>6. DOMAIN e = {}
    BY <1>2, <1>5
  <1>7. Files(e, e)
    BY <1>6 DEF Files
  <1>8. Files(Reindexed(e, ids, e, n), a)
    BY <1>2, <1>3, <1>7, ReindexedIs
  <1>9. DOMAIN n = DOMAIN a /\ \A i \in DOMAIN a : n[i] = a[i]
    BY <1>2, <1>3, <1>6 DEF After
  <1>10. Files(Reindexed(e, ids, e, n), n)
    BY <1>8, <1>9, FilesSame
  <1>11. Files(tree', rows')
    BY <1>2, <1>4, <1>10
  <1>12. RowsOK'
    BY <1>1, <1>4 DEF RowsOK
  <1> QED
    BY <1>4, <1>11, <1>12 DEF QueryInv

LEMMA QueryStepKeeps ==
    ASSUME QueryInv, [QueryNext]_queryVars
    PROVE  QueryInv'
  <1>1. CASE UNCHANGED queryVars
    <2>1. /\ rows' = rows /\ next' = next /\ col' = col /\ meant' = meant /\ lost' = lost
          /\ tree' = tree /\ index' = index
      BY <1>1 DEF queryVars, table
    <2>2. RowsOK'
      BY <2>1 DEF RowsOK, QueryInv
    <2> QED
      BY <2>1, <2>2 DEF QueryInv
  <1>2. CASE \E l \in Literals : Insert(l, FALSE)
    BY <1>2, InsertHolds
  <1>3. CASE \E l \in Operands : Insert(l, TRUE)
    BY <1>3, InsertHolds
  <1>4. CASE \E e \in Assignments, w \in Wheres : Update(e, w)
    BY <1>4, UpdateHolds
  <1>5. CASE \E w \in Wheres : Delete(w)
    BY <1>5, DeleteHolds
  <1>6. CASE CreateIndex
    BY <1>6, CreateIndexHolds
  <1> QED
    BY <1>1, <1>2, <1>3, <1>4, <1>5, <1>6 DEF QueryNext

LEMMA QueryInvariant == QuerySpec => []QueryInv
  <1>1. QueryInit => QueryInv
    BY QueryInitHolds
  <1>2. QueryInv /\ [QueryNext]_queryVars => QueryInv'
    BY QueryStepKeeps
  <1> QED
    BY <1>1, <1>2, PTL DEF QuerySpec

LEMMA TypeFollows == QueryInv => TypeOK
  <1> SUFFICES ASSUME QueryInv
               PROVE  TypeOK
    OBVIOUS
  <1>1. ASSUME NEW id \in DOMAIN rows
        PROVE  /\ IsNull(rows[id]) => col.nullable
               /\ ~IsNull(rows[id]) => rows[id].type = col.type \/ col.type = "VARCHAR"
               /\ rows[id].type = "INT4" => Fits(rows[id].v, Int4Max)
               /\ rows[id].type = "INT8" => Fits(rows[id].v, Int8Max)
    BY DEF QueryInv, RowOK, ValueOK, ColumnOK
  <1>2. index => UNION {Range(tree[k]) : k \in DOMAIN tree} = DOMAIN rows
    <2>1. SUFFICES ASSUME Files(tree, rows)
                   PROVE  UNION {Range(tree[k]) : k \in DOMAIN tree} = DOMAIN rows
      BY DEF QueryInv
    <2>2. \A k \in DOMAIN tree : Range(tree[k]) \subseteq DOMAIN rows
      BY <2>1 DEF Files
    <2>3. \A id \in DOMAIN rows : \E k \in DOMAIN tree : id \in Range(tree[k])
      BY <2>1 DEF Files
    <2> QED
      BY <2>2, <2>3
  <1> QED
    BY <1>1, <1>2 DEF TypeOK, QueryInv

(* After any statements a column holds values of its own type, integers    *)
(* that fit its width and NULL only where it is allowed, and its index has *)
(* an entry of every row and of no other (types.rs coerce_to, executor.rs  *)
(* validate_row, index.rs insert_row and remove_row).                      *)
THEOREM ColumnsHoldTheirType == QuerySpec => []TypeOK
  BY QueryInvariant, TypeFollows, PTL

-----------------------------------------------------------------------------
(* Searches.                                                               *)

LEMMA EqualIs ==
    ASSUME NEW l, NEW x, NEW y, y = FromSqlLiteral(l)
    PROVE  EvalWhere(Cmp("=", l), x) <=> ~IsNull(x) /\ ~IsNull(y) /\ ValuesEqual(x, y)
  <1>1. PICK w : w = Cmp("=", l)
    OBVIOUS
  <1>2. w.form = "cmp" /\ w.op = "=" /\ w.lit = l
    BY <1>1 DEF Cmp
  <1>3. EvalWhere(w, x) = IsTrue(EvalBinary(x, "=", y))
    BY <1>2 DEF EvalWhere
  <1>4. EvalBinary(x, "=", y) = Bool(~IsNull(x) /\ ~IsNull(y) /\ ValuesEqual(x, y))
    BY DEF EvalBinary
  <1>5. IsTrue(Bool(TRUE)) /\ ~IsTrue(Bool(FALSE))
    BY DEF IsTrue, Bool, Value
  <1>6. CASE ~IsNull(x) /\ ~IsNull(y) /\ ValuesEqual(x, y)
    BY <1>1, <1>3, <1>4, <1>5, <1>6
  <1>7. CASE ~(~IsNull(x) /\ ~IsNull(y) /\ ValuesEqual(x, y))
    BY <1>1, <1>3, <1>4, <1>5, <1>7
  <1> QED
    BY <1>6, <1>7

LEMMA LookupIs ==
    ASSUME QueryInv, index, NEW l, NEW k, k = Key(FromSqlLiteral(l))
    PROVE  /\ Lookup(l) \in Seq(Nat) /\ IsInjective(Lookup(l))
           /\ Range(Lookup(l)) = {i \in DOMAIN rows : Key(rows[i]) = k}
  <1>1. Files(tree, rows)
    BY DEF QueryInv
  <1>2. Lookup(l) = IF k \in DOMAIN tree THEN tree[k] ELSE <<>>
    BY DEF Lookup
  <1>3. CASE k \in DOMAIN tree
    BY <1>1, <1>2, <1>3 DEF Files
  <1>4. CASE k \notin DOMAIN tree
    <2>1. {i \in DOMAIN rows : Key(rows[i]) = k} = {}
      BY <1>1, <1>4 DEF Files
    <2>2. << >> \in Seq(Nat) /\ IsInjective(<< >>) /\ Range(<< >>) = {}
      BY DEF IsInjective, Range
    <2> QED
      BY <1>2, <1>4, <2>1, <2>2
  <1> QED
    BY <1>3, <1>4

LEMMA IndexLookupIs ==
    ASSUME QueryInv, index, NEW l, NEW w, w = Cmp("=", l), NEW k, k = Key(FromSqlLiteral(l))
    PROVE  /\ IsInjective(IndexLookup(w))
           /\ Range(IndexLookup(w)) = {i \in Matching(w) : Key(rows[i]) = k}
  <1>1. PICK s, set, T : s = Lookup(l) /\ set = Matching(w) /\ T = Nat
    OBVIOUS
  <1>2. s \in Seq(T) /\ IsInjective(s) /\ Range(s) = {i \in DOMAIN rows : Key(rows[i]) = k}
    BY <1>1, LookupIs
  <1>3. IsInjective(Only(s, set)) /\ Range(Only(s, set)) = Range(s) \cap set
    BY <1>2, OnlyIs
  <1>4. w.lit = l
    BY DEF Cmp
  <1>5. IndexLookup(w) = Only(s, set)
    BY <1>1, <1>4 DEF IndexLookup
  <1>6. set \subseteq DOMAIN rows
    BY <1>1 DEF Matching
  <1> QED
    BY <1>1, <1>2, <1>3, <1>5, <1>6

LEMMA PlansFollow == QueryInv => PlansAgree
  <1> SUFFICES ASSUME QueryInv, index, NEW l \in Literals
               PROVE  LET found == IndexLookup(Cmp("=", l))
                          there == Range(FullScan(Cmp("=", l)))
                      IN  /\ IsInjective(found) /\ Range(found) \subseteq there
                          /\ \A id \in there \ Range(found) :
                                rows[id].type = "FLOAT8" /\ rows[id].v # FromSqlLiteral(l).v
    BY DEF PlansAgree
  <1>1. PICK w, y, k, found, there : /\ w = Cmp("=", l) /\ y = FromSqlLiteral(l) /\ k = Key(y)
                                     /\ found = IndexLookup(w) /\ there = Range(FullScan(w))
    OBVIOUS
  <1>2. IsInjective(found) /\ Range(found) = {i \in Matching(w) : Key(rows[i]) = k}
    BY <1>1, IndexLookupIs
  <1>3. there = Matching(w)
    BY <1>1, ScanIs DEF QueryInv
  <1>4. ASSUME NEW id \in there, id \notin Range(found)
        PROVE  rows[id].type = "FLOAT8" /\ rows[id].v # y.v
    <2>1. PICK x : x = rows[id]
      OBVIOUS
    <2>2. EvalWhere(w, x) /\ Key(x) # Key(y)
      BY <1>1, <1>2, <1>3, <1>4, <2>1 DEF Matching
    <2>3. ~IsNull(x) /\ ValuesEqual(x, y)
      BY <1>1, <2>2, EqualIs
    <2> QED
      BY <2>1, <2>2, <2>3 DEF ValuesEqual, Key, Integer, IsNull, Value
  <1> QED
    BY <1>1, <1>2, <1>3, <1>4

(* For every literal, WHERE c = l finds the same rows, once each, through  *)
(* the index and by a full scan, after any inserts, updates and deletes    *)
(* and whichever of them came before CREATE INDEX; only a double near the  *)
(* literal is missed (planner.rs plan_scan, index.rs ComparableValue,      *)
(* parser.rs values_equal).                                                *)
THEOREM PlansAlwaysAgree == QuerySpec => []PlansAgree
  BY QueryInvariant, PlansFollow, PTL

(* A row whose value equals the literal, with the same key, is selected.   *)
LEMMA SelectsEqual ==
    ASSUME QueryInv, NEW id \in DOMAIN rows, NEW t, NEW x, NEW y, x = rows[id], y = FromSqlLiteral(t),
           ~IsNull(x), ~IsNull(y), ValuesEqual(x, y), Key(x) = Key(y)
    PROVE  id \in Range(Select(Cmp("=", t)))
  <1>1. PICK w, k : w = Cmp("=", t) /\ k = Key(y)
    OBVIOUS
  <1>2. id \in Matching(w)
    BY <1>1, EqualIs DEF Matching
  <1>3. CASE Planned(w)
    <2>1. index
      BY <1>3 DEF Planned
    <2>2. Range(IndexLookup(w)) = {i \in Matching(w) : Key(rows[i]) = k}
      BY <1>1, <2>1, IndexLookupIs
    <2> QED
      BY <1>1, <1>2, <1>3, <2>2 DEF Select
  <1>4. CASE ~Planned(w)
    <2>1. Range(FullScan(w)) = Matching(w)
      BY ScanIs DEF QueryInv
    <2> QED
      BY <1>1, <1>2, <1>4, <2>1 DEF Select
  <1> QED
    BY <1>3, <1>4

LEMMA SelectsScanned ==
    ASSUME QueryInv, NEW w, w.form # "cmp", NEW id \in Matching(w)
    PROVE  id \in Range(Select(w))
  <1>1. Range(FullScan(w)) = Matching(w)
    BY ScanIs DEF QueryInv
  <1> QED
    BY <1>1 DEF Select, Planned

LEMMA FindsRow ==
    ASSUME QueryInv, NEW id \in DOMAIN rows \ lost, ~IntegerInDouble(id), ~Unwritable(id),
           NEW t, t = meant[id]
    PROVE  id \in Range(Select(IF t.kind = "null" THEN NullTest ELSE Search(t)))
  <1>1. PICK x : x = rows[id]
    OBVIOUS
  <1>2. ValueOK(x) /\ t \in Meanings /\ Means(x, t)
    BY <1>1 DEF QueryInv, RowOK
  <1>3. t.kind \in {"int", "dec", "text", "bool", "null"} /\ t.v \in Int /\ t = [kind |-> t.kind, v |-> t.v]
    BY <1>2 DEF Meanings
  <1>4. t.kind = "int" => Integer(x) /\ x.v = t.v
    BY <1>1, <1>2 DEF Means, Value, Integer, IntegerInDouble
  <1>5. t.kind = "int" => -t.v <= Int8Max /\ t.v <= Int8Max
    <2>1. SUFFICES ASSUME t.kind = "int"
                   PROVE  -t.v <= Int8Max /\ t.v <= Int8Max
      OBVIOUS
    <2>2. Fits(t.v, Int8Max)
      BY <1>2, <1>3, <1>4, <2>1, Written DEF ValueOK, Integer, Fits
    <2>3. t.v # -(Int8Max + 1)
      BY <1>3, <2>1 DEF Unwritable, Token
    <2> QED
      BY <1>3, <2>2, <2>3, Written DEF Fits
  <1>6. CASE t.kind = "null"
    <2>1. IsNull(x)
      BY <1>2, <1>6 DEF Means, IsNull, Null, Value
    <2>2. PICK w : w = NullTest
      OBVIOUS
    <2>3. w.form = "null"
      BY <2>2 DEF NullTest
    <2>4. EvalWhere(w, x)
      BY <2>1, <2>3 DEF EvalWhere
    <2>5. id \in Matching(w)
      BY <1>1, <2>4 DEF Matching
    <2> QED
      BY <1>6, <2>2, <2>3, <2>5, SelectsScanned
  <1>7. CASE Numeric(t) /\ t.v < 0
    <2>1. PICK n, l, w, y : n = -t.v /\ l = Token(t.kind, n) /\ w = Signed(l) /\ y = FromSqlLiteral(l)
      OBVIOUS
    <2>2. n \in Nat /\ l.kind = t.kind /\ l.v = n /\ t.kind \in {"int", "dec"}
      BY <1>3, <1>7, <2>1 DEF Token, Numeric
    <2>3. t.kind = "int" => Fits(n, Int8Max)
      BY <1>5, <2>1, <2>2, Written DEF Fits
    <2>4. y = IF t.kind = "int" THEN Value("INT8", n) ELSE Value("FLOAT8", Round(n))
      BY <2>1, <2>2, <2>3 DEF FromSqlLiteral
    <2>15. PICK r : r = Round(t.v) /\ r \in Int /\ Round(n) = -r
      BY <1>3, <2>1, RoundIs
    <2>5. /\ y.type = (IF t.kind = "int" THEN "INT8" ELSE "FLOAT8")
          /\ y.v = IF t.kind = "int" THEN n ELSE -r
      BY <2>4, <2>15 DEF Value
    <2>6. PICK z : z = Minus(y)
      OBVIOUS
    <2>7. z.type = y.type /\ z.v = IF t.kind = "int" THEN t.v ELSE r
      BY <1>3, <2>1, <2>5, <2>6, <2>15 DEF Minus, Value
    <2>8. t.kind = "dec" => x.type = "FLOAT8" /\ x.v = r
      BY <1>2, <2>15 DEF Means, Value
    <2>9. ValuesEqual(x, z) /\ ~IsNull(x) /\ ~IsNull(z)
      <3>1. CASE t.kind = "int"
        BY <1>4, <2>5, <2>7, <3>1 DEF ValuesEqual, Integer, IsNull
      <3>2. CASE t.kind = "dec"
        <4>1. x.type = "FLOAT8" /\ z.type = "FLOAT8" /\ Near(x.v, z.v)
          BY <2>5, <2>7, <2>8, <2>15, <3>2 DEF Near
        <4> QED
          BY <4>1 DEF ValuesEqual, IsNull
      <3> QED
        BY <2>2, <3>1, <3>2
    <2>10. w.form = "signed" /\ w.lit = l
      BY <2>1 DEF Signed
    <2>11. EvalBinary(x, "=", z) = Bool(~IsNull(x) /\ ~IsNull(z) /\ ValuesEqual(x, z))
      BY DEF EvalBinary
    <2>12. EvalWhere(w, x)
      <3>1. EvalWhere(w, x) = IsTrue(EvalBinary(x, "=", z))
        BY <2>1, <2>6, <2>10 DEF EvalWhere
      <3>2. IsTrue(Bool(TRUE))
        BY DEF IsTrue
      <3> QED
        BY <2>9, <2>11, <3>1, <3>2
    <2>13. id \in Matching(w)
      BY <1>1, <2>12 DEF Matching
    <2>14. Search(t) = w /\ t.kind # "null"
      BY <1>7, <2>1, <2>2 DEF Search
    <2> QED
      BY <2>10, <2>13, <2>14, SelectsScanned
  <1>8. CASE t.kind # "null" /\ ~(Numeric(t) /\ t.v < 0)
    <2>1. PICK y : y = FromSqlLiteral(t)
      OBVIOUS
    <2>2. ~IsNull(x) /\ ~IsNull(y) /\ ValuesEqual(x, y) /\ Key(x) = Key(y)
      <3>1. CASE t.kind = "int"
        <4>1. Fits(t.v, Int8Max)
          BY <1>3, <1>5, <1>8, <3>1, Written DEF Numeric, Fits
        <4>2. y = Value("INT8", t.v)
          BY <2>1, <3>1, <4>1 DEF FromSqlLiteral
        <4> QED
          BY <1>4, <3>1, <4>2 DEF Value, Integer, IsNull, ValuesEqual, Key
      <3>2. CASE t.kind = "dec"
        <4>1. y = Value("FLOAT8", Round(t.v))
          BY <2>1, <3>2 DEF FromSqlLiteral
        <4>2. x = y
          BY <1>2, <3>2, <4>1 DEF Means
        <4>3. Near(Round(t.v), Round(t.v))
          BY <1>3, RoundIs DEF Near
        <4> QED
          BY <4>1, <4>2, <4>3 DEF Value, IsNull, ValuesEqual
      <3>3. CASE t.kind = "text"
        <4>1. y = Value("TEXT", t.v)
          BY <2>1, <3>3 DEF FromSqlLiteral
        <4>2. x = y
          BY <1>2, <3>3, <4>1 DEF Means
        <4> QED
          BY <4>1, <4>2 DEF Value, IsNull, ValuesEqual
      <3>4. CASE t.kind = "bool"
        <4>1. y = Value("BOOL", t.v)
          BY <2>1, <3>4 DEF FromSqlLiteral
        <4>2. x = y
          BY <1>2, <3>4, <4>1 DEF Means
        <4> QED
          BY <4>1, <4>2 DEF Value, IsNull, ValuesEqual
      <3> QED
        BY <1>3, <1>8, <3>1, <3>2, <3>3, <3>4
    <2>3. id \in Range(Select(Cmp("=", t)))
      BY <1>1, <2>1, <2>2, SelectsEqual
    <2>4. Search(t) = Cmp("=", t)
      BY <1>8 DEF Search
    <2> QED
      BY <1>8, <2>3, <2>4
  <1> QED
    BY <1>6, <1>7, <1>8

LEMMA FindsFollow == QueryInv => FindsWritten
  <1> SUFFICES ASSUME QueryInv, NEW id \in DOMAIN rows \ lost, ~IntegerInDouble(id), ~Unwritable(id)
               PROVE  id \in Range(Select(IF meant[id].kind = "null" THEN NullTest ELSE Search(meant[id])))
    BY DEF FindsWritten
  <1> QED
    BY FindsRow

(* A row is found by the value its INSERT and UPDATEs gave it, whatever    *)
(* widths, coercions and arithmetic it went through, with and without an   *)
(* index, but for the exceptions that FindsWritten names, the arithmetic   *)
(* that starts from a rounded decimal among them (types.rs                 *)
(* from_sql_literal and coerce_to, parser.rs eval_binary and eval_where,   *)
(* executor.rs select).                                                    *)
THEOREM WritesAreFound == QuerySpec => []FindsWritten
  BY QueryInvariant, FindsFollow, PTL

(* SELECT without a WHERE finds every row.                                 *)
LEMMA SelectAll ==
    ASSUME QueryInv
    PROVE  /\ Select(AnyRow) \in Seq(Nat) /\ IsInjective(Select(AnyRow))
           /\ Range(Select(AnyRow)) = DOMAIN rows
  <1>1. PICK w : w = AnyRow
    OBVIOUS
  <1>2. w.form = "any"
    BY <1>1 DEF AnyRow
  <1>3. Select(w) = FullScan(w)
    BY <1>2 DEF Select, Planned
  <1>4. Matching(w) = DOMAIN rows
    BY <1>2 DEF Matching, EvalWhere
  <1>5. FullScan(w) \in Seq(Nat) /\ IsInjective(FullScan(w)) /\ Range(FullScan(w)) = Matching(w)
    BY ScanIs DEF QueryInv
  <1> QED
    BY <1>1, <1>3, <1>4, <1>5

(* Two stored values display alike just when they are equal.               *)
LEMMA DisplaysAlike ==
    ASSUME NEW c, NEW x, NEW y, RowOK(c, x), RowOK(c, y), ~Lookalike(x, y), ~NearDoubles(x, y)
    PROVE  Display(x) = Display(y) <=> ValuesEqual(x, y)
  <1>1. /\ x.type \in Types /\ x.v \in Int /\ y.type \in Types /\ y.v \in Int
    BY DEF RowOK, ValueOK
  <1>2. CASE x.type # y.type
    <2>1. Display(x) # Display(y)
      BY <1>2 DEF Lookalike
    <2>2. ~(Integer(x) /\ Integer(y))
      BY <1>2 DEF RowOK, ColumnOK, Integer, IsNull
    <2> QED
      BY <1>2, <2>1, <2>2 DEF ValuesEqual
  <1>3. CASE x.type = y.type
    <2>1. CASE x.type = "NULL"
      BY <1>3, <2>1 DEF RowOK, ValueOK, Display, ValuesEqual, IsNull
    <2>2. CASE x.type = "TEXT"
      BY <1>3, <2>2 DEF Display, ValuesEqual, IsNull, Integer
    <2>3. CASE x.type = "BOOL"
      <3>0. BoolText(TRUE) # BoolText(FALSE)
        BY DisplayAssumption
      <3>1. x.v \in {0, 1} /\ y.v \in {0, 1}
        BY <1>3, <2>3 DEF RowOK, ValueOK
      <3>2. Display(x) = BoolText(x.v = 1) /\ Display(y) = BoolText(y.v = 1)
        BY <1>3, <2>3 DEF Display, IsNull
      <3>3. Display(x) = Display(y) <=> x.v = y.v
        <4>1. CASE x.v = y.v
          BY <3>2, <4>1
        <4>2. CASE x.v = 0 /\ y.v = 1
          <5>1. (x.v = 1) = FALSE /\ (y.v = 1) = TRUE
            BY <4>2
          <5>2. Display(x) = BoolText(FALSE) /\ Display(y) = BoolText(TRUE)
            BY <3>2, <5>1
          <5>3. Display(x) # Display(y)
            BY <3>0, <5>2
          <5>4. x.v # y.v
            BY <4>2
          <5> QED
            BY <5>3, <5>4
        <4>3. CASE x.v = 1 /\ y.v = 0
          <5>1. (x.v = 1) = TRUE /\ (y.v = 1) = FALSE
            BY <4>3
          <5>2. Display(x) = BoolText(TRUE) /\ Display(y) = BoolText(FALSE)
            BY <3>2, <5>1
          <5>3. Display(x) # Display(y)
            BY <3>0, <5>2
          <5>4. x.v # y.v
            BY <4>3
          <5> QED
            BY <5>3, <5>4
        <4> QED
          BY <3>1, <4>1, <4>2, <4>3
      <3>4. ValuesEqual(x, y) <=> x.v = y.v
        BY <1>3, <2>3 DEF ValuesEqual, Integer
      <3> QED
        BY <3>3, <3>4
    <2>4. CASE x.type = "FLOAT8"
      <3>1. x.v = y.v
        BY <1>3, <2>4 DEF NearDoubles
      <3>2. Near(x.v, y.v)
        BY <1>1, <3>1 DEF Near
      <3>3. Display(x) = Numeral(x.type, x.v) /\ Display(y) = Numeral(y.type, y.v)
        BY <1>3, <2>4 DEF Display, IsNull
      <3> QED
        BY <1>3, <2>4, <3>1, <3>2, <3>3 DEF ValuesEqual
    <2>5. CASE x.type \in {"INT4", "INT8"}
      <3>1. Display(x) = Numeral(x.type, x.v) /\ Display(y) = Numeral(x.type, y.v)
        BY <1>3, <2>5 DEF Display, IsNull
      <3>2. x.v \in -(Int8Max + 1)..Int8Max /\ y.v \in -(Int8Max + 1)..Int8Max
        BY <1>1, <1>3, <2>5, Written DEF RowOK, ValueOK, Fits
      <3>3. Display(x) = Display(y) <=> x.v = y.v
        BY <2>5, <3>1, <3>2, DisplayAssumption
      <3>4. ValuesEqual(x, y) <=> x.v = y.v
        BY <1>3, <2>5 DEF ValuesEqual, Integer
      <3> QED
        BY <3>3, <3>4
    <2> QED
      BY <1>1, <2>1, <2>2, <2>3, <2>4, <2>5 DEF Types
  <1> QED
    BY <1>2, <1>3

GroupClass(id) == {i \in DOMAIN rows : GroupKey(rows[i]) = GroupKey(rows[id])}

LEMMA GroupsFollow == QueryInv => GroupsByValue
  <1> SUFFICES ASSUME QueryInv
               PROVE  GroupsByValue
    OBVIOUS
  <1>1. PICK ids, T, groups : ids = Select(AnyRow) /\ T = Nat /\ groups = Groups(AnyRow)
    OBVIOUS
  <1>2. ids \in Seq(T) /\ IsInjective(ids) /\ Range(ids) = DOMAIN rows
    BY <1>1, SelectAll
  <1>3. groups = {Only(ids, GroupClass(id)) : id \in DOMAIN rows}
    BY <1>1, <1>2 DEF Groups, GroupClass
  <1>4. ASSUME NEW id \in DOMAIN rows
        PROVE  Range(Only(ids, GroupClass(id))) = GroupClass(id)
    <2>1. PICK set : set = GroupClass(id)
      OBVIOUS
    <2>2. Range(Only(ids, set)) = Range(ids) \cap set
      BY <1>2, OnlyIs
    <2> QED
      BY <1>2, <2>1, <2>2 DEF GroupClass
  <1>5. \A id \in DOMAIN rows : id \in GroupClass(id)
    BY DEF GroupClass
  <1>6. ASSUME NEW i \in DOMAIN rows, NEW g \in groups, i \in Range(g)
        PROVE  g = Only(ids, GroupClass(i))
    <2>1. PICK id \in DOMAIN rows : g = Only(ids, GroupClass(id))
      BY <1>3
    <2>2. i \in GroupClass(id)
      BY <1>4, <1>6, <2>1
    <2>3. GroupClass(i) = GroupClass(id)
      BY <2>2 DEF GroupClass
    <2> QED
      BY <2>1, <2>3
  <1>7. ASSUME NEW id \in DOMAIN rows
        PROVE  Cardinality({g \in groups : id \in Range(g)}) = 1
    <2>1. PICK h, S : h = Only(ids, GroupClass(id)) /\ S = {g \in groups : id \in Range(g)}
      OBVIOUS
    <2>2. h \in groups /\ id \in Range(h)
      BY <1>3, <1>4, <1>5, <2>1
    <2>3. S = {h}
      BY <1>6, <2>1, <2>2
    <2>4. Cardinality(S) = 1
      BY <2>3, FS_Singleton
    <2> QED
      BY <2>1, <2>4
  <1>8. ASSUME NEW i \in DOMAIN rows, NEW j \in DOMAIN rows,
               ~Lookalike(rows[i], rows[j]), ~NearDoubles(rows[i], rows[j])
        PROVE  (\E g \in groups : {i, j} \subseteq Range(g)) <=> ValuesEqual(rows[i], rows[j])
    <2>1. PICK x, y, c : x = rows[i] /\ y = rows[j] /\ c = col
      OBVIOUS
    <2>2. RowOK(c, x) /\ RowOK(c, y)
      BY <2>1 DEF QueryInv
    <2>3. Display(x) = Display(y) <=> ValuesEqual(x, y)
      BY <1>8, <2>1, <2>2, DisplaysAlike
    <2>4. Display(x) = Display(y) <=> j \in GroupClass(i)
      BY <2>1 DEF GroupClass, GroupKey
    <2>5. j \in GroupClass(i) => \E g \in groups : {i, j} \subseteq Range(g)
      <3>1. Only(ids, GroupClass(i)) \in groups
        BY <1>3
      <3> QED
        BY <1>4, <1>5, <3>1
    <2>6. (\E g \in groups : {i, j} \subseteq Range(g)) => j \in GroupClass(i)
      <3>1. SUFFICES ASSUME NEW g \in groups, i \in Range(g), j \in Range(g)
                     PROVE  j \in GroupClass(i)
        OBVIOUS
      <3>2. g = Only(ids, GroupClass(i))
        BY <1>6, <3>1
      <3> QED
        BY <1>4, <3>1, <3>2
    <2> QED
      BY <2>1, <2>3, <2>4, <2>5, <2>6
  <1> QED
    BY <1>1, <1>7, <1>8 DEF GroupsByValue

(* GROUP BY puts every row into one group, and two rows into the same one  *)
(* just when their values are equal, for any texts that tell integers      *)
(* apart; values that display alike without being equal, and doubles, are  *)
(* the exceptions (query_util.rs apply_group_by, types.rs                  *)
(* to_display_string).                                                     *)
THEOREM GroupsAreOfValues == QuerySpec => []GroupsByValue
  BY QueryInvariant, GroupsFollow, PTL

-----------------------------------------------------------------------------
(* Sorting.                                                                *)

(* id is put after position m of s.                                        *)
PutAfter(u, s, id, m) ==
    /\ m \in 0..Len(s) /\ u \in Seq(Nat) /\ Len(u) = Len(s) + 1
    /\ \A k \in 1..m : u[k] = s[k]
    /\ u[m + 1] = id
    /\ \A k \in (m + 1)..Len(s) : u[k + 1] = s[k]

LEMMA InsertAtIs ==
    ASSUME NEW s \in Seq(Nat), NEW id \in Nat, NEW m \in 0..Len(s)
    PROVE  PutAfter(InsertAt(s, m + 1, id), s, id, m)
  <1>1. PICK n, a, b, c, u : /\ n = Len(s) /\ a = SubSeq(s, 1, m) /\ b = a \o <<id>>
                             /\ c = SubSeq(s, m + 1, n) /\ u = b \o c
    OBVIOUS
  <1>2. n \in Nat /\ m \in Nat /\ m <= n
    BY <1>1
  <1>3. a \in Seq(Nat) /\ Len(a) = m /\ \A k \in 1..m : a[k] = s[k]
    BY <1>1, <1>2
  <1>4. c \in Seq(Nat) /\ Len(c) = n - m /\ \A k \in 1..(n - m) : c[k] = s[m + k]
    BY <1>1, <1>2
  <1>5. b \in Seq(Nat) /\ Len(b) = m + 1 /\ b[m + 1] = id /\ \A k \in 1..m : b[k] = s[k]
    BY <1>1, <1>2, <1>3
  <1>6. /\ u \in Seq(Nat) /\ Len(u) = n + 1 /\ \A k \in 1..(m + 1) : u[k] = b[k]
        /\ \A k \in (m + 2)..(n + 1) : u[k] = c[k - (m + 1)]
    <2>1. /\ u \in Seq(Nat) /\ Len(u) = Len(b) + Len(c)
          /\ \A k \in 1..(Len(b) + Len(c)) : u[k] = IF k <= Len(b) THEN b[k] ELSE c[k - Len(b)]
      <3>1. PICK T : T = Nat
        OBVIOUS
      <3>2. b \in Seq(T) /\ c \in Seq(T)
        BY <1>4, <1>5, <3>1
      <3>3. /\ b \o c \in Seq(T) /\ Len(b \o c) = Len(b) + Len(c)
            /\ \A k \in 1..(Len(b) + Len(c)) : (b \o c)[k] = IF k <= Len(b) THEN b[k] ELSE c[k - Len(b)]
        BY ONLY <3>2, ConcatProperties
      <3> QED
        BY <1>1, <3>1, <3>3
    <2>2. Len(b) = m + 1 /\ Len(b) + Len(c) = n + 1
      BY <1>2, <1>4, <1>5
    <2>3. \A k \in 1..(n + 1) : u[k] = IF k <= m + 1 THEN b[k] ELSE c[k - (m + 1)]
      BY <2>1, <2>2
    <2>4. \A k \in 1..(m + 1) : u[k] = b[k]
      BY <1>2, <2>3
    <2>5. \A k \in (m + 2)..(n + 1) : u[k] = c[k - (m + 1)]
      BY <1>2, <2>3
    <2> QED
      BY <2>1, <2>2, <2>4, <2>5
  <1>7. \A k \in (m + 1)..n : u[k + 1] = s[k]
    <2>1. SUFFICES ASSUME NEW k \in (m + 1)..n
                   PROVE  u[k + 1] = s[k]
      OBVIOUS
    <2>2. PICK j, i : j = k + 1 /\ i = k - m
      OBVIOUS
    <2>3. j \in (m + 2)..(n + 1) /\ j - (m + 1) = i /\ i \in 1..(n - m) /\ m + i = k
      BY <1>2, <2>2
    <2> QED
      BY <1>4, <1>6, <2>2, <2>3
  <1>8. (m + 1) - 1 = m
    BY <1>2
  <1>9. InsertAt(s, m + 1, id) = u
    BY <1>1, <1>8 DEF InsertAt
  <1>10. u[m + 1] = id /\ \A k \in 1..m : u[k] = s[k]
    <2>1. m + 1 \in 1..(m + 1) /\ \A k \in 1..m : k \in 1..(m + 1)
      BY <1>2
    <2> QED
      BY <1>5, <1>6, <2>1
  <1> QED
    BY <1>1, <1>2, <1>6, <1>7, <1>9, <1>10 DEF PutAfter

(* A row stops behind the last row it does not precede.                    *)
LEMMA PlaceIs ==
    ASSUME NEW s \in Seq(Nat), NEW id \in Nat, NEW asc
    PROVE  \E m \in 0..Len(s) :
              /\ PutAfter(Place(s, id, asc), s, id, m)
              /\ m # 0 => ~Precedes(id, s[m], asc)
              /\ \A k \in (m + 1)..Len(s) : Precedes(id, s[k], asc)
  <1>1. PICK stops, m, n : /\ stops = {k \in DOMAIN s : ~Precedes(id, s[k], asc)}
                           /\ m = (IF stops = {} THEN 0 ELSE Max(stops)) /\ n = Len(s)
    OBVIOUS
  <1>2. n \in Nat /\ DOMAIN s = 1..n /\ stops \in SUBSET (1..n)
    BY <1>1
  <1>3. /\ m \in 0..n /\ (m # 0 => m \in stops) /\ \A k \in stops : k <= m
    <2>1. CASE stops = {}
      BY <1>1, <1>2, <2>1
    <2>2. CASE stops # {}
      <3>1. m = Max(stops)
        BY <1>1, <2>2
      <3>2. m \in stops /\ \A y \in stops : y <= m
        BY <1>2, <2>2, <3>1, MaxExists
      <3> QED
        BY <1>2, <3>2
    <2> QED
      BY <2>1, <2>2
  <1>4. Place(s, id, asc) = InsertAt(s, m + 1, id)
    <2>1. Place(s, id, asc) = InsertAt(s, 1 + m, id)
      BY <1>1 DEF Place
    <2>2. 1 + m = m + 1
      BY <1>2, <1>3
    <2> QED
      BY <2>1, <2>2
  <1>5. PutAfter(InsertAt(s, m + 1, id), s, id, m)
    BY <1>1, <1>3, InsertAtIs
  <1>6. m # 0 => ~Precedes(id, s[m], asc)
    BY <1>1, <1>3
  <1>7. \A k \in (m + 1)..n : Precedes(id, s[k], asc)
    <2>1. SUFFICES ASSUME NEW k \in (m + 1)..n
                   PROVE  Precedes(id, s[k], asc)
      OBVIOUS
    <2>2. k \in 1..n /\ ~(k <= m)
      BY <1>2, <1>3
    <2> QED
      BY <1>1, <1>2, <1>3, <2>2
  <1> QED
    BY <1>1, <1>3, <1>4, <1>5, <1>6, <1>7

(* Where the elements then are.                                            *)
LEMMA PutAfterCases ==
    ASSUME NEW s \in Seq(Nat), NEW id \in Nat, NEW u, NEW m, PutAfter(u, s, id, m)
    PROVE  /\ Len(s) \in Nat /\ m \in 0..Len(s) /\ DOMAIN s = 1..Len(s) /\ DOMAIN u = 1..(Len(s) + 1)
           /\ \A j \in 1..(Len(s) + 1) : \/ j \in 1..m /\ u[j] = s[j]
                                         \/ j = m + 1 /\ u[j] = id
                                         \/ j - 1 \in (m + 1)..Len(s) /\ u[j] = s[j - 1]
  <1> DEFINE n == Len(s)
  <1>1. /\ n \in Nat /\ m \in 0..n /\ DOMAIN s = 1..n /\ DOMAIN u = 1..(n + 1)
        /\ \A k \in 1..m : u[k] = s[k]
        /\ u[m + 1] = id
        /\ \A k \in (m + 1)..n : u[k + 1] = s[k]
    BY DEF PutAfter
  <1>2. ASSUME NEW j \in 1..(n + 1)
        PROVE  \/ j \in 1..m /\ u[j] = s[j]
               \/ j = m + 1 /\ u[j] = id
               \/ j - 1 \in (m + 1)..n /\ u[j] = s[j - 1]
    <2>1. CASE j <= m
      BY <1>1, <2>1
    <2>2. CASE j = m + 1
      BY <1>1, <2>2
    <2>3. CASE j > m + 1
      <3>1. PICK k : k = j - 1
        OBVIOUS
      <3>2. k \in (m + 1)..n /\ k + 1 = j
        BY <1>1, <2>3, <3>1
      <3> QED
        BY <1>1, <3>1, <3>2
    <2> QED
      BY <1>1, <2>1, <2>2, <2>3
  <1> QED
    BY <1>1, <1>2

LEMMA PutAfterIs ==
    ASSUME NEW s \in Seq(Nat), NEW id \in Nat, NEW u, NEW m, PutAfter(u, s, id, m)
    PROVE  /\ Range(u) = Range(s) \cup {id}
           /\ IsInjective(s) /\ id \notin Range(s) => IsInjective(u)
  <1>1. PICK n : n = Len(s)
    OBVIOUS
  <1>2. /\ n \in Nat /\ m \in 0..n /\ DOMAIN s = 1..n /\ DOMAIN u = 1..(n + 1)
        /\ \A k \in 1..m : u[k] = s[k]
        /\ u[m + 1] = id
        /\ \A k \in (m + 1)..n : u[k + 1] = s[k]
    BY <1>1 DEF PutAfter
  <1>3. /\ n \in Nat /\ m \in 0..n /\ DOMAIN s = 1..n /\ DOMAIN u = 1..(n + 1)
        /\ \A j \in 1..(n + 1) : \/ j \in 1..m /\ u[j] = s[j]
                                 \/ j = m + 1 /\ u[j] = id
                                 \/ j - 1 \in (m + 1)..n /\ u[j] = s[j - 1]
    BY <1>1, PutAfterCases
  <1>4. Range(u) = Range(s) \cup {id}
    <2>1. Range(u) \subseteq Range(s) \cup {id}
      <3>1. \A j \in 1..(n + 1) : u[j] \in Range(s) \cup {id}
        <4>1. SUFFICES ASSUME NEW j \in 1..(n + 1)
                       PROVE  u[j] \in Range(s) \cup {id}
          OBVIOUS
        <4>2. CASE j \in 1..m /\ u[j] = s[j]
          <5>1. j \in DOMAIN s
            BY <1>2, <4>2
          <5> QED
            BY <4>2, <5>1 DEF Range
        <4>3. CASE j = m + 1 /\ u[j] = id
          BY <4>3
        <4>4. CASE j - 1 \in (m + 1)..n /\ u[j] = s[j - 1]
          <5>1. j - 1 \in DOMAIN s
            BY <1>2, <4>4
          <5> QED
            BY <4>4, <5>1 DEF Range
        <4> QED
          BY <1>3, <4>2, <4>3, <4>4
      <3> QED
        BY <1>2, <3>1 DEF Range
    <2>2. id \in Range(u)
      BY <1>2 DEF Range
    <2>3. \A k \in 1..n : s[k] \in Range(u)
      <3>1. SUFFICES ASSUME NEW k \in 1..n
                     PROVE  s[k] \in Range(u)
        OBVIOUS
      <3>2. CASE k <= m
        BY <1>2, <3>2 DEF Range
      <3>3. CASE k > m
        <4>1. k + 1 \in 1..(n + 1) /\ k \in (m + 1)..n
          BY <1>2, <3>3
        <4>2. u[k + 1] = s[k]
          BY <1>2, <4>1
        <4> QED
          BY <1>2, <4>1, <4>2 DEF Range
      <3> QED
        BY <1>2, <3>2, <3>3
    <2> QED
      BY <1>2, <2>1, <2>2, <2>3 DEF Range
  <1>5. ASSUME IsInjective(s), id \notin Range(s)
        PROVE  IsInjective(u)
    <2>1. \A k \in 1..n : s[k] # id
      BY <1>2, <1>5 DEF Range
    <2>2. \A i, j \in 1..n : s[i] = s[j] => i = j
      BY <1>2, <1>5 DEF IsInjective
    <2>3. ASSUME NEW i \in 1..(n + 1), NEW j \in 1..(n + 1), u[i] = u[j]
          PROVE  i = j
      <3>1. \/ i \in 1..m /\ u[i] = s[i]
            \/ i = m + 1 /\ u[i] = id
            \/ i - 1 \in (m + 1)..n /\ u[i] = s[i - 1]
        BY <1>3
      <3>2. \/ j \in 1..m /\ u[j] = s[j]
            \/ j = m + 1 /\ u[j] = id
            \/ j - 1 \in (m + 1)..n /\ u[j] = s[j - 1]
        BY <1>3
      <3>3. \A k \in 1..m : k \in 1..n
        BY <1>2
      <3>4. \A k \in (m + 1)..n : k \in 1..n
        BY <1>2
      <3>5. CASE i = m + 1
        BY <1>2, <2>1, <2>3, <3>1, <3>2, <3>3, <3>4, <3>5
      <3>6. CASE j = m + 1
        BY <1>2, <2>1, <2>3, <3>1, <3>2, <3>3, <3>4, <3>6
      <3>7. CASE i # m + 1 /\ j # m + 1
        <4>1. PICK a \in 1..n : u[i] = s[a] /\ ((a = i /\ a <= m) \/ (a = i - 1 /\ a > m))
          <5>1. CASE i \in 1..m /\ u[i] = s[i]
            <6>1. PICK c : c = i
              OBVIOUS
            <6>2. c \in 1..n /\ c <= m
              BY <1>2, <5>1, <6>1
            <6> QED
              BY <5>1, <6>1, <6>2
          <5>2. CASE i - 1 \in (m + 1)..n /\ u[i] = s[i - 1]
            <6>1. PICK c : c = i - 1
              OBVIOUS
            <6>2. c \in 1..n /\ c > m
              BY <1>2, <5>2, <6>1
            <6> QED
              BY <5>2, <6>1, <6>2
          <5> QED
            BY <3>1, <3>7, <5>1, <5>2
        <4>2. PICK b \in 1..n : u[j] = s[b] /\ ((b = j /\ b <= m) \/ (b = j - 1 /\ b > m))
          <5>1. CASE j \in 1..m /\ u[j] = s[j]
            <6>1. PICK c : c = j
              OBVIOUS
            <6>2. c \in 1..n /\ c <= m
              BY <1>2, <5>1, <6>1
            <6> QED
              BY <5>1, <6>1, <6>2
          <5>2. CASE j - 1 \in (m + 1)..n /\ u[j] = s[j - 1]
            <6>1. PICK c : c = j - 1
              OBVIOUS
            <6>2. c \in 1..n /\ c > m
              BY <1>2, <5>2, <6>1
            <6> QED
              BY <5>2, <6>1, <6>2
          <5> QED
            BY <3>2, <3>7, <5>1, <5>2
        <4>3. a = b
          BY <2>2, <2>3, <4>1, <4>2
        <4> QED
          BY <1>2, <4>1, <4>2, <4>3
      <3> QED
        BY <3>5, <3>6, <3>7
    <2> QED
      BY <1>2, <2>3 DEF IsInjective
  <1> QED
    BY <1>4, <1>5

(* compare_values orders values of one type, with NULL first.              *)
Comparable(x, y) == x.type = y.type \/ IsNull(x) \/ IsNull(y)

LEMMA LessOrders ==
    ASSUME NEW x, NEW y, NEW z, ValueOK(x), ValueOK(y), ValueOK(z),
           Comparable(x, y), Comparable(y, z), Comparable(x, z)
    PROVE  /\ Less(x, y) => ~Less(y, x)
           /\ ~Less(x, y) /\ ~Less(y, z) => ~Less(x, z)
  <1>1. x.v \in Int /\ y.v \in Int /\ z.v \in Int
    BY DEF ValueOK
  <1>2. \A a, b : Comparable(a, b) =>
            (Less(a, b) <=> IF IsNull(a) \/ IsNull(b) THEN IsNull(a) /\ ~IsNull(b) ELSE a.v < b.v)
    <2>1. SUFFICES ASSUME NEW a, NEW b, Comparable(a, b)
                   PROVE  Less(a, b) <=> IF IsNull(a) \/ IsNull(b) THEN IsNull(a) /\ ~IsNull(b) ELSE a.v < b.v
      OBVIOUS
    <2>2. CASE IsNull(a) \/ IsNull(b)
      <3>1. Less(a, b) = (IsNull(a) /\ ~IsNull(b))
        BY <2>2 DEF Less
      <3> QED
        BY <2>2, <3>1
    <2>3. CASE ~(IsNull(a) \/ IsNull(b))
      <3>1. a.type = b.type
        BY <2>1, <2>3 DEF Comparable
      <3>2. Less(a, b) = (a.v < b.v)
        BY <2>3, <3>1 DEF Less
      <3> QED
        BY <2>3, <3>2
    <2> QED
      BY <2>2, <2>3
  <1>3. Comparable(y, x)
    BY DEF Comparable
  <1>4. /\ Less(x, y) <=> IF IsNull(x) \/ IsNull(y) THEN IsNull(x) /\ ~IsNull(y) ELSE x.v < y.v
        /\ Less(y, x) <=> IF IsNull(y) \/ IsNull(x) THEN IsNull(y) /\ ~IsNull(x) ELSE y.v < x.v
        /\ Less(y, z) <=> IF IsNull(y) \/ IsNull(z) THEN IsNull(y) /\ ~IsNull(z) ELSE y.v < z.v
        /\ Less(x, z) <=> IF IsNull(x) \/ IsNull(z) THEN IsNull(x) /\ ~IsNull(z) ELSE x.v < z.v
    BY <1>2, <1>3
  <1>5. Less(x, y) => ~Less(y, x)
    BY <1>1, <1>4
  <1>6. ~Less(x, y) /\ ~Less(y, z) => ~Less(x, z)
    BY <1>1, <1>4
  <1> QED
    BY <1>5, <1>6

LEMMA PrecedesOrders ==
    ASSUME QueryInv, ~Mixed, NEW i \in DOMAIN rows, NEW j \in DOMAIN rows, NEW k \in DOMAIN rows,
           NEW asc \in BOOLEAN
    PROVE  /\ Precedes(i, j, asc) => ~Precedes(j, i, asc)
           /\ ~Precedes(i, j, asc) /\ ~Precedes(j, k, asc) => ~Precedes(i, k, asc)
  <1>1. PICK x, y, z : x = rows[i] /\ y = rows[j] /\ z = rows[k]
    OBVIOUS
  <1>2. ValueOK(x) /\ ValueOK(y) /\ ValueOK(z)
    BY <1>1 DEF QueryInv, RowOK
  <1>3. /\ Comparable(x, y) /\ Comparable(y, z) /\ Comparable(x, z)
        /\ Comparable(y, x) /\ Comparable(z, y) /\ Comparable(z, x)
    BY <1>1 DEF Mixed, Comparable
  <1>4. /\ Less(x, y) => ~Less(y, x)
        /\ ~Less(x, y) /\ ~Less(y, z) => ~Less(x, z)
    BY ONLY <1>2, <1>3, LessOrders
  <1>5. ~Less(z, y) /\ ~Less(y, x) => ~Less(z, x)
    BY ONLY <1>2, <1>3, LessOrders
  <1>6. CASE asc
    BY <1>1, <1>4, <1>6 DEF Precedes
  <1>7. CASE ~asc
    BY <1>1, <1>4, <1>5, <1>7 DEF Precedes
  <1> QED
    BY <1>6, <1>7

Sorted(s, asc) == \A i, j \in DOMAIN s : i < j => ~Precedes(s[j], s[i], asc)

LEMMA PlacedSorted ==
    ASSUME QueryInv, ~Mixed, NEW asc \in BOOLEAN, NEW s \in Seq(Nat), NEW id \in Nat, NEW u, NEW m,
           Range(s) \subseteq DOMAIN rows, id \in DOMAIN rows, Sorted(s, asc), PutAfter(u, s, id, m),
           m # 0 => ~Precedes(id, s[m], asc), \A k \in (m + 1)..Len(s) : Precedes(id, s[k], asc)
    PROVE  Sorted(u, asc)
  <1>1. PICK n : n = Len(s)
    OBVIOUS
  <1>2. /\ n \in Nat /\ m \in 0..n /\ DOMAIN s = 1..n /\ DOMAIN u = 1..(n + 1)
        /\ \A j \in 1..(n + 1) : \/ j \in 1..m /\ u[j] = s[j]
                                 \/ j = m + 1 /\ u[j] = id
                                 \/ j - 1 \in (m + 1)..n /\ u[j] = s[j - 1]
    BY <1>1, PutAfterCases
  <1>3. \A k \in 1..n : s[k] \in DOMAIN rows
    BY <1>2 DEF Range
  <1>4. \A i, j \in 1..n : i < j => ~Precedes(s[j], s[i], asc)
    BY <1>2 DEF Sorted
  <1>5. \A i \in 1..m : ~Precedes(id, s[i], asc)
    <2>1. SUFFICES ASSUME NEW i \in 1..m
                   PROVE  ~Precedes(id, s[i], asc)
      OBVIOUS
    <2>2. m \in 1..n /\ i \in 1..n /\ m # 0 /\ (i = m \/ i < m)
      BY <1>2
    <2>3. ~Precedes(id, s[m], asc)
      BY <2>2
    <2>4. CASE i = m
      BY <2>3, <2>4
    <2>5. CASE i < m
      <3>1. PICK a, b : a = s[m] /\ b = s[i]
        OBVIOUS
      <3>2. a \in DOMAIN rows /\ b \in DOMAIN rows /\ ~Precedes(id, a, asc) /\ ~Precedes(a, b, asc)
        BY <1>3, <1>4, <2>2, <2>3, <2>5, <3>1
      <3>3. ~Precedes(id, b, asc)
        BY <3>2, PrecedesOrders
      <3> QED
        BY <3>1, <3>3
    <2> QED
      BY <2>2, <2>4, <2>5
  <1>6. \A j \in (m + 1)..n : ~Precedes(s[j], id, asc)
    <2>1. SUFFICES ASSUME NEW j \in (m + 1)..n
                   PROVE  ~Precedes(s[j], id, asc)
      OBVIOUS
    <2>2. PICK b : b = s[j]
      OBVIOUS
    <2>3. j \in 1..n
      BY <1>2
    <2>4. b \in DOMAIN rows /\ Precedes(id, b, asc)
      BY <1>1, <1>3, <2>2, <2>3
    <2>5. ~Precedes(b, id, asc)
      BY <2>4, PrecedesOrders
    <2> QED
      BY <2>2, <2>5
  <1>7. ASSUME NEW i \in 1..(n + 1), NEW j \in 1..(n + 1), i < j
        PROVE  ~Precedes(u[j], u[i], asc)
    <2>1. \/ i \in 1..m /\ u[i] = s[i]
          \/ i = m + 1 /\ u[i] = id
          \/ i - 1 \in (m + 1)..n /\ u[i] = s[i - 1]
      BY <1>2
    <2>2. \/ j \in 1..m /\ u[j] = s[j]
          \/ j = m + 1 /\ u[j] = id
          \/ j - 1 \in (m + 1)..n /\ u[j] = s[j - 1]
      BY <1>2
    <2>3. CASE i = m + 1
      <3>1. u[i] = id /\ j - 1 \in (m + 1)..n /\ u[j] = s[j - 1]
        BY <1>2, <1>7, <2>1, <2>2, <2>3
      <3> QED
        BY <1>6, <3>1
    <2>4. CASE j = m + 1
      <3>1. u[j] = id /\ i \in 1..m /\ u[i] = s[i]
        BY <1>2, <1>7, <2>1, <2>2, <2>4
      <3> QED
        BY <1>5, <3>1
    <2>5. CASE i # m + 1 /\ j # m + 1
      <3>1. PICK a : u[i] = s[a] /\ ((a = i /\ a \in 1..m) \/ (a = i - 1 /\ a \in (m + 1)..n))
        BY <2>1, <2>5
      <3>2. PICK b : u[j] = s[b] /\ ((b = j /\ b \in 1..m) \/ (b = j - 1 /\ b \in (m + 1)..n))
        BY <2>2, <2>5
      <3>3. a \in 1..n /\ b \in 1..n /\ a < b
        BY <1>2, <1>7, <3>1, <3>2
      <3> QED
        BY <1>4, <3>1, <3>2, <3>3
    <2> QED
      BY <2>3, <2>4, <2>5
  <1> QED
    BY <1>2, <1>7 DEF Sorted

(* What has been sorted of the first i rows.                               *)
SortedOf(s, i, ids, asc) ==
    /\ s \in Seq(Nat) /\ Len(s) = i /\ IsInjective(s) /\ Range(s) = Before(ids, i)
    /\ ~Mixed => Sorted(s, asc)

LEMMA SortOne ==
    ASSUME QueryInv, NEW asc \in BOOLEAN, NEW ids \in Seq(Nat), IsInjective(ids),
           Range(ids) \subseteq DOMAIN rows, NEW i \in 1..Len(ids),
           NEW s, NEW u, SortedOf(s, i - 1, ids, asc), u = Place(s, ids[i], asc)
    PROVE  SortedOf(u, i, ids, asc)
  <1>1. PICK id : id = ids[i]
    OBVIOUS
  <1>2. id \in Nat /\ id \in DOMAIN rows /\ DOMAIN ids = 1..Len(ids)
    BY <1>1 DEF Range
  <1>3. Before(ids, i) = Before(ids, i - 1) \cup {id}
    BY <1>1 DEF Before
  <1>4. id \notin Before(ids, i - 1)
    BY <1>1 DEF IsInjective, Before
  <1>5. /\ s \in Seq(Nat) /\ Len(s) = i - 1 /\ IsInjective(s) /\ Range(s) = Before(ids, i - 1)
        /\ ~Mixed => Sorted(s, asc)
    BY DEF SortedOf
  <1>6. PICK m \in 0..Len(s) : /\ PutAfter(u, s, id, m)
                               /\ m # 0 => ~Precedes(id, s[m], asc)
                               /\ \A k \in (m + 1)..Len(s) : Precedes(id, s[k], asc)
    BY <1>1, <1>2, <1>5, PlaceIs
  <1>7. Range(u) = Range(s) \cup {id} /\ IsInjective(u)
    BY <1>2, <1>4, <1>5, <1>6, PutAfterIs
  <1>8. u \in Seq(Nat) /\ Len(u) = i
    BY <1>5, <1>6 DEF PutAfter
  <1>9. Range(s) \subseteq DOMAIN rows
    <2>1. Before(ids, i - 1) \subseteq Range(ids)
      BY <1>2 DEF Before, Range
    <2> QED
      BY <1>5, <2>1
  <1>10. ~Mixed => Sorted(u, asc)
    BY <1>2, <1>5, <1>6, <1>9, PlacedSorted
  <1> QED
    BY <1>3, <1>5, <1>7, <1>8, <1>10 DEF SortedOf

(* sort_rows keeps every row once, and sorts unless the column is mixed.   *)
LEMMA SortIs ==
    ASSUME QueryInv, NEW asc \in BOOLEAN, NEW ids \in Seq(Nat), IsInjective(ids),
           Range(ids) \subseteq DOMAIN rows
    PROVE  /\ SortRows(ids, asc) \in Seq(Nat) /\ Len(SortRows(ids, asc)) = Len(ids)
           /\ IsInjective(SortRows(ids, asc)) /\ Range(SortRows(ids, asc)) = Range(ids)
           /\ ~Mixed => Sorted(SortRows(ids, asc), asc)
  <1>1. PICK n, b, t : n = Len(ids) /\ b = << >> /\ t = SortRows(ids, asc)
    OBVIOUS
  <1>2. n \in Nat /\ DOMAIN ids = 1..n
    BY <1>1
  <1>3. PlaceAll(b, ids, asc) = t
    BY <1>1 DEF PlaceAll, SortRows
  <1>4. PICK st : Places(st, n, ids, b, asc, t)
    BY <1>2, <1>3, PlaceStates
  <1> DEFINE good == {i \in 0..n : SortedOf(st[i], i, ids, asc)}
  <1>5. 0 \in good
    <2>1. st[0] = << >>
      BY <1>1, <1>4 DEF Places
    <2>2. Before(ids, 0) = {}
      BY DEF Before
    <2>3. << >> \in Seq(Nat) /\ Len(<< >>) = 0 /\ DOMAIN << >> = {}
      OBVIOUS
    <2>4. Range(<< >>) = {} /\ IsInjective(<< >>) /\ Sorted(<< >>, asc)
      BY <2>3 DEF Range, IsInjective, Sorted
    <2>5. SortedOf(st[0], 0, ids, asc)
      BY <2>1, <2>2, <2>3, <2>4 DEF SortedOf
    <2> QED
      BY <1>2, <2>5
  <1>6. ASSUME NEW i \in 0..(n - 1), i \in good
        PROVE  i + 1 \in good
    <2>1. PICK j, s, u : j = i + 1 /\ s = st[i] /\ u = st[i + 1]
      OBVIOUS
    <2>2. j \in 1..Len(ids) /\ j - 1 = i /\ j \in 1..n
      BY <1>1, <1>2, <2>1
    <2>3. u = Place(s, ids[j], asc)
      BY <1>4, <2>1, <2>2 DEF Places
    <2>4. SortedOf(s, j - 1, ids, asc)
      BY <1>6, <2>1, <2>2
    <2>5. SortedOf(u, j, ids, asc)
      BY <2>2, <2>3, <2>4, SortOne
    <2> QED
      BY <1>2, <2>1, <2>2, <2>5
  <1>7. n \in good
    <2> HIDE DEF good
    <2>1. \A i \in 0..n : i \in good
      BY <1>2, <1>5, <1>6, IndexInduction
    <2> QED
      BY <1>2, <2>1
  <1>8. SortedOf(t, n, ids, asc)
    BY <1>4, <1>7 DEF Places
  <1>9. Before(ids, n) = Range(ids)
    BY <1>2 DEF Before, Range
  <1> QED
    BY <1>1, <1>8, <1>9 DEF SortedOf

-----------------------------------------------------------------------------
(* Pages.                                                                  *)

LEMMA MinOfTwo ==
    ASSUME NEW a \in Nat, NEW b \in Nat
    PROVE  Min({a, b}) = IF a <= b THEN a ELSE b
  <1>1. PICK m, S : m = (IF a <= b THEN a ELSE b) /\ S = {a, b}
    OBVIOUS
  <1>2. m \in S /\ (\A y \in S : m <= y) /\ \A x \in S : (\A y \in S : x <= y) => x = m
    BY <1>1
  <1>3. Min(S) = m
    BY <1>2 DEF Min
  <1> QED
    BY <1>1, <1>3

(* The elements after position a continue the first a.                     *)
LEMMA SubSeqJoins ==
    ASSUME NEW s \in Seq(Nat), NEW a \in Nat, NEW b \in Nat, a + b <= Len(s),
           NEW page \in Seq(Nat), Len(page) = b, \A k \in 1..b : page[k] = s[a + k]
    PROVE  SubSeq(s, 1, a) \o page = SubSeq(s, 1, a + b)
  <1>1. PICK t, u, v : t = SubSeq(s, 1, a) /\ u = t \o page /\ v = SubSeq(s, 1, a + b)
    OBVIOUS
  <1>2. t \in Seq(Nat) /\ Len(t) = a /\ \A k \in 1..a : t[k] = s[k]
    BY <1>1
  <1>3. v \in Seq(Nat) /\ Len(v) = a + b /\ \A k \in 1..(a + b) : v[k] = s[k]
    BY <1>1
  <1>4. /\ u \in Seq(Nat) /\ Len(u) = a + b
        /\ \A k \in 1..(a + b) : u[k] = IF k <= a THEN t[k] ELSE page[k - a]
    <2>1. PICK T : T = Nat
      OBVIOUS
    <2>2. t \in Seq(T) /\ page \in Seq(T)
      BY <1>2, <2>1
    <2>3. /\ t \o page \in Seq(T) /\ Len(t \o page) = Len(t) + Len(page)
          /\ \A k \in 1..(Len(t) + Len(page)) : (t \o page)[k] = IF k <= Len(t) THEN t[k] ELSE page[k - Len(t)]
      BY ONLY <2>2, ConcatProperties
    <2> QED
      BY <1>1, <1>2, <2>1, <2>3
  <1>5. \A k \in 1..(a + b) : u[k] = v[k]
    <2>1. SUFFICES ASSUME NEW k \in 1..(a + b)
                   PROVE  u[k] = v[k]
      OBVIOUS
    <2>2. CASE k <= a
      <3>1. k \in 1..a
        BY <2>2
      <3> QED
        BY <1>2, <1>3, <1>4, <2>2, <3>1
    <2>3. CASE ~(k <= a)
      <3>1. PICK j : j = k - a
        OBVIOUS
      <3>2. j \in 1..b /\ a + j = k
        BY <2>3, <3>1
      <3>3. page[j] = s[k]
        BY <3>2
      <3> QED
        BY <1>3, <1>4, <2>3, <3>1, <3>3
    <2> QED
      BY <2>2, <2>3
  <1>6. u = v
    <2>1. PICK T, n : T = Nat /\ n = a + b
      OBVIOUS
    <2>2. u \in Seq(T) /\ v \in Seq(T) /\ Len(u) = Len(v) /\ \A k \in 1..Len(u) : u[k] = v[k]
      BY <1>3, <1>4, <1>5, <2>1
    <2> QED
      BY ONLY <2>2, SeqEqual
  <1> QED
    BY <1>1, <1>6

Upto(s, m) == SubSeq(s, 1, IF m <= Len(s) THEN m ELSE Len(s))

(* A page continues the pages before it.                                   *)
LEMMA PageContinues ==
    ASSUME NEW s \in Seq(Nat), NEW n \in Nat, NEW lo \in Nat
    PROVE  /\ LimitOffset(s, n, lo) \in Seq(Nat)
           /\ Upto(s, lo) \o LimitOffset(s, n, lo) = Upto(s, lo + n)
  <1>1. PICK len, rest, page : /\ len = Len(s) /\ rest = SubSeq(s, lo + 1, len)
                               /\ page = LimitOffset(s, n, lo)
    OBVIOUS
  <1>2. page = SubSeq(rest, 1, Min({n, Len(rest)})) /\ len \in Nat
    BY <1>1 DEF LimitOffset
  <1>3. CASE lo >= len
    <2>1. rest = << >>
      BY <1>1, <1>2, <1>3
    <2>2. Len(rest) = 0
      BY <2>1
    <2>3. Min({n, Len(rest)}) = 0
      BY <2>2, MinOfTwo
    <2>4. page = << >>
      BY <1>2, <2>1, <2>3
    <2>5. Upto(s, lo) = SubSeq(s, 1, len) /\ Upto(s, lo + n) = SubSeq(s, 1, len)
      BY <1>1, <1>2, <1>3 DEF Upto
    <2>6. SubSeq(s, 1, len) \in Seq(Nat)
      BY <1>1, <1>2
    <2>7. SubSeq(s, 1, len) \o << >> = SubSeq(s, 1, len)
      BY <2>6, ConcatEmptySeq
    <2>8. << >> \in Seq(Nat)
      OBVIOUS
    <2> QED
      BY <1>1, <2>4, <2>5, <2>7, <2>8
  <1>4. CASE lo < len
    <2>1. PICK d, m : d = len - lo /\ m = (IF n <= d THEN n ELSE d)
      OBVIOUS
    <2>2. d \in Nat /\ m \in Nat /\ m <= d /\ lo + m <= len
      BY <1>2, <1>4, <2>1
    <2>3. rest \in Seq(Nat) /\ Len(rest) = d /\ \A k \in 1..d : rest[k] = s[lo + k]
      <3>1. Len(rest) = d /\ rest \in Seq(Nat)
        BY <1>1, <1>2, <1>4, <2>1
      <3>2. \A k \in 1..d : rest[k] = s[lo + k]
        BY <1>1, <1>2, <1>4, <2>1
      <3> QED
        BY <3>1, <3>2
    <2>4. Min({n, Len(rest)}) = m
      BY <2>1, <2>2, <2>3, MinOfTwo
    <2>5. page = SubSeq(rest, 1, m)
      BY <1>2, <2>4
    <2>6. page \in Seq(Nat) /\ Len(page) = m /\ \A k \in 1..m : page[k] = rest[k]
      BY <2>2, <2>3, <2>5
    <2>7. \A k \in 1..m : page[k] = s[lo + k]
      BY <2>2, <2>3, <2>6
    <2>8. SubSeq(s, 1, lo) \o page = SubSeq(s, 1, lo + m)
      <3>1. /\ s \in Seq(Nat) /\ lo \in Nat /\ m \in Nat /\ lo + m <= Len(s) /\ page \in Seq(Nat)
            /\ Len(page) = m /\ \A k \in 1..m : page[k] = s[lo + k]
        BY <1>1, <2>2, <2>6, <2>7
      <3> QED
        BY ONLY <3>1, SubSeqJoins
    <2>9. Upto(s, lo) = SubSeq(s, 1, lo) /\ Upto(s, lo + n) = SubSeq(s, 1, lo + m)
      <3>1. (IF lo <= len THEN lo ELSE len) = lo /\ (IF lo + n <= len THEN lo + n ELSE len) = lo + m
        BY <1>2, <1>4, <2>1
      <3> QED
        BY <1>1, <3>1 DEF Upto
    <2> QED
      BY <1>1, <2>6, <2>8, <2>9
  <1> QED
    BY <1>2, <1>3, <1>4

Pages(s, n, count) == [p \in 1..count |-> LimitOffset(s, n, n * (p - 1))]

LEMMA Multiples ==
    ASSUME NEW n \in Nat \ {0}, NEW p \in Nat \ {0}
    PROVE  n * (p - 1) \in Nat /\ n * p = n * (p - 1) + n /\ n * p >= p
  <1>1. PICK q : q = p - 1
    OBVIOUS
  <1>2. q \in Nat /\ p = q + 1
    BY <1>1
  <1>3. n * q \in Nat
    BY <1>2
  <1>4. n * (q + 1) = n * q + n
    BY <1>2
  <1>5. n * q >= q
    <2>1. PICK k : k = n - 1
      OBVIOUS
    <2>2. k \in Nat /\ n = k + 1
      BY <2>1
    <2>3. k * q \in Nat /\ (k + 1) * q = k * q + q
      BY <1>2, <2>2
    <2> QED
      BY <1>2, <2>2, <2>3
  <1> QED
    BY <1>1, <1>2, <1>3, <1>4, <1>5

(* The pages one after the other are the sequence.                         *)
LEMMA PagesJoin ==
    ASSUME NEW s \in Seq(Nat), NEW n \in Nat \ {0}, NEW count \in Nat \ {0}, Len(s) <= count
    PROVE  FlattenSeq(Pages(s, n, count)) = s
  <1> DEFINE st == [p \in 0..count |-> Upto(s, n * p)]
  <1>1. PICK f : f = Pages(s, n, count)
    OBVIOUS
  <1>2. Len(f) = count /\ \A p \in 1..count : f[p] = LimitOffset(s, n, n * (p - 1))
    BY <1>1 DEF Pages
  <1>3. ASSUME NEW p \in 1..count
        PROVE  f[p] \in Seq(Nat) /\ st[p] = st[p - 1] \o f[p]
    <2>1. PICK lo : lo = n * (p - 1)
      OBVIOUS
    <2>2. lo \in Nat /\ n * p = lo + n
      BY <2>1, Multiples
    <2>3. LimitOffset(s, n, lo) \in Seq(Nat) /\ Upto(s, lo) \o LimitOffset(s, n, lo) = Upto(s, lo + n)
      BY <2>2, PageContinues
    <2>4. f[p] = LimitOffset(s, n, lo)
      BY <1>2, <2>1
    <2>5. st[p] = Upto(s, lo + n)
      <3>1. p \in 0..count /\ st[p] = Upto(s, n * p)
        OBVIOUS
      <3> HIDE DEF st
      <3> QED
        BY <2>2, <3>1
    <2>6. p - 1 \in 0..count
      OBVIOUS
    <2>7. st[p - 1] = Upto(s, lo)
      BY <2>1, <2>6
    <2> HIDE DEF st
    <2> QED
      BY <2>3, <2>4, <2>5, <2>7
  <1>4. st[0] = << >>
    <2>1. n * 0 = 0 /\ Len(s) \in Nat
      OBVIOUS
    <2>2. Upto(s, 0) = SubSeq(s, 1, 0)
      BY <2>1 DEF Upto
    <2>3. SubSeq(s, 1, 0) = << >>
      OBVIOUS
    <2> QED
      BY <2>1, <2>2, <2>3
  <1>5. st[count] = s
    <2>1. n * count >= count /\ n * count \in Int
      BY Multiples
    <2>2. PICK hi, len : hi = n * count /\ len = Len(s)
      OBVIOUS
    <2>3. (IF hi <= len THEN hi ELSE len) = len
      BY <2>1, <2>2
    <2>4. Upto(s, hi) = SubSeq(s, 1, Len(s))
      BY <2>2, <2>3 DEF Upto
    <2>5. SubSeq(s, 1, Len(s)) = s
      OBVIOUS
    <2> QED
      BY <2>2, <2>4, <2>5
  <1> HIDE DEF st
  <1>6. Joins(st, count, f)
    BY <1>3, <1>4 DEF Joins
  <1>7. \A p \in 1..count : <<>> \o f[p] = f[p]
    BY <1>3, ConcatEmptySeq
  <1>8. Joinable(f, count)
    BY <1>2, <1>7 DEF Joinable
  <1>9. FlattenSeq(f) = st[count]
    BY <1>6, <1>8, JoinIs
  <1> QED
    BY <1>1, <1>5, <1>9

(* Of integers, a smaller one comes before a greater one.                  *)
LEMMA BelowPrecedes ==
    ASSUME QueryInv, ~Mixed, NEW l, NEW i \in DOMAIN rows, NEW j \in DOMAIN rows,
           ValueOK(FromSqlLiteral(l)),
           EvalWhere(Cmp(">=", l), rows[i]), EvalWhere(Cmp("<", l), rows[j])
    PROVE  Precedes(j, i, TRUE) /\ i # j
  <1>1. PICK x, y, z : x = rows[i] /\ y = FromSqlLiteral(l) /\ z = rows[j]
    OBVIOUS
  <1>2. x.v \in Int /\ y.v \in Int /\ z.v \in Int
    BY <1>1 DEF QueryInv, RowOK, ValueOK
  <1>3. IsTrue(Bool(TRUE)) /\ ~IsTrue(Bool(FALSE))
    BY DEF IsTrue, Bool, Value
  <1>4. Integer(x) /\ Integer(y) /\ x.v >= y.v
    <2>1. PICK w, b : w = Cmp(">=", l) /\ b = (Integer(x) /\ Integer(y) /\ x.v >= y.v)
      OBVIOUS
    <2>2. w.form = "cmp" /\ w.op = ">=" /\ w.lit = l
      BY <2>1 DEF Cmp
    <2>3. EvalWhere(w, x) = IsTrue(EvalBinary(x, ">=", y))
      BY <1>1, <2>2 DEF EvalWhere
    <2>4. EvalBinary(x, ">=", y) = Bool(Integer(x) /\ Integer(y) /\ x.v >= y.v)
      BY DEF EvalBinary
    <2>5. EvalWhere(w, x) = IsTrue(Bool(b)) /\ b \in BOOLEAN
      BY <2>1, <2>3, <2>4
    <2>6. EvalWhere(w, x)
      BY <1>1, <2>1
    <2>7. b
      BY <1>3, <2>5, <2>6
    <2> QED
      BY <2>1, <2>7
  <1>5. Integer(z) /\ Integer(y) /\ z.v < y.v
    <2>1. PICK w, b : w = Cmp("<", l) /\ b = (Integer(z) /\ Integer(y) /\ z.v < y.v)
      OBVIOUS
    <2>2. w.form = "cmp" /\ w.op = "<" /\ w.lit = l
      BY <2>1 DEF Cmp
    <2>3. EvalWhere(w, z) = IsTrue(EvalBinary(z, "<", y))
      BY <1>1, <2>2 DEF EvalWhere
    <2>4. EvalBinary(z, "<", y) = Bool(Integer(z) /\ Integer(y) /\ z.v < y.v)
      BY DEF EvalBinary
    <2>5. EvalWhere(w, z) = IsTrue(Bool(b)) /\ b \in BOOLEAN
      BY <2>1, <2>3, <2>4
    <2>6. EvalWhere(w, z)
      BY <1>1, <2>1
    <2>7. b
      BY <1>3, <2>5, <2>6
    <2> QED
      BY <2>1, <2>7
  <1>6. z.v < x.v
    BY <1>2, <1>4, <1>5
  <1>7. ~IsNull(x) /\ ~IsNull(z)
    BY <1>4, <1>5 DEF Integer, IsNull
  <1>8. x.type = z.type
    BY <1>1, <1>7 DEF Mixed
  <1>9. Less(z, x)
    BY <1>6, <1>7, <1>8 DEF Less
  <1>10. i # j
    BY <1>1, <1>2, <1>6
  <1> QED
    BY <1>1, <1>9, <1>10 DEF Precedes

(* SELECT without a WHERE gives at most MaxRows rows.                      *)
LEMMA SelectBounded ==
    ASSUME QueryInv
    PROVE  Len(Select(AnyRow)) <= MaxRows
  <1>1. PICK w, s, T, set, all : /\ w = AnyRow /\ s = [i \in 1..(next - 1) |-> i] /\ T = Nat
                                 /\ set = DOMAIN rows /\ all = Matching(w)
    OBVIOUS
  <1>2. next - 1 \in Nat /\ next - 1 <= MaxRows /\ MaxRows \in Nat
    BY StatementAssumption DEF QueryInv, RowsOK
  <1>3. s \in Seq(T) /\ Len(s) = next - 1
    BY <1>1, <1>2
  <1>4. PICK ids : ids = Only(s, set)
    OBVIOUS
  <1>5. ids \in Seq(T) /\ Len(ids) <= Len(s)
    BY <1>3, <1>4, OnlyIs
  <1>6. PICK sel : sel = Only(ids, all)
    OBVIOUS
  <1>7. sel \in Seq(T) /\ Len(sel) <= Len(ids)
    BY <1>5, <1>6, OnlyIs
  <1>8. Len(sel) \in Nat /\ Len(ids) \in Nat
    BY <1>5, <1>7
  <1>9. w.form = "any"
    BY <1>1 DEF AnyRow
  <1>10. Select(w) = sel
    BY <1>1, <1>4, <1>6, <1>9 DEF Select, Planned, FullScan, Ids
  <1> QED
    BY <1>1, <1>2, <1>3, <1>5, <1>7, <1>8, <1>10

LEMMA PagesFollow == QueryInv => OrderedPages
  <1> SUFFICES ASSUME QueryInv, NEW asc \in BOOLEAN, NEW n \in 1..MaxRows, NEW sorted, NEW read,
                      sorted = SortRows(Select(AnyRow), asc),
                      read = FlattenSeq([p \in 1..MaxRows |-> LimitOffset(sorted, n, n * (p - 1))])
               PROVE  /\ IsInjective(read) /\ Range(read) = DOMAIN rows
                      /\ Mixed \/ \A i, j \in DOMAIN read : i < j => ~Precedes(read[j], read[i], asc)
                      /\ asc => \A l \in Literals : \A i, j \in DOMAIN read :
                            EvalWhere(Cmp(">=", l), rows[read[i]]) /\ EvalWhere(Cmp("<", l), rows[read[j]])
                                => j < i \/ Mixed
    BY DEF OrderedPages
  <1>1. PICK ids : ids = Select(AnyRow)
    OBVIOUS
  <1>2. ids \in Seq(Nat) /\ IsInjective(ids) /\ Range(ids) = DOMAIN rows /\ Len(ids) <= MaxRows
    BY <1>1, SelectAll, SelectBounded
  <1>3. /\ sorted \in Seq(Nat) /\ Len(sorted) = Len(ids) /\ IsInjective(sorted)
        /\ Range(sorted) = DOMAIN rows /\ (~Mixed => Sorted(sorted, asc))
    BY <1>1, <1>2, SortIs
  <1>4. read = sorted
    <2>1. MaxRows \in Nat \ {0} /\ n \in Nat \ {0} /\ Len(sorted) <= MaxRows
      BY <1>2, <1>3, StatementAssumption
    <2>2. FlattenSeq(Pages(sorted, n, MaxRows)) = sorted
      BY <1>3, <2>1, PagesJoin
    <2> QED
      BY <2>2 DEF Pages
  <1>5. Mixed \/ \A i, j \in DOMAIN read : i < j => ~Precedes(read[j], read[i], asc)
    BY <1>3, <1>4 DEF Sorted
  <1>6. ASSUME asc, ~Mixed, NEW l \in Literals, NEW i \in DOMAIN read, NEW j \in DOMAIN read,
               EvalWhere(Cmp(">=", l), rows[read[i]]), EvalWhere(Cmp("<", l), rows[read[j]])
        PROVE  j < i
    <2>1. PICK a, b : a = read[i] /\ b = read[j]
      OBVIOUS
    <2>2. a \in DOMAIN rows /\ b \in DOMAIN rows
      BY <1>3, <1>4, <2>1 DEF Range
    <2>3. ValueOK(FromSqlLiteral(l))
      BY Written, LiteralIs
    <2>4. Precedes(b, a, TRUE) /\ a # b
      BY <1>6, <2>1, <2>2, <2>3, BelowPrecedes
    <2>5. asc = TRUE
      BY <1>6
    <2>6. i # j /\ ~(i < j)
      BY <1>5, <1>6, <2>1, <2>4, <2>5
    <2>7. i \in Nat /\ j \in Nat
      BY <1>3, <1>4
    <2> QED
      BY <2>6, <2>7
  <1> QED
    BY <1>3, <1>4, <1>5, <1>6

(* The pages that LIMIT and OFFSET cut from ORDER BY hold every row once,  *)
(* whatever the size of a page, with no row after a greater one unless the *)
(* column is mixed, and the rows below a literal first (query_util.rs      *)
(* sort_rows, compare_values and apply_limit_offset).                      *)
THEOREM PagesAreOrdered == QuerySpec => []OrderedPages
  BY QueryInvariant, PagesFollow, PTL

=============================================================================
