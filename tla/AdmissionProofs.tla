--------------------------- MODULE AdmissionProofs ---------------------------
(***************************************************************************)
(* For every set of sessions, connections, keys and grants, and every cap: *)
(*   - a grant admits once and its end is announced.  The idempotency      *)
(*     stores and the sink decide whether a handler goes on, never what it *)
(*     does to a grant;                                                    *)
(*   - the record of an admitted mutation is never dropped, for every      *)
(*     ring, batch and failing writer;                                     *)
(*   - a key takes effect at most once and a replay finds what the first   *)
(*     answer named.  These need the stores alone: what the sink and the   *)
(*     grants answer is left open.                                         *)
(***************************************************************************)
EXTENDS Admission, SequenceTheorems, FiniteSetTheorems, WellFoundedInduction, TLAPS

-----------------------------------------------------------------------------
(* The inductive invariant                                                 *)

GrantTypes ==
    /\ life \in [Session -> {"unused", "live", "terminal", "collected"}]
    /\ table \in Tables
    /\ consent \in [Conn -> HostGrant \cup {NoGrant}]
    /\ minted \in [Grant -> Session \cup {HostSession}]
    /\ admissions \in [Grant -> {0, 1}]

\* A record says whether its grant has admitted somebody.
Counted(g) ==
    g \in Known(table) => /\ table[g].state = "consumed" => admissions[g] = 1
                          /\ table[g].state = "unused" => admissions[g] = 0

\* An observer grant belongs to the session it was minted for, which exists.
Belongs(g) ==
    /\ minted[g] = HostSession => g \notin Known(table) /\ admissions[g] = 0
    /\ minted[g] # HostSession => life[minted[g]] # "unused"
    /\ g \in Known(table) => table[g].session = minted[g]

\* What GrantEndsAnnounced says of one grant.
Told(g) ==
    minted[g] # HostSession /\ life[minted[g]] = "live" =>
        IF g \in Known(table)
        THEN table[g].state = "unused" \/ g \in announced
        ELSE g \in announced \/ minted[g] \in lapsed

\* A connection stands on a grant it has consumed, and on nobody else's.
Consent(c) == consent[c] # NoGrant => admissions[consent[c]] = 1
Apart == \A c, d \in Conn : c # d /\ consent[c] # NoGrant => consent[c] # consent[d]

GrantInv ==
    /\ GrantTypes
    /\ \A g \in Grant : Counted(g)
    /\ \A g \in ObserverGrant : Belongs(g) /\ Told(g)
    /\ \A c \in Conn : Consent(c)
    /\ Apart

-----------------------------------------------------------------------------
(* The table                                                               *)

\* evict_expired drops records and changes none.
LEMMA EvictedIs ==
    ASSUME NEW t \in Tables
    PROVE  /\ Evicted(t) \in Tables
           /\ \A g \in Grant : g \in Known(Evicted(t)) =>
                g \in Known(t) /\ Evicted(t)[g] = t[g]
           /\ \A g \in ObserverGrant : g \in Known(t) /\ g \notin Known(Evicted(t)) =>
                t[g].state # "unused" \/ t[g].session \in Lapsed(t)
<1>1. Evicted(t) \in Tables
  BY DEF Evicted, Kept, Known, Tables
<1>2. ASSUME NEW g \in Grant, g \in Known(Evicted(t))
      PROVE  g \in Known(t) /\ Evicted(t)[g] = t[g]
  BY <1>2 DEF Evicted, Kept, Known
<1>3. ASSUME NEW g \in ObserverGrant, g \in Known(t), g \notin Known(Evicted(t))
      PROVE  t[g].state # "unused" \/ t[g].session \in Lapsed(t)
  <2>1. g \in Grant /\ g \notin HostGrant
    BY GrantAssumption DEF Grant
  <2>2. g \notin Kept(t)
    BY <1>3, <2>1 DEF Evicted, Known
  <2>3. t[g].state # "unused" \/ t[g].expired
    BY <1>3, <2>1, <2>2 DEF Kept, Active
  <2> QED
    BY <1>3, <2>3 DEF Lapsed
<1> QED
  BY <1>1, <1>2, <1>3

\* mint adds one unused record.
LEMMA MintedIs ==
    ASSUME NEW t \in Tables, NEW m \in Grant, NEW s \in Session \cup {HostSession}
    PROVE  /\ Minted(t, m, s) \in Tables
           /\ m \in Known(Minted(t, m, s))
           /\ Minted(t, m, s)[m].session = s /\ Minted(t, m, s)[m].state = "unused"
           /\ \A g \in Grant : g # m =>
                /\ Minted(t, m, s)[g] = Evicted(t)[g]
                /\ g \in Known(Minted(t, m, s)) <=> g \in Known(Evicted(t))
<1> DEFINE new == [session |-> s, state |-> "unused", expired |-> FALSE]
<1>1. new \in GrantRecord /\ new # NoGrant
  <2>1. new \in GrantRecord
    BY DEF GrantRecord
  <2> QED
    BY <2>1, GrantAssumption
<1>2. new.session = s /\ new.state = "unused"
  OBVIOUS
<1>3. Evicted(t) \in Tables
  BY EvictedIs
<1>4. Minted(t, m, s) = [Evicted(t) EXCEPT ![m] = new]
  BY DEF Minted
<1> HIDE DEF new
<1> QED
  BY <1>1, <1>2, <1>3, <1>4 DEF Tables, Known

\* A record that is consumed is otherwise the same, and a revoked one too.
LEMMA ConsumedIs ==
    ASSUME NEW t \in Tables, NEW m \in Known(t)
    PROVE  /\ Consumed(t, m) \in Tables /\ m \in Known(Consumed(t, m))
           /\ Consumed(t, m)[m].state = "consumed" /\ Consumed(t, m)[m].session = t[m].session
           /\ \A g \in Grant : g # m =>
                /\ Consumed(t, m)[g] = t[g]
                /\ g \in Known(Consumed(t, m)) <=> g \in Known(t)
<1> DEFINE new == [t[m] EXCEPT !.state = "consumed"]
<1>1. m \in Grant /\ t[m] \in GrantRecord
  BY DEF Known, Tables
<1>2. /\ new \in GrantRecord
      /\ new.state = "consumed" /\ new.session = t[m].session
  BY <1>1 DEF GrantRecord
<1>3. new # NoGrant
  BY <1>2, GrantAssumption
<1>4. Consumed(t, m) = [t EXCEPT ![m] = new]
  BY DEF Consumed
<1> HIDE DEF new
<1> QED
  BY <1>1, <1>2, <1>3, <1>4 DEF Tables, Known

LEMMA RevokedIs ==
    ASSUME NEW t \in Tables, NEW m \in Known(t)
    PROVE  /\ Revoked(t, m) \in Tables /\ m \in Known(Revoked(t, m))
           /\ Revoked(t, m)[m].state = "revoked" /\ Revoked(t, m)[m].session = t[m].session
           /\ \A g \in Grant : g # m =>
                /\ Revoked(t, m)[g] = t[g]
                /\ g \in Known(Revoked(t, m)) <=> g \in Known(t)
<1> DEFINE new == [t[m] EXCEPT !.state = "revoked"]
<1>1. m \in Grant /\ t[m] \in GrantRecord
  BY DEF Known, Tables
<1>2. /\ new \in GrantRecord
      /\ new.state = "revoked" /\ new.session = t[m].session
  BY <1>1 DEF GrantRecord
<1>3. new # NoGrant
  BY <1>2, GrantAssumption
<1>4. Revoked(t, m) = [t EXCEPT ![m] = new]
  BY DEF Revoked
<1> HIDE DEF new
<1> QED
  BY <1>1, <1>2, <1>3, <1>4 DEF Tables, Known

-----------------------------------------------------------------------------
(* The steps                                                               *)

\* Handlers that leave the grants alone: a session begins once, and ends.
LEMMA SessionsMove ==
    ASSUME GrantInv, UNCHANGED grants,
           life' \in [Session -> {"unused", "live", "terminal", "collected"}],
           \A s \in Session : /\ life'[s] = "live" => life[s] \in {"unused", "live"}
                              /\ life'[s] = "unused" => life[s] = "unused"
    PROVE  GrantInv'
<1>1. UNCHANGED <<table, lapsed, consent, minted, announced, admissions>>
  BY DEF grants
<1>2. GrantTypes'
  BY <1>1 DEF GrantInv, GrantTypes
<1>3. ASSUME NEW g \in Grant PROVE Counted(g)'
  BY <1>1 DEF GrantInv, Counted, Known
<1>4. ASSUME NEW g \in ObserverGrant PROVE Belongs(g)' /\ Told(g)'
  <2>1. Belongs(g) /\ Told(g)
    BY DEF GrantInv
  <2>2. minted[g] # HostSession => minted[g] \in Session
    BY DEF GrantInv, GrantTypes, Grant
  <2> QED
    BY <1>1, <2>1, <2>2 DEF Belongs, Told, Known
<1>5. Apart' /\ \A c \in Conn : Consent(c)'
  BY <1>1 DEF GrantInv, Apart, Consent
<1> QED
  BY <1>2, <1>3, <1>4, <1>5 DEF GrantInv

\* Create, EndSession and CollectRetained are the handlers that move a life.
LEMMA KeepSessions ==
    ASSUME GrantInv,
           \/ Refusal \/ Mutate
           \/ \E c \in Conn, k \in Key, call \in CreateCall :
                CreateRefused(c, k, call) \/ \E s \in Session : Create(c, k, call, s)
           \/ \E k \in Key : FloorPasses(k)
           \/ \E s \in Session, c \in Conn, k \in Key :
                \/ AttachController(c, s, k) \/ Transfer(c, s, k)
                \/ \E call \in SessionCall : KeyRefused(c, s, k, call)
           \/ \E s \in Session : ReleaseControl(s) \/ EndSession(s) \/ CollectRetained(s)
           \/ UNCHANGED vars
    PROVE  GrantInv'
<1>1. UNCHANGED grants
  BY DEF Refusal, Mutate, CreateRefused, Create, FloorPasses, AttachController, Transfer,
         KeyRefused, ReleaseControl, EndSession, CollectRetained, vars, grants
<1>2. \/ life' = life
      \/ \E s \in Session : /\ life[s] = "unused"
                            /\ \/ life' = [life EXCEPT ![s] = "live"]
                               \/ life' = [life EXCEPT ![s] = "terminal"]
      \/ \E s \in Session : life' = [life EXCEPT ![s] = "terminal"]
      \/ \E s \in Session : life' = [life EXCEPT ![s] = "collected"]
  BY DEF Refusal, Mutate, CreateRefused, Create, FloorPasses, AttachController, Transfer,
         ClaimControl, KeyRefused, ReleaseControl, EndSession, CollectRetained, vars, sessions
<1>3. life \in [Session -> {"unused", "live", "terminal", "collected"}]
  BY DEF GrantInv, GrantTypes
<1>4. life' \in [Session -> {"unused", "live", "terminal", "collected"}]
  BY <1>2, <1>3
<1>5. ASSUME NEW s \in Session
      PROVE  /\ life'[s] = "live" => life[s] \in {"unused", "live"}
             /\ life'[s] = "unused" => life[s] = "unused"
  BY <1>2, <1>3
<1> QED
  BY <1>1, <1>4, <1>5, SessionsMove

\* What the grant handlers leave alone.
LEMMA KeepDisconnect ==
    ASSUME GrantInv, NEW c \in Conn, Disconnect(c)
    PROVE  GrantInv'
<1>1. /\ consent' = [consent EXCEPT ![c] = NoGrant]
      /\ UNCHANGED <<life, table, lapsed, minted, announced, admissions>>
  BY DEF Disconnect, sessions
<1>2. GrantTypes'
  BY <1>1 DEF GrantInv, GrantTypes
<1>3. ASSUME NEW g \in Grant PROVE Counted(g)'
  BY <1>1 DEF GrantInv, Counted, Known
<1>4. ASSUME NEW g \in ObserverGrant PROVE Belongs(g)' /\ Told(g)'
  BY <1>1 DEF GrantInv, Belongs, Told, Known
<1>5. Apart' /\ \A d \in Conn : Consent(d)'
  BY <1>1 DEF GrantInv, GrantTypes, Apart, Consent
<1> QED
  BY <1>2, <1>3, <1>4, <1>5 DEF GrantInv

\* Negotiate consumes a grant that has admitted nobody: no other connection
\* can stand on it.
LEMMA KeepNegotiate ==
    ASSUME GrantInv, NEW c \in Conn, NEW m \in HostGrant, Negotiate(c, m)
    PROVE  GrantInv'
<1>1. /\ m \in Known(table) /\ table[m].state = "unused"
      /\ table' = Consumed(table, m)
      /\ consent' = [consent EXCEPT ![c] = m]
      /\ admissions' = [admissions EXCEPT ![m] = @ + 1]
      /\ UNCHANGED <<life, lapsed, minted, announced>>
  BY DEF Negotiate, Active, sessions
<1>2. m \in Grant /\ m \notin ObserverGrant /\ m # NoGrant /\ table \in Tables
  BY GrantAssumption DEF Grant, GrantInv, GrantTypes
<1>3. admissions[m] = 0
  BY <1>1, <1>2 DEF GrantInv, Counted
<1>4. admissions' = [admissions EXCEPT ![m] = 1]
  BY <1>1, <1>3
<1>5. /\ table' \in Tables /\ m \in Known(table') /\ table'[m].state = "consumed"
      /\ \A g \in Grant : g # m => /\ table'[g] = table[g]
                                   /\ g \in Known(table') <=> g \in Known(table)
  BY <1>1, <1>2, ConsumedIs
<1>6. GrantTypes'
  BY <1>1, <1>2, <1>4, <1>5 DEF GrantInv, GrantTypes
<1>7. ASSUME NEW g \in Grant PROVE Counted(g)'
  BY <1>2, <1>4, <1>5 DEF GrantInv, GrantTypes, Counted
<1>8. ASSUME NEW g \in ObserverGrant PROVE Belongs(g)' /\ Told(g)'
  <2>1. g \in Grant /\ g # m /\ admissions'[g] = admissions[g]
    BY <1>2, <1>4 DEF Grant, GrantInv, GrantTypes
  <2>2. Belongs(g) /\ Told(g)
    BY DEF GrantInv
  <2> QED
    BY <1>1, <1>5, <2>1, <2>2 DEF Belongs, Told
<1>9. ASSUME NEW d \in Conn PROVE Consent(d)'
  BY <1>1, <1>2, <1>3, <1>4 DEF GrantInv, GrantTypes, Consent, Grant
<1>10. Apart'
  BY <1>1, <1>2, <1>3 DEF GrantInv, GrantTypes, Apart, Consent
<1> QED
  BY <1>6, <1>7, <1>8, <1>9, <1>10 DEF GrantInv

\* An observer grant admits an observer and is consumed, or the host refuses
\* and the grant is left as it was.
LEMMA KeepAttachObserver ==
    ASSUME GrantInv, NEW s \in Session, NEW m \in ObserverGrant, AttachObserver(s, m)
    PROVE  GrantInv'
<1>1. /\ m \in Known(table) /\ table[m].state = "unused"
      /\ UNCHANGED <<life, lapsed, consent, minted>>
  BY DEF AttachObserver, ActiveIn, Active, sessions
<1>2. \/ UNCHANGED <<table, announced, admissions>>
      \/ /\ table' = Consumed(table, m)
         /\ announced' = announced \cup {m}
         /\ admissions' = [admissions EXCEPT ![m] = @ + 1]
  BY DEF AttachObserver
<1>3. m \in Grant /\ m \notin HostGrant /\ m # NoGrant /\ table \in Tables
  BY GrantAssumption DEF Grant, GrantInv, GrantTypes
<1>4. admissions[m] = 0
  BY <1>1, <1>3 DEF GrantInv, Counted
<1>5. CASE UNCHANGED <<table, announced, admissions>>
  BY <1>1, <1>5, SessionsMove DEF grants, GrantInv, GrantTypes
<1>6. CASE /\ table' = Consumed(table, m)
           /\ announced' = announced \cup {m}
           /\ admissions' = [admissions EXCEPT ![m] = @ + 1]
  <2>1. admissions' = [admissions EXCEPT ![m] = 1]
    BY <1>4, <1>6
  <2>2. /\ table' \in Tables /\ m \in Known(table') /\ table'[m].state = "consumed"
        /\ table'[m].session = table[m].session
        /\ \A g \in Grant : g # m => /\ table'[g] = table[g]
                                     /\ g \in Known(table') <=> g \in Known(table)
    BY <1>1, <1>3, <1>6, ConsumedIs
  <2>3. GrantTypes'
    BY <1>1, <1>3, <2>1, <2>2 DEF GrantInv, GrantTypes
  <2>4. ASSUME NEW g \in Grant PROVE Counted(g)'
    BY <1>3, <2>1, <2>2 DEF GrantInv, GrantTypes, Counted
  <2>5. ASSUME NEW g \in ObserverGrant PROVE Belongs(g)' /\ Told(g)'
    <3>1. g \in Grant /\ Belongs(g) /\ Told(g)
      BY DEF Grant, GrantInv
    <3>2. CASE g = m
      BY <1>1, <1>6, <2>2, <3>1, <3>2 DEF Belongs, Told
    <3>3. CASE g # m
      <4>1. admissions'[g] = admissions[g]
        BY <2>1, <3>1, <3>3 DEF GrantInv, GrantTypes
      <4> QED
        BY <1>1, <1>6, <2>2, <3>1, <3>3, <4>1 DEF Belongs, Told
    <3> QED
      BY <3>2, <3>3
  <2>6. ASSUME NEW d \in Conn PROVE Consent(d)'
    BY <1>1, <1>3, <2>1 DEF GrantInv, GrantTypes, Consent, Grant
  <2>7. Apart'
    BY <1>1 DEF GrantInv, Apart
  <2> QED
    BY <2>3, <2>4, <2>5, <2>6, <2>7 DEF GrantInv
<1> QED
  BY <1>2, <1>5, <1>6

\* A revoked grant has admitted whom it has admitted; the end of an observer
\* grant is announced with it.
LEMMA KeepRevoke ==
    ASSUME GrantInv, NEW m \in Known(table), table' = Revoked(table, m),
           m \in ObserverGrant => announced' = announced \cup {m},
           m \notin ObserverGrant => UNCHANGED announced,
           UNCHANGED <<life, lapsed, consent, minted, admissions>>
    PROVE  GrantInv'
<1>1. m \in Grant /\ table \in Tables
  BY DEF Known, GrantInv, GrantTypes
<1>2. /\ table' \in Tables /\ m \in Known(table') /\ table'[m].state = "revoked"
      /\ table'[m].session = table[m].session
      /\ \A g \in Grant : g # m => /\ table'[g] = table[g]
                                   /\ g \in Known(table') <=> g \in Known(table)
  BY <1>1, RevokedIs
<1>3. GrantTypes'
  BY <1>2 DEF GrantInv, GrantTypes
<1>4. ASSUME NEW g \in Grant PROVE Counted(g)'
  BY <1>2 DEF GrantInv, Counted
<1>5. ASSUME NEW g \in ObserverGrant PROVE Belongs(g)' /\ Told(g)'
  <2>1. g \in Grant /\ Belongs(g) /\ Told(g)
    BY DEF Grant, GrantInv
  <2> QED
    BY <1>2, <2>1 DEF Belongs, Told
<1>6. Apart' /\ \A d \in Conn : Consent(d)'
  BY DEF GrantInv, Apart, Consent
<1> QED
  BY <1>3, <1>4, <1>5, <1>6 DEF GrantInv

\* The end of a grant's lifetime.
LEMMA KeepExpire ==
    ASSUME GrantInv, NEW m \in Grant, Expire(m)
    PROVE  GrantInv'
<1> DEFINE new == [table[m] EXCEPT !.expired = TRUE]
<1>1. /\ m \in Known(table) /\ table' = [table EXCEPT ![m] = new]
      /\ UNCHANGED <<life, lapsed, consent, minted, announced, admissions>>
  BY DEF Expire, sessions
<1>2. table[m] \in GrantRecord /\ table \in Tables
  BY <1>1 DEF GrantInv, GrantTypes, Known, Tables
<1>3. new \in GrantRecord /\ new.state = table[m].state /\ new.session = table[m].session
  BY <1>2 DEF GrantRecord
<1>4. new # NoGrant
  BY <1>3, GrantAssumption
<1> HIDE DEF new
<1>5. /\ table' \in Tables /\ m \in Known(table') /\ table'[m] = new
      /\ \A g \in Grant : g # m => /\ table'[g] = table[g]
                                   /\ g \in Known(table') <=> g \in Known(table)
  BY <1>1, <1>2, <1>3, <1>4 DEF Tables, Known
<1>6. GrantTypes'
  BY <1>1, <1>5 DEF GrantInv, GrantTypes
<1>7. ASSUME NEW g \in Grant PROVE Counted(g)'
  BY <1>1, <1>3, <1>5 DEF GrantInv, Counted
<1>8. ASSUME NEW g \in ObserverGrant PROVE Belongs(g)' /\ Told(g)'
  <2>1. g \in Grant /\ Belongs(g) /\ Told(g)
    BY DEF Grant, GrantInv
  <2> QED
    BY <1>1, <1>3, <1>5, <2>1 DEF Belongs, Told
<1>9. Apart' /\ \A d \in Conn : Consent(d)'
  BY <1>1 DEF GrantInv, Apart, Consent
<1> QED
  BY <1>6, <1>7, <1>8, <1>9 DEF GrantInv

\* evict_expired on behalf of a mint that goes on or is refused.
LEMMA KeepEvict ==
    ASSUME GrantInv, table' = Evicted(table), lapsed' = lapsed \cup Lapsed(table),
           UNCHANGED <<life, consent, minted, announced, admissions>>
    PROVE  GrantInv'
<1>1. table \in Tables
  BY DEF GrantInv, GrantTypes
<1>2. /\ table' \in Tables
      /\ \A g \in Grant : g \in Known(table') => g \in Known(table) /\ table'[g] = table[g]
      /\ \A g \in ObserverGrant : g \in Known(table) /\ g \notin Known(table') =>
           table[g].state # "unused" \/ table[g].session \in Lapsed(table)
  BY <1>1, EvictedIs
<1>3. GrantTypes'
  BY <1>2 DEF GrantInv, GrantTypes
<1>4. ASSUME NEW g \in Grant PROVE Counted(g)'
  BY <1>2 DEF GrantInv, Counted
<1>5. ASSUME NEW g \in ObserverGrant PROVE Belongs(g)' /\ Told(g)'
  <2>1. g \in Grant /\ Belongs(g) /\ Told(g)
    BY DEF Grant, GrantInv
  <2> QED
    BY <1>2, <2>1 DEF Belongs, Told
<1>6. Apart' /\ \A d \in Conn : Consent(d)'
  BY DEF GrantInv, Apart, Consent
<1> QED
  BY <1>3, <1>4, <1>5, <1>6 DEF GrantInv

\* A mint takes an id that was never used, after the sweep.
LEMMA KeepMint ==
    ASSUME GrantInv, NEW m \in Grant, NEW s \in Session \cup {HostSession},
           m \notin Known(table), admissions[m] = 0,
           table' = Minted(table, m, s), lapsed' = lapsed \cup Lapsed(table),
           m \in ObserverGrant =>
               /\ s \in Session /\ life[s] = "live"
               /\ minted' = [minted EXCEPT ![m] = s],
           m \notin ObserverGrant => UNCHANGED minted,
           UNCHANGED <<life, consent, announced, admissions>>
    PROVE  GrantInv'
<1>1. table \in Tables
  BY DEF GrantInv, GrantTypes
<1>2. /\ \A g \in Grant : g \in Known(Evicted(table)) =>
           g \in Known(table) /\ Evicted(table)[g] = table[g]
      /\ \A g \in ObserverGrant : g \in Known(table) /\ g \notin Known(Evicted(table)) =>
           table[g].state # "unused" \/ table[g].session \in Lapsed(table)
  BY <1>1, EvictedIs
<1>3. /\ table' \in Tables
      /\ m \in Known(table') /\ table'[m].session = s /\ table'[m].state = "unused"
      /\ \A g \in Grant : g # m => /\ table'[g] = Evicted(table)[g]
                                   /\ g \in Known(table') <=> g \in Known(Evicted(table))
  BY <1>1, MintedIs
<1>4. minted' \in [Grant -> Session \cup {HostSession}]
  BY DEF GrantInv, GrantTypes
<1>5. GrantTypes'
  BY <1>3, <1>4 DEF GrantInv, GrantTypes
<1>6. ASSUME NEW g \in Grant PROVE Counted(g)'
  <2>1. Counted(g)
    BY DEF GrantInv
  <2>2. CASE g = m
    BY <1>3, <2>2 DEF Counted
  <2>3. CASE g # m
    BY <1>2, <1>3, <2>1, <2>3 DEF Counted
  <2> QED
    BY <2>2, <2>3
<1>7. ASSUME NEW g \in ObserverGrant PROVE Belongs(g)' /\ Told(g)'
  <2>1. g \in Grant /\ Belongs(g) /\ Told(g)
    BY DEF Grant, GrantInv
  <2>2. CASE g = m
    <3>1. minted'[g] = s /\ s \in Session
      BY <2>1, <2>2 DEF GrantInv, GrantTypes
    <3> QED
      BY <1>3, <2>2, <3>1, GrantAssumption DEF Belongs, Told
  <2>3. CASE g # m
    <3>1. minted'[g] = minted[g]
      BY <2>1, <2>3 DEF GrantInv, GrantTypes
    <3> QED
      BY <1>2, <1>3, <2>1, <2>3, <3>1 DEF Belongs, Told
  <2> QED
    BY <2>2, <2>3
<1>8. Apart' /\ \A d \in Conn : Consent(d)'
  BY DEF GrantInv, Apart, Consent
<1> QED
  BY <1>5, <1>6, <1>7, <1>8 DEF GrantInv

\* session.grant: the id is new, so it names no session yet.
LEMMA KeepMintObserver ==
    ASSUME GrantInv, NEW c \in Conn, NEW s \in Session, NEW k \in Key,
           NEW m \in ObserverGrant, MintObserver(c, s, k, m)
    PROVE  GrantInv'
<1>1. m \in Grant /\ m \notin Known(table) /\ admissions[m] = 0
  BY DEF GrantInv, Belongs, MintObserver, Grant
<1>2. /\ table' = Minted(table, m, s) /\ lapsed' = lapsed \cup Lapsed(table)
      /\ life[s] = "live" /\ minted' = [minted EXCEPT ![m] = s]
      /\ UNCHANGED <<life, consent, announced, admissions>>
  BY DEF MintObserver, Evict
<1> QED
  BY <1>1, <1>2, KeepMint

\* A refused mint has swept or not: nothing in between.
LEMMA KeepRefusedMint ==
    ASSUME GrantInv, NEW s, table' = RefusedMint(table, s),
           lapsed' = IF table' = table THEN lapsed ELSE lapsed \cup Lapsed(table),
           UNCHANGED <<life, consent, minted, announced, admissions>>
    PROVE  GrantInv'
<1>1. table' = table \/ table' = Evicted(table)
  BY DEF RefusedMint
<1>2. CASE table' = table
  BY <1>2, SessionsMove DEF grants, GrantInv, GrantTypes
<1>3. CASE table' # table
  BY <1>1, <1>3, KeepEvict
<1> QED
  BY <1>2, <1>3

\* A host grant belongs to no session.
LEMMA KeepMintHost ==
    ASSUME GrantInv, NEW m \in HostGrant, MintHost(m)
    PROVE  GrantInv'
<1>1. m \in Grant /\ m \notin ObserverGrant
  BY GrantAssumption DEF Grant
<1>2. UNCHANGED <<life, consent, minted, announced, admissions>>
  BY DEF MintHost, sessions
<1>3. CASE /\ admissions[m] = 0 /\ m \notin Known(table)
           /\ table' = Minted(table, m, HostSession) /\ lapsed' = lapsed \cup Lapsed(table)
  BY <1>1, <1>2, <1>3, KeepMint
<1>4. CASE /\ table' = RefusedMint(table, HostSession)
           /\ lapsed' = IF table' = table THEN lapsed ELSE lapsed \cup Lapsed(table)
  BY <1>2, <1>4, KeepRefusedMint
<1> QED
  BY <1>3, <1>4 DEF MintHost, Evict

\* The sweep of the loop announces what every earlier sweep has dropped.
LEMMA KeepSweep ==
    ASSUME GrantInv, SweepGrants
    PROVE  GrantInv'
<1>1. /\ table' = Evicted(table)
      /\ announced' = announced \cup
           UNION {Gone(table', s) : s \in {x \in lapsed \cup Lapsed(table) : life[x] = "live"}}
      /\ UNCHANGED <<life, consent, minted, admissions>>
  BY DEF SweepGrants, sessions
<1>2. table \in Tables
  BY DEF GrantInv, GrantTypes
<1>3. /\ table' \in Tables
      /\ \A g \in Grant : g \in Known(table') => g \in Known(table) /\ table'[g] = table[g]
      /\ \A g \in ObserverGrant : g \in Known(table) /\ g \notin Known(table') =>
           table[g].state # "unused" \/ table[g].session \in Lapsed(table)
  BY <1>1, <1>2, EvictedIs
<1>4. GrantTypes'
  BY <1>1, <1>3 DEF GrantInv, GrantTypes
<1>5. ASSUME NEW g \in Grant PROVE Counted(g)'
  BY <1>1, <1>3 DEF GrantInv, Counted
<1>6. ASSUME NEW g \in ObserverGrant PROVE Belongs(g)' /\ Told(g)'
  <2>1. g \in Grant /\ Belongs(g) /\ Told(g)
    BY DEF Grant, GrantInv
  <2>2. Belongs(g)'
    BY <1>1, <1>3, <2>1 DEF Belongs
  <2>3. ASSUME minted[g] # HostSession, life[minted[g]] = "live"
        PROVE  IF g \in Known(table') THEN table'[g].state = "unused" \/ g \in announced'
               ELSE g \in announced'
    <3>1. CASE g \in Known(table')
      BY <1>1, <1>3, <2>1, <2>3, <3>1 DEF Told
    <3>2. CASE g \notin Known(table') /\ minted[g] \in lapsed \cup Lapsed(table)
      <4>1. g \in Gone(table', minted[g])
        BY <3>2 DEF Gone
      <4> QED
        BY <1>1, <2>3, <3>2, <4>1
    <3>3. CASE g \notin Known(table') /\ minted[g] \notin lapsed \cup Lapsed(table)
      BY <1>1, <1>3, <2>1, <2>3, <3>3 DEF Belongs, Told
    <3> QED
      BY <3>1, <3>2, <3>3
  <2> QED
    BY <1>1, <2>2, <2>3 DEF Told
<1>7. Apart' /\ \A d \in Conn : Consent(d)'
  BY <1>1 DEF GrantInv, Apart, Consent
<1> QED
  BY <1>4, <1>5, <1>6, <1>7 DEF GrantInv

-----------------------------------------------------------------------------
(* The theorems                                                            *)

\* No grant has been minted.
LEMMA GrantInit ==
    Init => GrantInv
<1> SUFFICES ASSUME Init PROVE GrantInv
  OBVIOUS
<1>1. Known(table) = {}
  BY DEF Init, EmptyTable, Known
<1>2. GrantTypes
  BY DEF Init, GrantTypes, EmptyTable, Tables
<1>3. /\ \A g \in Grant : Counted(g)
      /\ \A g \in ObserverGrant : Belongs(g) /\ Told(g)
  BY <1>1 DEF Init, Counted, Belongs, Told, Grant
<1>4. Apart /\ \A c \in Conn : Consent(c)
  BY DEF Init, Apart, Consent
<1> QED
  BY <1>2, <1>3, <1>4 DEF GrantInv

\* The steps, one group of disjuncts of Next after the other.
LEMMA GrantNext ==
    GrantInv /\ [Next]_vars => GrantInv'
<1> SUFFICES ASSUME GrantInv, [Next]_vars PROVE GrantInv'
  OBVIOUS
<1>1. CASE \/ Refusal \/ Mutate
           \/ \E c \in Conn, k \in Key, call \in CreateCall :
                CreateRefused(c, k, call) \/ \E s \in Session : Create(c, k, call, s)
           \/ \E k \in Key : FloorPasses(k)
           \/ \E s \in Session, c \in Conn, k \in Key :
                \/ AttachController(c, s, k) \/ Transfer(c, s, k)
                \/ \E call \in SessionCall : KeyRefused(c, s, k, call)
           \/ \E s \in Session : ReleaseControl(s) \/ EndSession(s) \/ CollectRetained(s)
           \/ UNCHANGED vars
  BY <1>1, KeepSessions
<1>2. CASE SweepGrants
  BY <1>2, KeepSweep
<1>3. ASSUME NEW c \in Conn, Disconnect(c) \/ \E g \in HostGrant : Negotiate(c, g)
      PROVE  GrantInv'
  BY <1>3, KeepDisconnect, KeepNegotiate
<1>4. ASSUME NEW s \in Session, NEW c \in Conn, NEW k \in Key,
             MintObserverRefused(c, s, k) \/ \E g \in ObserverGrant : MintObserver(c, s, k, g)
      PROVE  GrantInv'
  <2>1. CASE MintObserverRefused(c, s, k)
    <3>1. /\ table' = RefusedMint(table, s)
          /\ lapsed' = IF table' = table THEN lapsed ELSE lapsed \cup Lapsed(table)
          /\ UNCHANGED <<life, consent, minted, announced, admissions>>
      BY <2>1 DEF MintObserverRefused, sessions
    <3> QED
      BY <3>1, KeepRefusedMint
  <2> QED
    BY <1>4, <2>1, KeepMintObserver
<1>5. ASSUME NEW s \in Session, NEW g \in ObserverGrant, AttachObserver(s, g)
      PROVE  GrantInv'
  BY <1>5, KeepAttachObserver
<1>6. ASSUME NEW g \in ObserverGrant, RevokeObserver(g)
      PROVE  GrantInv'
  <2>1. g \in Known(table) /\ UNCHANGED <<life, lapsed, consent, minted, admissions>>
    BY <1>6 DEF RevokeObserver, sessions
  <2>2. \/ table' = Revoked(table, g) /\ announced' = announced \cup {g}
        \/ UNCHANGED <<table, announced>>
    BY <1>6 DEF RevokeObserver
  <2>3. CASE UNCHANGED <<table, announced>>
    BY <2>1, <2>3, SessionsMove DEF grants, GrantInv, GrantTypes
  <2> QED
    BY <2>1, <2>2, <2>3, KeepRevoke
<1>7. ASSUME NEW g \in HostGrant, MintHost(g) \/ RevokeHost(g)
      PROVE  GrantInv'
  <2>1. CASE RevokeHost(g)
    <3>1. /\ g \in Known(table) /\ table' = Revoked(table, g)
          /\ UNCHANGED <<life, lapsed, consent, minted, announced, admissions>>
      BY <2>1 DEF RevokeHost, Revocable, sessions
    <3>2. g \notin ObserverGrant
      BY GrantAssumption
    <3> QED
      BY <3>1, <3>2, KeepRevoke
  <2> QED
    BY <1>7, <2>1, KeepMintHost
<1>8. ASSUME NEW g \in Grant, Expire(g)
      PROVE  GrantInv'
  BY <1>8, KeepExpire
<1> QED
  BY <1>1, <1>2, <1>3, <1>4, <1>5, <1>6, <1>7, <1>8 DEF Next, KeyedSession

\* grants.rs: whatever connections present, a grant admits one observer or one
\* connection, and a record is consumed by that alone.
THEOREM GrantsAreSingleUse == Spec => []SingleUse
<1>1. GrantInv => SingleUse
  <2> SUFFICES ASSUME GrantInv PROVE SingleUse
    OBVIOUS
  <2>1. \A g \in Grant : admissions[g] <= 1
    BY DEF GrantInv, GrantTypes
  <2>2. \A g \in Known(table) : /\ table[g].state = "consumed" => admissions[g] = 1
                                /\ table[g].state = "unused" => admissions[g] = 0
    BY DEF GrantInv, Counted, Known
  <2> QED
    BY <2>1, <2>2 DEF GrantInv, Apart, SingleUse
<1> QED
  BY <1>1, GrantInit, GrantNext, PTL DEF Spec

\* dispatch.rs, sweep_grants: whichever of a mint, a refused mint and the loop
\* drops the record of an observer grant, its session is told.
THEOREM EndsAreAnnounced == Spec => []GrantEndsAnnounced
<1>1. GrantInv => GrantEndsAnnounced
  BY DEF GrantInv, Told, GrantEndsAnnounced
<1> QED
  BY <1>1, GrantInit, GrantNext, PTL DEF Spec

-----------------------------------------------------------------------------
(* The audit sink                                                          *)

\* Nothing that attests an effect waits in the ring, which drops.
Clean(s) ==
    /\ s \in [ring : Seq(Attest), retry : Seq(Attest), degraded : BOOLEAN]
    /\ \A i \in 1 .. Len(s.ring) : s.ring[i] # "applied"
Sound(s) == Clean(s) /\ (Pending(s) # <<>> => s.degraded)

\* The last batch begun holds the record after the last one written.
LEMMA BatchCovers ==
    ASSUME NEW m \in Nat, NEW b \in Nat \ {0}
    PROVE  b * (m \div b + 1) \in Nat /\ b * (m \div b + 1) > m
<1>1. m \div b \in Nat /\ m < b * (m \div b) + b
  BY SMT
<1>2. b * (m \div b + 1) = b * (m \div b) + b
  BY <1>1, SMT
<1>3. b * (m \div b) \in Nat
  BY <1>1, SMT
<1> QED
  BY <1>1, <1>2, <1>3, SMT

\* The sink with nothing pending.
LEMMA EmptyIs ==
    /\ Sound(EmptySink) /\ Pending(EmptySink) = <<>>
    /\ EmptySink.retry = <<>> /\ EmptySink.ring = <<>> /\ EmptySink.degraded = FALSE
<1>1. <<>> \in Seq(Attest) /\ Len(<<>>) = 0 /\ <<>> \o <<>> = <<>>
  BY SMT
<1> QED
  BY <1>1, SMT DEF Sound, Clean, EmptySink, Pending

\* A flush that stops keeps the rest of its batch in `retry`, whole.
LEMMA FlushedIs ==
    ASSUME NEW s, s \in [ring : Seq(Attest), retry : Seq(Attest), degraded : BOOLEAN],
           NEW n \in 0 .. Len(Pending(s))
    PROVE  \/ FlushedTo(s, n) = EmptySink
           \/ \E end \in Nat :
                /\ end > n /\ end >= Len(s.retry) /\ end <= Len(Pending(s))
                /\ FlushedTo(s, n) =
                     [retry |-> SubSeq(Pending(s), n + 1, end),
                      ring |-> SubSeq(Pending(s), end + 1, Len(Pending(s))),
                      degraded |-> TRUE]
<1> DEFINE all == Pending(s)
           first == Len(s.retry)
           batchEnd == IF n < first THEN first
                       ELSE first + FlushBatch * ((n - first) \div FlushBatch + 1)
           end == Smaller(batchEnd, Len(all))
<1>1. first \in Nat /\ Len(all) \in Nat /\ Len(all) >= first /\ n \in Nat /\ n <= Len(all)
  BY SMT DEF Pending
<1>2. batchEnd \in Nat /\ batchEnd > n /\ batchEnd >= first
  <2>1. CASE n < first
    BY <1>1, <2>1, SMT
  <2>2. CASE n >= first
    <3>1. n - first \in Nat /\ FlushBatch \in Nat \ {0}
      BY <1>1, <2>2, FlushBatchAssumption, SMT
    <3>2. /\ FlushBatch * ((n - first) \div FlushBatch + 1) \in Nat
          /\ FlushBatch * ((n - first) \div FlushBatch + 1) > n - first
      BY <3>1, BatchCovers
    <3> DEFINE more == FlushBatch * ((n - first) \div FlushBatch + 1)
    <3>3. batchEnd = first + more
      BY <1>1, <2>2, SMT
    <3> HIDE DEF more, batchEnd
    <3> QED
      BY <1>1, <3>2, <3>3, SMT DEF more
  <2> QED
    BY <1>1, <2>1, <2>2, SMT
<1>3. FlushedTo(s, n) =
        IF n = Len(all) THEN EmptySink
        ELSE [retry |-> SubSeq(all, n + 1, end), ring |-> SubSeq(all, end + 1, Len(all)),
              degraded |-> TRUE]
  BY DEF FlushedTo
<1> HIDE DEF batchEnd
<1>4. n # Len(all) => end \in Nat /\ end > n /\ end >= first /\ end <= Len(all)
  BY <1>1, <1>2, SMT DEF Smaller
<1> HIDE DEF end
<1> QED
  BY <1>3, <1>4

\* Parts of what is pending.
LEMMA PartIs ==
    ASSUME NEW q \in Seq(Attest), NEW m \in Nat, NEW e \in Nat, e <= Len(q)
    PROVE  SubSeq(q, m + 1, e) \in Seq(Attest)
<1>1. \A i \in 1 .. Len(q) : q[i] \in Attest
  BY ElementOfSeq
<1>2. Len(q) \in Nat
  OBVIOUS
<1>3. m + 1 \in Int /\ e \in Int /\ \A i \in m + 1 .. e : q[i] \in Attest
  BY <1>1, <1>2
<1> QED
  BY <1>3, SubSeqProperties

\* What is left behind the first e records.
LEMMA SuffixIs ==
    ASSUME NEW q \in Seq(Attest), NEW e \in Nat, e <= Len(q)
    PROVE  /\ SubSeq(q, e + 1, Len(q)) \in Seq(Attest)
           /\ Len(SubSeq(q, e + 1, Len(q))) = Len(q) - e
           /\ \A k \in 1 .. Len(q) - e : SubSeq(q, e + 1, Len(q))[k] = q[e + k]
<1> DEFINE n == Len(q)
           t == SubSeq(q, e + 1, n)
<1>1. \A i \in 1 .. n : q[i] \in Attest
  BY ElementOfSeq
<1>2. n \in Nat
  OBVIOUS
<1>3. e + 1 \in Int /\ n \in Int /\ \A i \in e + 1 .. n : q[i] \in Attest
  BY <1>1, <1>2
<1>4. /\ t \in Seq(Attest)
      /\ Len(t) = IF e + 1 <= n THEN n - (e + 1) + 1 ELSE 0
      /\ \A k \in 1 .. n - (e + 1) + 1 : t[k] = q[k + (e + 1) - 1]
  <2> HIDE DEF n
  <2> QED
    BY <1>3, SubSeqProperties
<1> HIDE DEF t
<1>5. e <= n
  OBVIOUS
<1> HIDE DEF n
<1>6. Len(t) = n - e
  BY <1>2, <1>4, <1>5
<1>7. ASSUME NEW k \in 1 .. n - e PROVE t[k] = q[e + k]
  <2>1. k \in 1 .. n - (e + 1) + 1 /\ k + (e + 1) - 1 = e + k
    BY <1>2, <1>5
  <2> QED
    BY <1>4, <2>1
<1> QED
  BY <1>4, <1>6, <1>7 DEF t, n

\* What waits in the ring is behind the batch.
LEMMA BehindIs ==
    ASSUME NEW r \in Seq(Attest), NEW s \in Seq(Attest), NEW k \in 1 .. Len(s)
    PROVE  (r \o s)[Len(r) + k] = s[k]
    BY SMT

\* `flush` moves nothing into the ring, and says so when something is left.
LEMMA FlushKeeps ==
    ASSUME NEW s, Clean(s), NEW t \in Flush(s)
    PROVE  /\ Sound(t) /\ (~t.degraded => t = EmptySink)
<1>1. PICK n \in 0 .. Len(Pending(s)) : t = FlushedTo(s, n)
  BY DEF Flush
<1> DEFINE all == Pending(s)
<1>2. /\ s \in [ring : Seq(Attest), retry : Seq(Attest), degraded : BOOLEAN]
      /\ s.retry \in Seq(Attest) /\ s.ring \in Seq(Attest)
  BY DEF Clean
<1>3. CASE t = EmptySink
  BY <1>3, EmptyIs
<1>4. CASE \E end \in Nat :
             /\ end > n /\ end >= Len(s.retry) /\ end <= Len(all)
             /\ t = [retry |-> SubSeq(all, n + 1, end),
                     ring |-> SubSeq(all, end + 1, Len(all)), degraded |-> TRUE]
  <2>1. PICK end \in Nat :
          /\ end > n /\ end >= Len(s.retry) /\ end <= Len(all)
          /\ t = [retry |-> SubSeq(all, n + 1, end),
                  ring |-> SubSeq(all, end + 1, Len(all)), degraded |-> TRUE]
    BY <1>4
  <2>2. /\ all \in Seq(Attest) /\ Len(all) \in Nat /\ Len(s.retry) \in Nat
        /\ Len(all) = Len(s.retry) + Len(s.ring)
    BY <1>2, SMT DEF Pending
  <2>3. SubSeq(all, n + 1, end) \in Seq(Attest) /\ SubSeq(all, end + 1, Len(all)) \in Seq(Attest)
    <3> HIDE DEF all
    <3>1. SubSeq(all, n + 1, end) \in Seq(Attest)
      <4>1. n \in Nat /\ end \in Nat /\ end <= Len(all)
        BY <2>1
      <4> QED
        BY <2>2, <4>1, PartIs
    <3> QED
      BY <2>1, <2>2, <3>1, SuffixIs
  <2>4. ASSUME NEW i \in 1 .. Len(t.ring) PROVE t.ring[i] # "applied"
    <3>1. t.ring = SubSeq(all, end + 1, Len(all))
      BY <2>1
    <3>2. i \in 1 .. Len(all) - end /\ t.ring[i] = all[end + i]
      BY <2>1, <2>2, <3>1, SuffixIs
    <3>3. Len(s.ring) \in Nat
      BY <1>2
    <3> DEFINE k == end + i - Len(s.retry)
    <3>4. k \in 1 .. Len(s.ring) /\ end + i = Len(s.retry) + k
      <4> DEFINE a == Len(all)
                 r == Len(s.retry)
                 g == Len(s.ring)
      <4>1. end \in Nat /\ end >= r /\ end <= a
        BY <2>1
      <4>2. a \in Nat /\ r \in Nat /\ g \in Nat /\ a = r + g
        BY <2>2, <3>3
      <4>3. i \in 1 .. a - end
        BY <3>2
      <4> HIDE DEF a, r, g
      <4>4. end + i - r \in 1 .. g /\ end + i = r + (end + i - r)
        BY <4>1, <4>2, <4>3
      <4> QED
        BY <4>4 DEF r, g
    <3> HIDE DEF k
    <3>5. all[Len(s.retry) + k] = s.ring[k]
      BY <1>2, <3>4, BehindIs DEF Pending
    <3> QED
      BY <3>2, <3>4, <3>5 DEF Clean
  <2>5. t \in [ring : Seq(Attest), retry : Seq(Attest), degraded : BOOLEAN] /\ t.degraded = TRUE
    BY <2>1, <2>3
  <2> QED
    BY <2>4, <2>5 DEF Sound, Clean
<1> QED
  BY <1>1, <1>2, <1>3, <1>4, FlushedIs

\* A refusal recorded, or any other record that attests no effect.
LEMMA RecordsOther ==
    ASSUME NEW s, Clean(s), NEW t \in Record(s, "other")
    PROVE  Sound(t)
<1> DEFINE kept == IF Len(s.ring) >= RingCap THEN Tail(s.ring) ELSE s.ring
           staged == [s EXCEPT !.ring = Append(kept, "other")]
<1>1. s.ring \in Seq(Attest) /\ Len(s.ring) \in Nat /\ RingCap \in Nat \ {0}
  BY RingCapAssumption, SMT DEF Clean
<1>2. kept \in Seq(Attest) /\ \A i \in 1 .. Len(kept) : kept[i] # "applied"
  <2>1. CASE Len(s.ring) >= RingCap
    <3>1. s.ring # <<>> /\ kept = Tail(s.ring)
      BY <1>1, <2>1, SMT
    <3>2. Len(kept) = Len(s.ring) - 1 /\ kept \in Seq(Attest)
      BY <1>1, <3>1, HeadTailProperties
    <3>3. ASSUME NEW i \in 1 .. Len(kept) PROVE kept[i] = s.ring[i + 1]
      BY <1>1, <3>1, <3>2, SMT
    <3> QED
      BY <1>1, <3>2, <3>3, SMT DEF Clean
  <2>2. CASE ~(Len(s.ring) >= RingCap)
    BY <1>1, <2>2 DEF Clean
  <2> QED
    BY <2>1, <2>2
<1> HIDE DEF kept
<1>3. /\ Append(kept, "other") \in Seq(Attest)
      /\ \A i \in 1 .. Len(Append(kept, "other")) : Append(kept, "other")[i] # "applied"
  BY <1>2, SMT DEF Attest
<1>4. staged.ring = Append(kept, "other")
  BY DEF Clean
<1>5. Clean(staged)
  BY <1>3, <1>4 DEF Clean
<1>6. t \in Flush(staged)
  BY DEF Record, kept
<1> QED
  BY <1>5, <1>6, FlushKeeps

\* An effect is recorded after the sink has been emptied: its record is the
\* only one, and does not stay in the ring.
LEMMA RecordsApplied ==
    ASSUME NEW t \in Record(EmptySink, "applied")
    PROVE  Sound(t)
<1> DEFINE staged == [EmptySink EXCEPT !.ring = <<"applied">>]
           all == <<"applied">>
<1>1. EmptySink.ring = <<>> /\ ~(Len(<<>>) >= RingCap)
  BY EmptyIs, RingCapAssumption, SMT
<1>2. Append(<<>>, "applied") = <<"applied">>
  BY SMT
<1>3. t \in Flush(staged)
  BY <1>1, <1>2 DEF Record
<1>4. /\ staged \in [ring : Seq(Attest), retry : Seq(Attest), degraded : BOOLEAN]
      /\ staged.retry = <<>> /\ staged.ring = <<"applied">>
  <2>1. <<>> \in Seq(Attest) /\ <<"applied">> \in Seq(Attest)
    BY SMT DEF Attest
  <2>2. /\ EmptySink \in [ring : Seq(Attest), retry : Seq(Attest), degraded : BOOLEAN]
        /\ EmptySink.retry = <<>>
    BY EmptyIs DEF Sound, Clean
  <2> QED
    BY <2>1, <2>2
<1> HIDE DEF staged
<1>5. Pending(staged) = all
  <2>1. <<>> \o <<"applied">> = <<"applied">>
    BY SMT
  <2> QED
    BY <1>4, <2>1 DEF Pending
<1>6. all \in Seq(Attest) /\ Len(all) = 1
  BY SMT DEF Attest
<1>7. PICK n \in 0 .. Len(all) : t = FlushedTo(staged, n)
  BY <1>3, <1>5 DEF Flush
<1>8. CASE t = EmptySink
  BY <1>8, EmptyIs
<1>9. CASE \E end \in Nat :
             /\ end > n /\ end <= Len(all)
             /\ t = [retry |-> SubSeq(all, n + 1, end),
                     ring |-> SubSeq(all, end + 1, Len(all)), degraded |-> TRUE]
  <2>1. PICK end \in Nat :
             /\ end > n /\ end <= Len(all)
             /\ t = [retry |-> SubSeq(all, n + 1, end),
                     ring |-> SubSeq(all, end + 1, Len(all)), degraded |-> TRUE]
    BY <1>9
  <2> HIDE DEF all
  <2>2. end = 1 /\ n \in Nat
    BY <1>6, <2>1
  <2>3. SubSeq(all, n + 1, end) \in Seq(Attest)
    BY <1>6, <2>1, <2>2, PartIs
  <2>4. /\ SubSeq(all, end + 1, Len(all)) \in Seq(Attest)
        /\ Len(SubSeq(all, end + 1, Len(all))) = 0
    BY <1>6, <2>1, <2>2, SuffixIs
  <2>5. /\ t \in [ring : Seq(Attest), retry : Seq(Attest), degraded : BOOLEAN]
        /\ t.degraded = TRUE /\ Len(t.ring) = 0
    BY <2>1, <2>3, <2>4
  <2> QED
    BY <2>5 DEF Sound, Clean
<1> QED
  BY <1>4, <1>5, <1>7, <1>8, <1>9, FlushedIs

\* `admit_mutation` lets a mutation pass with an empty sink only.
LEMMA AdmitIs ==
    ASSUME NEW s, Clean(s), NEW a \in Admit(s)
    PROVE  Clean(a.sink) /\ (a.ok => a.sink = EmptySink)
<1>1. CASE \E t \in Flush(s) : a = Admission(~t.degraded, t)
  <2>1. PICK t \in Flush(s) : a = Admission(~t.degraded, t)
    BY <1>1
  <2>2. a.ok = ~t.degraded /\ a.sink = t
    BY <2>1 DEF Admission
  <2> QED
    BY <2>2, FlushKeeps DEF Sound
<1>2. CASE a = Admission(FALSE, [EmptySink EXCEPT !.degraded = TRUE])
  <2>1. a.ok = FALSE /\ a.sink = [EmptySink EXCEPT !.degraded = TRUE]
    BY <1>2 DEF Admission
  <2>2. Clean([EmptySink EXCEPT !.degraded = TRUE])
    <3>1. /\ EmptySink \in [ring : Seq(Attest), retry : Seq(Attest), degraded : BOOLEAN]
          /\ \A i \in 1 .. Len(EmptySink.ring) : EmptySink.ring[i] # "applied"
      BY EmptyIs DEF Sound, Clean
    <3> QED
      BY <3>1 DEF Clean
  <2> QED
    BY <2>1, <2>2
<1> QED
  BY <1>1, <1>2 DEF Admit

\* Every handler leaves the sink alone, records what attests nothing, or asks
\* the sink first.
SinkStep ==
    \/ UNCHANGED sink
    \/ sink' \in Record(sink, "other")
    \/ Admits("applied") \/ Admits("other") \/ AdmissionFails \/ RefusedTwice

\* The handlers, one group of disjuncts of Next after the other.
LEMMA SinkNext ==
    ASSUME [Next]_vars
    PROVE  SinkStep
<1>1. CASE Refusal \/ Mutate \/ SweepGrants \/ \E k \in Key : FloorPasses(k)
  BY <1>1 DEF Refusal, Mutate, SweepGrants, FloorPasses, SinkStep
<1>2. ASSUME NEW c \in Conn, Disconnect(c) \/ \E g \in HostGrant : Negotiate(c, g)
      PROVE  SinkStep
  BY <1>2 DEF Disconnect, Negotiate, SinkStep
<1>3. ASSUME NEW c \in Conn, NEW k \in Key, NEW call \in CreateCall,
             CreateRefused(c, k, call) \/ \E s \in Session : Create(c, k, call, s)
      PROVE  SinkStep
  BY <1>3 DEF CreateRefused, Create, SinkStep
<1>4. ASSUME NEW s \in Session, NEW c \in Conn, NEW k \in Key,
             \/ AttachController(c, s, k) \/ Transfer(c, s, k) \/ MintObserverRefused(c, s, k)
             \/ \E call \in SessionCall : KeyRefused(c, s, k, call)
             \/ \E g \in ObserverGrant : MintObserver(c, s, k, g)
      PROVE  SinkStep
  BY <1>4 DEF AttachController, Transfer, MintObserverRefused, KeyRefused, MintObserver,
              RefusedOnce, SinkStep
<1>5. ASSUME NEW s \in Session, ReleaseControl(s) \/ EndSession(s) \/ CollectRetained(s)
      PROVE  SinkStep
  BY <1>5 DEF ReleaseControl, EndSession, CollectRetained, SinkStep
<1>6. ASSUME NEW s \in Session, NEW g \in ObserverGrant, AttachObserver(s, g)
      PROVE  SinkStep
  BY <1>6 DEF AttachObserver, RefusedOnce, SinkStep
<1>7. ASSUME NEW g \in ObserverGrant, RevokeObserver(g)
      PROVE  SinkStep
  BY <1>7 DEF RevokeObserver, RefusedOnce, SinkStep
<1>8. ASSUME NEW g \in HostGrant, MintHost(g) \/ RevokeHost(g)
      PROVE  SinkStep
  BY <1>8 DEF MintHost, RevokeHost, RefusedOnce, SinkStep
<1>9. ASSUME NEW g \in Grant, Expire(g)
      PROVE  SinkStep
  BY <1>9 DEF Expire, SinkStep
<1>10. CASE UNCHANGED vars
  BY <1>10 DEF vars, SinkStep
<1> QED
  BY <1>1, <1>2, <1>3, <1>4, <1>5, <1>6, <1>7, <1>8, <1>9, <1>10 DEF Next, KeyedSession

\* Every such step keeps the sink sound.
LEMMA SinkKeeps ==
    ASSUME Sound(sink), SinkStep
    PROVE  Sound(sink)'
<1>1. Clean(sink)
  BY DEF Sound
<1>2. CASE UNCHANGED sink
  BY <1>2 DEF Sound, Clean, Pending
<1>3. CASE sink' \in Record(sink, "other")
  <2>1. Sound(sink')
    BY <1>1, <1>3, RecordsOther
  <2> QED
    BY <2>1
<1>4. CASE Admits("applied")
  <2>1. Sound(sink')
    BY <1>1, <1>4, AdmitIs, RecordsApplied DEF Admits
  <2> QED
    BY <2>1
<1>5. CASE Admits("other") \/ AdmissionFails
  <2>1. Sound(sink')
    BY <1>1, <1>5, AdmitIs, RecordsOther DEF Admits, AdmissionFails
  <2> QED
    BY <2>1
<1>6. CASE RefusedTwice
  <2>1. PICK a \in Admit(sink) : \E s \in Record(a.sink, "other") : sink' \in Record(s, "other")
    BY <1>6 DEF RefusedTwice
  <2>2. PICK s \in Record(a.sink, "other") : sink' \in Record(s, "other")
    BY <2>1
  <2>3. Clean(s)
    BY <1>1, AdmitIs, RecordsOther DEF Sound
  <2>4. Sound(sink')
    BY <2>2, <2>3, RecordsOther
  <2> QED
    BY <2>4
<1> QED
  BY <1>2, <1>3, <1>4, <1>5, <1>6 DEF SinkStep

\* audit_sink.rs and the gate of dispatch.rs: the record of a mutation that was
\* admitted never waits where a full ring could drop it, and the daemon says
\* that it is degraded as long as anything waits.
THEOREM AppliedStaysAudited == Spec => []AppliedIsAudited
<1>1. Init => Sound(sink)
  BY EmptyIs DEF Init
<1>2. Sound(sink) /\ [Next]_vars => Sound(sink)'
  BY SinkNext, SinkKeeps
<1>3. Sound(sink) => AppliedIsAudited
  BY DEF Sound, Clean, AppliedIsAudited, ToSet
<1> QED
  BY <1>1, <1>2, <1>3, PTL DEF Spec

-----------------------------------------------------------------------------
(* The idempotency stores                                                  *)

\* One entry per key.
Keyed(q) == \A i \in DOMAIN q, j \in DOMAIN q : q[i].key = q[j].key => i = j

\* A store of well-formed entries, one per key.
Stores == {q \in Seq(EntryType) : Keyed(q)}

\* An entry is found by its key.
LEMMA EntryIs ==
    ASSUME NEW q \in Stores, NEW e \in Entries(q)
    PROVE  e \in EntryType /\ e.key \in KeysOf(q) /\ EntryOf(q, e.key) = e
<1>1. PICK i \in DOMAIN q : e = q[i]
  BY DEF Entries, ToSet
<1>2. ASSUME NEW f \in Entries(q), f.key = e.key PROVE f = e
  <2>1. PICK j \in DOMAIN q : f = q[j]
    BY DEF Entries, ToSet
  <2> QED
    BY <1>1, <1>2, <2>1 DEF Stores, Keyed
<1>3. e \in EntryType
  BY <1>1, ElementOfSeq DEF Stores
<1>4. e.key \in KeysOf(q)
  BY DEF KeysOf
<1>5. EntryOf(q, e.key) = e
  BY <1>2 DEF EntryOf
<1> QED
  BY <1>3, <1>4, <1>5

\* A remembered key has an entry.
LEMMA KeyIs ==
    ASSUME NEW q \in Stores, NEW k \in KeysOf(q)
    PROVE  EntryOf(q, k) \in Entries(q) /\ EntryOf(q, k).key = k
<1>1. PICK e \in Entries(q) : e.key = k
  BY DEF KeysOf
<1> QED
  BY <1>1, EntryIs

\* RemoveAt drops one entry.
LEMMA RemovedIs ==
    ASSUME NEW q \in Stores, NEW at \in DOMAIN q
    PROVE  /\ RemoveAt(q, at) \in Stores
           /\ Len(RemoveAt(q, at)) = Len(q) - 1
           /\ Entries(RemoveAt(q, at)) = Entries(q) \ {q[at]}
<1> DEFINE n == Len(q)
           r == RemoveAt(q, at)
<1>1. q \in Seq(EntryType) /\ n \in Nat /\ at \in 1 .. n /\ DOMAIN q = 1 .. n
  BY DEF Stores
<1>2. /\ r \in Seq(EntryType) /\ Len(r) = n - 1
      /\ \A i \in 1 .. n - 1 : r[i] = q[IF i < at THEN i ELSE i + 1]
  <2> DEFINE a == SubSeq(q, 1, at - 1)
             b == SubSeq(q, at + 1, n)
  <2>1. \A i \in 1 .. n : q[i] \in EntryType
    BY <1>1, ElementOfSeq
  <2>2. /\ a \in Seq(EntryType) /\ Len(a) = at - 1
        /\ \A i \in 1 .. at - 1 : a[i] = q[i]
    <3>1. 1 \in Int /\ at - 1 \in Int /\ \A i \in 1 .. at - 1 : q[i] \in EntryType
      BY <1>1, <2>1
    <3>2. /\ a \in Seq(EntryType)
          /\ Len(a) = IF 1 <= at - 1 THEN at - 1 - 1 + 1 ELSE 0
          /\ \A i \in 1 .. at - 1 - 1 + 1 : a[i] = q[i + 1 - 1]
      BY <3>1, SubSeqProperties
    <3> HIDE DEF a, n
    <3> QED
      BY <1>1, <3>2
  <2>3. /\ b \in Seq(EntryType) /\ Len(b) = n - at
        /\ \A i \in 1 .. n - at : b[i] = q[i + at]
    <3>1. at + 1 \in Int /\ n \in Int /\ \A i \in at + 1 .. n : q[i] \in EntryType
      BY <1>1, <2>1
    <3>2. /\ b \in Seq(EntryType)
          /\ Len(b) = IF at + 1 <= n THEN n - (at + 1) + 1 ELSE 0
          /\ \A i \in 1 .. n - (at + 1) + 1 : b[i] = q[i + (at + 1) - 1]
      <4> HIDE DEF n
      <4> QED
        BY <3>1, SubSeqProperties
    <3> HIDE DEF b, n
    <3>3. Len(b) = n - at
      BY <1>1, <3>2
    <3>4. ASSUME NEW i \in 1 .. n - at PROVE b[i] = q[i + at]
      <4>1. i \in 1 .. n - (at + 1) + 1 /\ i + (at + 1) - 1 = i + at
        BY <1>1
      <4> QED
        BY <3>2, <4>1
    <3> QED
      BY <3>2, <3>3, <3>4
  <2>4. r = a \o b
    BY DEF RemoveAt
  <2> HIDE DEF a, b, r, n
  <2>5. r \in Seq(EntryType) /\ Len(r) = Len(a) + Len(b)
    BY <2>2, <2>3, <2>4, ConcatProperties
  <2>6. ASSUME NEW i \in 1 .. n - 1 PROVE r[i] = q[IF i < at THEN i ELSE i + 1]
    <3>1. CASE i < at
      BY <1>1, <2>2, <2>3, <2>4, <3>1
    <3>2. CASE ~(i < at)
      <4>1. i - Len(a) \in 1 .. Len(b) /\ i - Len(a) + at = i + 1
        BY <1>1, <2>2, <2>3, <3>2
      <4>2. r[i] = b[i - Len(a)]
        <5>1. Len(a) \in Nat /\ Len(b) \in Nat /\ i \in 1 .. Len(a) + Len(b) /\ ~(i <= Len(a))
          BY <1>1, <2>2, <2>3, <3>2
        <5> QED
          BY <2>2, <2>3, <2>4, <5>1, ConcatProperties
      <4> QED
        BY <1>1, <2>2, <2>3, <3>2, <4>1, <4>2
    <3> QED
      BY <3>1, <3>2
  <2> QED
    BY <1>1, <2>2, <2>3, <2>5, <2>6
<1> HIDE DEF r
<1> DEFINE j(i) == IF i < at THEN i ELSE i + 1
<1>3. DOMAIN r = 1 .. n - 1
  BY <1>1, <1>2
<1>4. \A i \in 1 .. n - 1 : j(i) \in 1 .. n /\ j(i) # at /\ r[i] = q[j(i)]
  BY <1>1, <1>2
<1>5. \A i \in 1 .. n - 1, h \in 1 .. n - 1 : j(i) = j(h) => i = h
  BY <1>1
<1>6. \A h \in 1 .. n : h # at => \E i \in 1 .. n - 1 : h = j(i)
  <2> SUFFICES ASSUME NEW h \in 1 .. n, h # at PROVE \E i \in 1 .. n - 1 : h = j(i)
    OBVIOUS
  <2>1. CASE h < at
    <3>1. h \in 1 .. n - 1 /\ h = j(h)
      BY <1>1, <2>1
    <3> QED
      BY <3>1
  <2>2. CASE h > at
    <3>1. h - 1 \in 1 .. n - 1 /\ h = j(h - 1)
      BY <1>1, <2>2
    <3> QED
      BY <3>1
  <2> QED
    BY <1>1, <2>1, <2>2
<1> HIDE DEF j, n
<1>7. Keyed(r)
  BY <1>1, <1>3, <1>4, <1>5 DEF Keyed, Stores
<1>8. Entries(r) = Entries(q) \ {q[at]}
  <2>1. ASSUME NEW e \in Entries(r) PROVE e \in Entries(q) /\ e # q[at]
    <3>1. PICK i \in 1 .. n - 1 : e = r[i]
      BY <1>3 DEF Entries, ToSet
    <3>2. e = q[j(i)] /\ j(i) \in DOMAIN q /\ j(i) # at
      BY <1>1, <1>4, <3>1
    <3>3. q[j(i)] # q[at]
      BY <3>2 DEF Stores, Keyed
    <3> QED
      BY <3>2, <3>3 DEF Entries, ToSet
  <2>2. ASSUME NEW e \in Entries(q), e # q[at] PROVE e \in Entries(r)
    <3>1. PICK h \in 1 .. n : e = q[h]
      BY <1>1 DEF Entries, ToSet
    <3>2. PICK i \in 1 .. n - 1 : h = j(i)
      BY <1>6, <2>2, <3>1
    <3>3. e = r[i] /\ i \in DOMAIN r
      BY <1>3, <1>4, <3>1, <3>2
    <3> QED
      BY <3>3 DEF Entries, ToSet
  <2> QED
    BY <2>1, <2>2
<1> QED
  BY <1>2, <1>7, <1>8 DEF Stores, r, n

\* A new key is added at the end.
LEMMA AppendedIs ==
    ASSUME NEW q \in Stores, NEW e \in EntryType, e.key \notin KeysOf(q)
    PROVE  /\ Append(q, e) \in Stores
           /\ Len(Append(q, e)) = Len(q) + 1
           /\ Entries(Append(q, e)) = Entries(q) \cup {e}
<1> DEFINE n == Len(q)
           r == Append(q, e)
<1>1. q \in Seq(EntryType) /\ n \in Nat /\ DOMAIN q = 1 .. n
  BY DEF Stores
<1>2. /\ r \in Seq(EntryType) /\ Len(r) = n + 1 /\ DOMAIN r = 1 .. n + 1
      /\ \A i \in 1 .. n : r[i] = q[i]
      /\ r[n + 1] = e
  BY <1>1
<1> HIDE DEF r, n
<1>3. \A i \in 1 .. n : q[i].key # e.key
  BY <1>1 DEF KeysOf, Entries, ToSet
<1>4. Keyed(r)
  <2> SUFFICES ASSUME NEW i \in 1 .. n + 1, NEW j \in 1 .. n + 1, r[i].key = r[j].key
               PROVE  i = j
    BY <1>2 DEF Keyed
  <2>1. CASE i \in 1 .. n /\ j \in 1 .. n
    BY <1>1, <1>2, <2>1 DEF Stores, Keyed
  <2>2. CASE i = n + 1 \/ j = n + 1
    BY <1>1, <1>2, <1>3, <2>2
  <2> QED
    BY <1>1, <2>1, <2>2
<1>5. Entries(r) = Entries(q) \cup {e}
  <2>1. ASSUME NEW i \in 1 .. n + 1 PROVE r[i] \in Entries(q) \cup {e}
    <3>1. i \in 1 .. n \/ i = n + 1
      BY <1>1
    <3> QED
      BY <1>1, <1>2, <3>1 DEF Entries, ToSet
  <2>2. ASSUME NEW i \in 1 .. n PROVE q[i] \in Entries(r)
    <3>1. i \in DOMAIN r /\ r[i] = q[i]
      BY <1>1, <1>2
    <3> QED
      BY <3>1 DEF Entries, ToSet
  <2>3. e \in Entries(r)
    <3>1. n + 1 \in DOMAIN r
      BY <1>1, <1>2
    <3> QED
      BY <1>2, <3>1 DEF Entries, ToSet
  <2>4. Entries(r) \subseteq Entries(q) \cup {e}
    BY <1>2, <2>1 DEF Entries, ToSet
  <2>5. Entries(q) \subseteq Entries(r)
    BY <1>1, <2>2 DEF Entries, ToSet
  <2> QED
    BY <2>3, <2>4, <2>5
<1> QED
  BY <1>2, <1>4, <1>5 DEF Stores, r, n

\* An entry takes the place of the one of its key.
LEMMA UpdatedIs ==
    ASSUME NEW q \in Stores, NEW e \in EntryType, e.key \in KeysOf(q)
    PROVE  /\ Updated(q, e) \in Stores
           /\ Len(Updated(q, e)) = Len(q)
           /\ Entries(Updated(q, e)) = (Entries(q) \ {EntryOf(q, e.key)}) \cup {e}
<1> DEFINE r == Updated(q, e)
           old == EntryOf(q, e.key)
<1>1. q \in Seq(EntryType) /\ Len(q) \in Nat /\ DOMAIN q = 1 .. Len(q)
  BY DEF Stores
<1>2. \A i \in DOMAIN q : q[i] \in EntryType
  BY <1>1, ElementOfSeq
<1>3. /\ DOMAIN r = DOMAIN q
      /\ \A i \in DOMAIN q : r[i] = IF q[i].key = e.key THEN e ELSE q[i]
  BY DEF Updated
<1>4. r \in Seq(EntryType) /\ Len(r) = Len(q)
  <2>1. r = [i \in 1 .. Len(q) |-> IF q[i].key = e.key THEN e ELSE q[i]]
    BY <1>1 DEF Updated
  <2>2. r \in [1 .. Len(q) -> EntryType]
    BY <1>1, <1>2, <2>1
  <2> HIDE DEF r
  <2>3. r \in Seq(EntryType)
    BY <1>1, <2>2
  <2> QED
    BY <1>1, <2>2, <2>3
<1>5. old \in Entries(q) /\ old.key = e.key
  BY KeyIs
<1> HIDE DEF r, old
<1>6. Keyed(r)
  BY <1>3 DEF Keyed, Stores
<1>7. Entries(r) = (Entries(q) \ {old}) \cup {e}
  <2>1. \A i \in DOMAIN q : q[i].key = e.key <=> q[i] = old
    <3>1. ASSUME NEW i \in DOMAIN q, q[i].key = e.key PROVE q[i] = old
      BY <3>1, EntryIs DEF old, Entries, ToSet
    <3> QED
      BY <1>5, <3>1
  <2>2. PICK h \in DOMAIN q : q[h] = old
    BY <1>5 DEF Entries, ToSet
  <2>3. e \in Entries(r)
    BY <1>3, <1>5, <2>2 DEF Entries, ToSet
  <2>4. Entries(r) \subseteq (Entries(q) \ {old}) \cup {e}
    BY <1>3, <2>1 DEF Entries, ToSet
  <2>5. Entries(q) \ {old} \subseteq Entries(r)
    BY <1>3, <2>1 DEF Entries, ToSet
  <2> QED
    BY <2>3, <2>4, <2>5
<1> QED
  BY <1>4, <1>6, <1>7 DEF Stores, r, old

\* A set of positions has a first one.
LEMMA FirstPosition ==
    ASSUME NEW T \in SUBSET Nat, T # {}
    PROVE  \E x \in T : \A y \in T : x <= y
<1> DEFINE R == OpToRel(<, Nat)
<1>1. IsWellFoundedOn(R, Nat)
  BY NatLessThanWellFounded, Zenon
<1>2. \A x, y \in Nat : <<y, x>> \in R <=> y < x
  BY DEF OpToRel
<1> HIDE DEF R
<1>3. PICK x \in T : \A y \in T : ~(<<y, x>> \in R)
  BY <1>1, WFMin
<1>4. \A y \in T : ~(y < x)
  BY <1>2, <1>3
<1> QED
  BY <1>4

\* The eviction of `begin` drops an entry it may drop.
LEMMA EvictedStore ==
    ASSUME NEW q \in Stores, \E e \in Entries(q) : Retirable(e)
    PROVE  \E v \in Entries(q) :
             /\ Retirable(v)
             /\ EvictOldest(q) \in Stores
             /\ Len(EvictOldest(q)) = Len(q) - 1
             /\ Entries(EvictOldest(q)) = Entries(q) \ {v}
<1> DEFINE P(i) == /\ Retirable(q[i])
                   /\ \A j \in 1 .. i - 1 : ~Retirable(q[j])
           T == {i \in DOMAIN q : Retirable(q[i])}
           at == CHOOSE i \in DOMAIN q : P(i)
<1>1. DOMAIN q = 1 .. Len(q) /\ Len(q) \in Nat
  BY DEF Stores
<1>2. T \in SUBSET Nat /\ T # {}
  BY <1>1 DEF Entries, ToSet
<1>3. PICK i \in T : \A j \in T : i <= j
  <2> HIDE DEF T
  <2> QED
    BY <1>2, FirstPosition
<1>4. i \in DOMAIN q /\ P(i)
  BY <1>1, <1>3
<1>5. at \in DOMAIN q /\ P(at)
  <2> HIDE DEF P
  <2> QED
    BY <1>4
<1>6. EvictOldest(q) = RemoveAt(q, at)
  BY DEF EvictOldest
<1> HIDE DEF at
<1>7. q[at] \in Entries(q) /\ Retirable(q[at])
  BY <1>5 DEF Entries, ToSet
<1> QED
  BY <1>5, <1>6, <1>7, RemovedIs

\* What `begin` and `complete` leave of a store: the key was not there, its
\* entry is, and what made room for it may be dropped.
Executed(q, r, e) ==
    /\ e.key \notin KeysOf(q)
    /\ \E V \in SUBSET Entries(q) :
         (\A v \in V : Retirable(v)) /\ Entries(r) = (Entries(q) \ V) \cup {e}

\* The two calls.
Answers(k, call, c) ==
    {[Reserved(k, call, c) EXCEPT !.state = "refused"]} \cup
    {[Reserved(k, call, c) EXCEPT !.state = "live", !.result = result] :
       result \in Session \cup ObserverGrant \cup {NoResult}}

\* What the entry of an outcome says.
LEMMA OutcomeIs ==
    ASSUME NEW k \in Key, NEW call \in SessionCall \cup CreateCall, NEW c \in Conn \cup {NoConn},
           NEW e \in Answers(k, call, c)
    PROVE  /\ e \in EntryType /\ e.key = k /\ e.call = call /\ ~e.claimed
           /\ e.state \in {"refused", "live"}
<1> DEFINE new == Reserved(k, call, c)
<1>1. \/ e = [new EXCEPT !.state = "refused"]
      \/ \E result \in Session \cup ObserverGrant \cup {NoResult} :
           e = [new EXCEPT !.state = "live", !.result = result]
  BY DEF Answers
<1>2. CASE e = [new EXCEPT !.state = "refused"]
  <2>1. e = [key |-> k, call |-> call, conn |-> c, state |-> "refused",
             result |-> NoResult, claimed |-> FALSE, aged |-> FALSE]
    BY <1>2 DEF Reserved
  <2> QED
    BY <2>1 DEF EntryType, EntryState
<1>3. ASSUME NEW result \in Session \cup ObserverGrant \cup {NoResult},
             e = [new EXCEPT !.state = "live", !.result = result]
      PROVE  /\ e \in EntryType /\ e.key = k /\ e.call = call /\ ~e.claimed
             /\ e.state \in {"refused", "live"}
  <2>1. e = [key |-> k, call |-> call, conn |-> c, state |-> "live",
             result |-> result, claimed |-> FALSE, aged |-> FALSE]
    BY <1>3 DEF Reserved
  <2> QED
    BY <2>1 DEF EntryType, EntryState
<1> QED
  BY <1>1, <1>2, <1>3

\* Neither call writes more than the reservation.
LEMMA ReservedIs ==
    ASSUME NEW k \in Key, NEW call \in SessionCall \cup CreateCall, NEW c \in Conn \cup {NoConn}
    PROVE  Reserved(k, call, c) \in EntryType /\ Reserved(k, call, c).key = k
  BY DEF Reserved, EntryType, EntryState

\* A store in which a request is executed, once the request is completed.
LEMMA ExecutedIs ==
    ASSUME NEW q \in Stores, NEW cap \in Nat, Len(q) <= cap,
           NEW k \in Key, NEW call \in SessionCall \cup CreateCall, NEW c \in Conn \cup {NoConn},
           Begin(q, cap, k, call, c).verdict = "execute",
           NEW e \in Answers(k, call, c)
    PROVE  /\ EntryOf(Begin(q, cap, k, call, c).store, k) = Reserved(k, call, c)
           /\ Updated(Begin(q, cap, k, call, c).store, e) \in Stores
           /\ Len(Updated(Begin(q, cap, k, call, c).store, e)) <= cap
           /\ Executed(q, Updated(Begin(q, cap, k, call, c).store, e), e)
<1> DEFINE new == Reserved(k, call, c)
           b == Begin(q, cap, k, call, c)
<1>1. Len(q) \in Nat
  BY DEF Stores
<1>2. k \notin KeysOf(q)
  <2> SUFFICES ASSUME k \in KeysOf(q) PROVE b.verdict # "execute"
    OBVIOUS
  <2> DEFINE f == EntryOf(q, k)
             v == IF f.call # call THEN "conflict"
                  ELSE IF f.conn # c THEN "other_connection"
                  ELSE IF f.state = "in_flight" THEN "in_flight" ELSE "replay"
  <2>1. b = Decision(v, q)
    BY DEF Begin
  <2>2. v # "execute"
    OBVIOUS
  <2> HIDE DEF v, b
  <2> QED
    BY <2>1, <2>2 DEF Decision
<1>3. \E p, V : /\ b.store = Append(p, new) /\ p \in Stores /\ Len(p) < cap
                /\ V \in SUBSET Entries(q) /\ (\A v \in V : Retirable(v))
                /\ Entries(p) = Entries(q) \ V
  <2>1. CASE Len(q) < cap
    <3>1. b = Decision("execute", Append(q, new))
      BY <1>2, <2>1 DEF Begin
    <3>2. b.store = Append(q, new)
      BY <3>1 DEF Decision
    <3>3. /\ {} \in SUBSET Entries(q) /\ (\A v \in {} : Retirable(v))
          /\ Entries(q) = Entries(q) \ {}
      OBVIOUS
    <3> HIDE DEF b, new
    <3> QED
      BY <2>1, <3>2, <3>3
  <2>2. CASE Len(q) >= cap /\ \E f \in Entries(q) : Retirable(f)
    <3>1. ~(Len(q) < cap) /\ Len(q) = cap
      BY <1>1, <2>2
    <3>2. b = Decision("execute", Append(EvictOldest(q), new))
      BY <1>2, <2>2, <3>1 DEF Begin
    <3>3. b.store = Append(EvictOldest(q), new)
      BY <3>2 DEF Decision
    <3>4. PICK v \in Entries(q) :
             /\ Retirable(v)
             /\ EvictOldest(q) \in Stores
             /\ Len(EvictOldest(q)) = Len(q) - 1
             /\ Entries(EvictOldest(q)) = Entries(q) \ {v}
      BY <2>2, EvictedStore
    <3>5. {v} \in SUBSET Entries(q) /\ \A w \in {v} : Retirable(w)
      BY <3>4
    <3>6. Len(EvictOldest(q)) < cap
      BY <1>1, <3>1, <3>4
    <3> HIDE DEF b, new
    <3> QED
      BY <3>3, <3>4, <3>5, <3>6
  <2>3. CASE ~(Len(q) < cap) /\ ~(Len(q) >= cap /\ \E f \in Entries(q) : Retirable(f))
    <3>1. b = Decision("capacity", q)
      BY <1>2, <2>3 DEF Begin
    <3> QED
      BY <3>1 DEF Decision
  <2> QED
    BY <2>1, <2>2, <2>3
<1>4. PICK p, V : /\ b.store = Append(p, new) /\ p \in Stores /\ Len(p) < cap
                  /\ V \in SUBSET Entries(q) /\ (\A v \in V : Retirable(v))
                  /\ Entries(p) = Entries(q) \ V
  BY <1>3
<1>5. new \in EntryType /\ new.key = k /\ e \in EntryType /\ e.key = k
  BY ReservedIs, OutcomeIs
<1> HIDE DEF b, new
<1>6. new.key \notin KeysOf(p)
  BY <1>2, <1>4, <1>5 DEF KeysOf
<1>7. /\ b.store \in Stores /\ Len(b.store) = Len(p) + 1
      /\ Entries(b.store) = Entries(p) \cup {new}
  BY <1>4, <1>5, <1>6, AppendedIs
<1>8. EntryOf(b.store, k) = new /\ k \in KeysOf(b.store)
  BY <1>5, <1>7, EntryIs
<1>9. /\ Updated(b.store, e) \in Stores /\ Len(Updated(b.store, e)) = Len(b.store)
      /\ Entries(Updated(b.store, e)) = (Entries(b.store) \ {new}) \cup {e}
  BY <1>5, <1>7, <1>8, UpdatedIs
<1>10. Len(p) \in Nat
  BY <1>4 DEF Stores
<1>11. Len(Updated(b.store, e)) <= cap
  BY <1>4, <1>7, <1>9, <1>10
<1>12. new \notin Entries(p)
  BY <1>5, <1>6 DEF KeysOf
<1>13. Entries(Updated(b.store, e)) = (Entries(q) \ V) \cup {e}
  BY <1>4, <1>7, <1>9, <1>12
<1>14. Executed(q, Updated(b.store, e), e)
  BY <1>2, <1>4, <1>5, <1>13 DEF Executed
<1> QED
  BY <1>8, <1>9, <1>11, <1>14 DEF b, new

\* What marking the control of some sessions as claimed makes of an entry.
Marked(e, claims) ==
    IF (\E s \in claims : createKey[s] = e.key) /\ e.state \in AppliedState
    THEN [e EXCEPT !.claimed = TRUE] ELSE e

LEMMA MarkedIs ==
    ASSUME NEW e \in EntryType, NEW claims
    PROVE  /\ Marked(e, claims) \in EntryType
           /\ Marked(e, claims).key = e.key /\ Marked(e, claims).call = e.call
           /\ Marked(e, claims).state = e.state /\ Marked(e, claims).result = e.result
           /\ Marked(e, claims).claimed =
                (e.claimed \/ ((\E s \in claims : createKey[s] = e.key) /\ e.state \in AppliedState))
  BY DEF Marked, EntryType

\* mark_control_claimed goes through the store entry by entry.
LEMMA ClaimedIs ==
    ASSUME NEW q \in Stores, NEW claims
    PROVE  /\ Claimed(q, claims) \in Stores
           /\ Len(Claimed(q, claims)) = Len(q)
           /\ Entries(Claimed(q, claims)) = {Marked(e, claims) : e \in Entries(q)}
<1> DEFINE r == Claimed(q, claims)
<1>1. q \in Seq(EntryType) /\ Len(q) \in Nat /\ DOMAIN q = 1 .. Len(q)
  BY DEF Stores
<1>2. \A i \in DOMAIN q : q[i] \in EntryType
  BY <1>1, ElementOfSeq
<1>3. ASSUME NEW i \in DOMAIN q
      PROVE  MarkControlClaimed(q, q[i].key)[i] =
               IF q[i].state \in AppliedState THEN [q[i] EXCEPT !.claimed = TRUE] ELSE q[i]
  <2> DEFINE e == q[i]
             f == [e EXCEPT !.claimed = TRUE]
  <2>1. EntryOf(q, e.key) = e
    BY EntryIs DEF Entries, ToSet
  <2>2. f.key = e.key
    BY <1>2 DEF EntryType
  <2>3. Updated(q, f)[i] = f
    BY <2>2 DEF Updated
  <2> QED
    BY <2>1, <2>3 DEF MarkControlClaimed
<1>4. r = [i \in DOMAIN q |-> Marked(q[i], claims)]
  BY <1>3 DEF Claimed, Marked
<1>5. \A i \in DOMAIN q : Marked(q[i], claims) \in EntryType /\ Marked(q[i], claims).key = q[i].key
  BY <1>2, MarkedIs
<1> HIDE DEF r
<1>6. r \in Seq(EntryType) /\ Len(r) = Len(q)
  <2>1. r \in [1 .. Len(q) -> EntryType]
    BY <1>1, <1>4, <1>5
  <2>2. r \in Seq(EntryType)
    BY <1>1, <2>1
  <2> QED
    BY <1>1, <2>1, <2>2
<1>7. Keyed(r)
  BY <1>4, <1>5 DEF Stores, Keyed
<1>8. Entries(r) = {Marked(e, claims) : e \in Entries(q)}
  BY <1>4 DEF Entries, ToSet
<1> QED
  BY <1>6, <1>7, <1>8 DEF Stores, r

\* Without claims the store stays as it is.
LEMMA ClaimedNone ==
    ASSUME NEW q \in Stores
    PROVE  Claimed(q, {}) = q
<1>1. Claimed(q, {}) = [i \in DOMAIN q |-> q[i]]
  BY DEF Claimed
<1> QED
  BY <1>1 DEF Stores

-----------------------------------------------------------------------------
(* The inductive invariant of the stores                                   *)

\* A store within its bound, whose entries are answered, and every effect it
\* remembers took place.
StoreOK(x) ==
    /\ Len(keys[x]) <= Capacity(x)
    /\ \A e \in Entries(keys[x]) :
         e.state \in {"refused", "live"} /\ (e.state = "live" => <<x, e.key>> \in used)

\* An effect is remembered until its session is over.
Over(x) == x \in Session /\ life[x] \in {"terminal", "collected"}
Has(x, k, state) == \E e \in Entries(keys[x]) : e.key = k /\ e.state = state
EffectsOK(x) == \A k \in Key : <<x, k>> \in used => Over(x) \/ Has(x, k, "live")

\* A session that has not been created has no history.
FreshOK(s) == life[s] = "unused" => keys[s] = <<>> /\ control[s] = "initial"

\* The grants a session may replay are those its store remembers and no more:
\* so there is room for all of them.
IsMint(e) == e.call = "grant" /\ e.state = "live"
Mints(q) == {e \in Entries(q) : IsMint(e)}
NamedOK(s) ==
    /\ Len(named[s]) = Cardinality(Mints(keys[s]))
    /\ \A e \in Mints(keys[s]) : e.result \in ToSet(named[s])

\* The token a create handed out, and what a replay may say of it.
TokenOK(s) ==
    createKey[s] # NoKey =>
      /\ life[s] = "live" /\ control[s] = "initial"
      /\ \E e \in Entries(keys[CreateScope]) :
           e.key = createKey[s] /\ e.result = s /\ e.state = "live" /\ ~e.claimed
CreatedOK(e) ==
    e.state = "live" =>
      /\ e.result \in Session /\ life[e.result] # "unused"
      /\ life[e.result] = "live" =>
           /\ e.claimed <=> control[e.result] # "initial"
           /\ e.claimed <=> createKey[e.result] # e.key

KeyTypes ==
    /\ life \in [Session -> {"unused", "live", "terminal", "collected"}]
    /\ control \in [Session -> {"initial", "vacant", "held", "revoked"}]
    /\ createKey \in [Session -> Key \cup {NoKey}]
    /\ keys \in [Scope -> Stores]
    /\ named \in [Session -> Seq(ObserverGrant)]
    /\ used \subseteq Slots

SessionInv(s) == StoreOK(s) /\ EffectsOK(s) /\ FreshOK(s) /\ NamedOK(s)
CreateInv ==
    /\ StoreOK(CreateScope) /\ EffectsOK(CreateScope)
    /\ \A s \in Session : TokenOK(s)
    /\ \A e \in Entries(keys[CreateScope]) : CreatedOK(e)
KeyInv == KeyTypes /\ (\A s \in Session : SessionInv(s)) /\ CreateInv

\* What a step may do to the keys of a store: an effect is never undone, comes
\* back neither, and is the first of its key.
ScopeMoves(x) ==
    \A k \in Key :
      /\ <<x, k>> \in used => <<x, k>> \in used'
      /\ <<x, k>> \in used /\ Has(x, k, "live")' => Has(x, k, "live")
      /\ <<x, k>> \in used' /\ <<x, k>> \notin used => ~Has(x, k, "refused") /\ Has(x, k, "live")'
KeysMove == KeyInv' /\ \A x \in Scope : ScopeMoves(x)

-----------------------------------------------------------------------------
(* What the handlers leave alone                                           *)

SameUsed(x) == \A k \in Key : <<x, k>> \in used' <=> <<x, k>> \in used

\* A session whose store is not touched: it may be created, or lose control.
LEMMA SessionStays ==
    ASSUME KeyInv, NEW s \in Session, keys'[s] = keys[s], named'[s] = named[s], SameUsed(s),
           life'[s] = "unused" => life[s] = "unused" /\ control'[s] = control[s],
           Over(s) => Over(s)'
    PROVE  SessionInv(s)' /\ ScopeMoves(s)
<1>1. StoreOK(s) /\ EffectsOK(s) /\ FreshOK(s) /\ NamedOK(s)
  BY DEF KeyInv, SessionInv
<1>2. \A e \in Entries(keys[s]) : e.key \in Key
  <2>1. keys[s] \in Stores
    BY DEF KeyInv, KeyTypes, Scope
  <2> QED
    BY <2>1, EntryIs DEF EntryType
<1>3. StoreOK(s)'
  BY <1>1, <1>2 DEF StoreOK, SameUsed
<1>4. EffectsOK(s)'
  BY <1>1 DEF EffectsOK, SameUsed, Has
<1>5. FreshOK(s)' /\ NamedOK(s)'
  BY <1>1 DEF FreshOK, NamedOK
<1>6. ScopeMoves(s)
  BY DEF ScopeMoves, SameUsed, Has
<1> QED
  BY <1>3, <1>4, <1>5, <1>6 DEF SessionInv

\* The create store when control moves that has left the service before.
LEMMA CreateStays ==
    ASSUME KeyInv, keys'[CreateScope] = keys[CreateScope], SameUsed(CreateScope),
           UNCHANGED <<life, createKey>>,
           \A s \in Session : control'[s] = control[s] \/ "initial" \notin {control[s], control'[s]}
    PROVE  CreateInv' /\ ScopeMoves(CreateScope)
<1>1. /\ StoreOK(CreateScope) /\ EffectsOK(CreateScope)
      /\ \A s \in Session : TokenOK(s)
      /\ \A e \in Entries(keys[CreateScope]) : CreatedOK(e)
  BY DEF KeyInv, CreateInv
<1>2. \A e \in Entries(keys[CreateScope]) : e.key \in Key
  <2>1. keys[CreateScope] \in Stores
    BY DEF KeyInv, KeyTypes, Scope
  <2> QED
    BY <2>1, EntryIs DEF EntryType
<1>3. StoreOK(CreateScope)'
  BY <1>1, <1>2 DEF StoreOK, SameUsed
<1>4. EffectsOK(CreateScope)'
  BY <1>1 DEF EffectsOK, SameUsed, Has, Over
<1>5. ASSUME NEW s \in Session PROVE TokenOK(s)'
  BY <1>1 DEF TokenOK
<1>6. ASSUME NEW e \in Entries(keys'[CreateScope]) PROVE CreatedOK(e)'
  BY <1>1 DEF CreatedOK
<1>7. ScopeMoves(CreateScope)
  BY DEF ScopeMoves, SameUsed, Has
<1> QED
  BY <1>3, <1>4, <1>5, <1>6, <1>7 DEF CreateInv

-----------------------------------------------------------------------------
(* A key that is executed                                                  *)

\* An effect is not evicted, and nothing but the new entry is added.
LEMMA ExecutedKeeps ==
    ASSUME NEW q, NEW r, NEW e, Executed(q, r, e)
    PROVE  /\ e.key \notin KeysOf(q) /\ e \in Entries(r)
           /\ \A f \in Entries(q) : f.state = "live" => f \in Entries(r)
           /\ \A f \in Entries(r) : f \in Entries(q) \/ f = e
<1>1. PICK V \in SUBSET Entries(q) :
        (\A v \in V : Retirable(v)) /\ Entries(r) = (Entries(q) \ V) \cup {e}
  BY DEF Executed
<1>2. \A v \in V : v.state # "live"
  BY <1>1 DEF Retirable
<1> QED
  BY <1>1, <1>2 DEF Executed

\* Its store and its effects.
UsedBy(x, e) ==
    \A k \in Key : <<x, k>> \in used' <=> <<x, k>> \in used \/ (k = e.key /\ e.state = "live")

LEMMA ScopeExecutes ==
    ASSUME KeyInv, NEW x \in Scope, NEW e \in EntryType, e.state \in {"refused", "live"},
           Executed(keys[x], keys'[x], e), Len(keys'[x]) <= Capacity(x), UsedBy(x, e),
           e.state = "live" => ~Over(x), Over(x) => Over(x)'
    PROVE  StoreOK(x)' /\ EffectsOK(x)' /\ ScopeMoves(x)
<1>1. StoreOK(x) /\ EffectsOK(x) /\ keys[x] \in Stores
  BY DEF KeyInv, KeyTypes, SessionInv, CreateInv, Scope
<1>2. /\ e.key \notin KeysOf(keys[x]) /\ e \in Entries(keys'[x])
      /\ \A f \in Entries(keys[x]) : f.state = "live" => f \in Entries(keys'[x])
      /\ \A f \in Entries(keys'[x]) : f \in Entries(keys[x]) \/ f = e
  BY ExecutedKeeps
<1>3. e.key \in Key /\ \A f \in Entries(keys[x]) : f.key \in Key /\ f.key # e.key
  BY <1>1, <1>2, EntryIs DEF EntryType, KeysOf
<1>4. StoreOK(x)'
  <2>1. (Len(keys[x]) <= Capacity(x))'
    BY DEF Capacity
  <2>2. ASSUME NEW f \in Entries(keys'[x])
        PROVE  f.state \in {"refused", "live"} /\ (f.state = "live" => <<x, f.key>> \in used')
    <3>1. CASE f = e
      BY <1>3, <3>1 DEF UsedBy
    <3>2. CASE f \in Entries(keys[x])
      BY <1>1, <1>3, <3>2 DEF UsedBy, StoreOK
    <3> QED
      BY <1>2, <3>1, <3>2
  <2> QED
    BY <2>1, <2>2 DEF StoreOK
<1>5. EffectsOK(x)'
  <2> SUFFICES ASSUME NEW k \in Key, <<x, k>> \in used', ~Over(x)' PROVE Has(x, k, "live")'
    BY DEF EffectsOK
  <2>1. CASE k = e.key /\ e.state = "live"
    BY <1>2, <2>1 DEF Has
  <2>2. CASE <<x, k>> \in used
    BY <1>1, <1>2, <2>2 DEF Has, EffectsOK
  <2> QED
    BY <2>1, <2>2 DEF UsedBy
<1>6. ScopeMoves(x)
  <2> SUFFICES ASSUME NEW k \in Key
               PROVE  /\ <<x, k>> \in used => <<x, k>> \in used'
                      /\ <<x, k>> \in used /\ Has(x, k, "live")' => Has(x, k, "live")
                      /\ <<x, k>> \in used' /\ <<x, k>> \notin used =>
                           ~Has(x, k, "refused") /\ Has(x, k, "live")'
    BY DEF ScopeMoves
  <2>1. <<x, k>> \in used => <<x, k>> \in used'
    BY DEF UsedBy
  <2>2. ASSUME <<x, k>> \in used, Has(x, k, "live")' PROVE Has(x, k, "live")
    <3>1. PICK f \in Entries(keys'[x]) : f.key = k /\ f.state = "live"
      BY <2>2 DEF Has
    <3>2. CASE f = e
      BY <1>1, <2>2, <3>1, <3>2 DEF EffectsOK
    <3>3. CASE f \in Entries(keys[x])
      BY <3>1, <3>3 DEF Has
    <3> QED
      BY <1>2, <3>1, <3>2, <3>3
  <2>3. ASSUME <<x, k>> \in used', <<x, k>> \notin used
        PROVE  ~Has(x, k, "refused") /\ Has(x, k, "live")'
    <3>1. k = e.key /\ e.state = "live"
      BY <2>3 DEF UsedBy
    <3> QED
      BY <1>2, <1>3, <3>1 DEF Has
  <2> QED
    BY <2>1, <2>2, <2>3
<1> QED
  BY <1>4, <1>5, <1>6

\* What a request that is not a grant, or is refused, leaves of the grants a
\* session may replay.
LEMMA MintsStay ==
    ASSUME NEW q, NEW r, NEW e, Executed(q, r, e), ~IsMint(e)
    PROVE  Mints(r) = Mints(q)
<1>1. /\ \A f \in Entries(q) : f.state = "live" => f \in Entries(r)
      /\ \A f \in Entries(r) : f \in Entries(q) \/ f = e
  BY ExecutedKeeps
<1> QED
  BY <1>1 DEF Mints, IsMint

\* A mint adds one.
LEMMA MintsGrow ==
    ASSUME NEW q, NEW r, NEW e, Executed(q, r, e), IsMint(e)
    PROVE  Mints(r) = Mints(q) \cup {e} /\ e \notin Mints(q)
<1>1. /\ e.key \notin KeysOf(q) /\ e \in Entries(r)
      /\ \A f \in Entries(q) : f.state = "live" => f \in Entries(r)
      /\ \A f \in Entries(r) : f \in Entries(q) \/ f = e
  BY ExecutedKeeps
<1>2. Mints(r) = Mints(q) \cup {e}
  BY <1>1 DEF Mints, IsMint
<1>3. e \notin Mints(q)
  BY <1>1 DEF Mints, KeysOf
<1> QED
  BY <1>2, <1>3

\* A store has no more entries than places.
LEMMA StoreCounts ==
    ASSUME NEW q \in Stores, NEW S \in SUBSET Entries(q)
    PROVE  IsFiniteSet(S) /\ Cardinality(S) \in Nat /\ Cardinality(S) <= Len(q)
<1>1. DOMAIN q = 1 .. Len(q) /\ Len(q) \in Nat
  BY DEF Stores
<1> DEFINE at == [i \in 1 .. Len(q) |-> q[i]]
<1>2. IsFiniteSet(1 .. Len(q)) /\ Cardinality(1 .. Len(q)) = Len(q)
  <2>1. 1 \in Int /\ Len(q) \in Int
    BY <1>1
  <2>2. /\ IsFiniteSet(1 .. Len(q))
        /\ Cardinality(1 .. Len(q)) = IF 1 > Len(q) THEN 0 ELSE Len(q) - 1 + 1
    BY <2>1, FS_Interval
  <2> QED
    BY <1>1, <2>2
<1>3. at \in Surjection(1 .. Len(q), Entries(q))
  BY <1>1 DEF Surjection, Entries, ToSet
<1>4. IsFiniteSet(Entries(q)) /\ Cardinality(Entries(q)) <= Len(q)
  <2> HIDE DEF at
  <2> QED
    BY <1>2, <1>3, FS_Surjection
<1>5. IsFiniteSet(S) /\ Cardinality(S) <= Cardinality(Entries(q))
  BY <1>4, FS_Subset
<1>6. Cardinality(S) \in Nat /\ Cardinality(Entries(q)) \in Nat
  BY <1>4, <1>5, FS_CardinalityType
<1> QED
  BY <1>1, <1>4, <1>5, <1>6

\* A request of a session whose grants are not touched.
LEMMA SessionExecutes ==
    ASSUME KeyInv, NEW s \in Session, NEW e \in EntryType, e.state \in {"refused", "live"},
           Executed(keys[s], keys'[s], e), Len(keys'[s]) <= Capacity(s), UsedBy(s, e),
           e.state = "live" => ~Over(s), Over(s) => Over(s)',
           ~IsMint(e), named'[s] = named[s], life'[s] # "unused"
    PROVE  SessionInv(s)' /\ ScopeMoves(s)
<1>1. StoreOK(s)' /\ EffectsOK(s)' /\ ScopeMoves(s)
  BY ScopeExecutes DEF Scope
<1>2. Mints(keys'[s]) = Mints(keys[s])
  BY MintsStay
<1>3. NamedOK(s)'
  BY <1>2 DEF KeyInv, SessionInv, NamedOK
<1>4. FreshOK(s)'
  BY DEF FreshOK
<1> QED
  BY <1>1, <1>3, <1>4 DEF SessionInv

\* A grant: its store has a place for every grant it remembers, so the new id
\* is added to the ids of a replay and none is dropped.
LEMMA SessionMints ==
    ASSUME KeyInv, NEW s \in Session, NEW e \in EntryType, IsMint(e), e.result \in ObserverGrant,
           keys'[s] \in Stores,
           Executed(keys[s], keys'[s], e), Len(keys'[s]) <= Capacity(s), UsedBy(s, e),
           life[s] = "live", life' = life,
           named'[s] = Remember(named[s], e.result)
    PROVE  SessionInv(s)' /\ ScopeMoves(s) /\ named'[s] \in Seq(ObserverGrant)
<1> DEFINE new == Mints(keys'[s])
           old == Mints(keys[s])
           ids == Append(named[s], e.result)
<1>1. StoreOK(s)' /\ EffectsOK(s)' /\ ScopeMoves(s)
  BY ScopeExecutes DEF Scope, IsMint, Over
<1>2. new = old \cup {e} /\ e \notin old
  BY MintsGrow
<1>3. IsFiniteSet(old) /\ Cardinality(old) \in Nat
  <2>1. keys[s] \in Stores /\ old \in SUBSET Entries(keys[s])
    BY DEF KeyInv, KeyTypes, Scope, Mints
  <2> QED
    BY <2>1, StoreCounts
<1>4. Cardinality(new) = Cardinality(old) + 1
  <2> HIDE DEF new, old
  <2> QED
    BY <1>2, <1>3, FS_AddElement
<1>5. Cardinality(new) <= SessionCapacity
  <2>1. new \in SUBSET Entries(keys'[s])
    BY DEF Mints
  <2>2. Cardinality(new) \in Nat /\ Cardinality(new) <= Len(keys'[s])
    BY <2>1, StoreCounts
  <2>3. Capacity(s) = SessionCapacity
    BY StoreAssumption DEF Capacity
  <2>4. Len(keys'[s]) \in Nat
    BY DEF Stores
  <2> HIDE DEF new
  <2> QED
    BY <2>2, <2>3, <2>4, StoreAssumption
<1>6. named[s] \in Seq(ObserverGrant) /\ NamedOK(s)
  BY DEF KeyInv, KeyTypes, SessionInv
<1>7. /\ ids \in Seq(ObserverGrant) /\ Len(ids) = Len(named[s]) + 1
      /\ ToSet(ids) = ToSet(named[s]) \cup {e.result}
  <2> DEFINE a == named[s]
             g == e.result
             n == Len(a)
  <2>1. a \in Seq(ObserverGrant) /\ g \in ObserverGrant /\ n \in Nat /\ DOMAIN a = 1 .. n
    BY <1>6
  <2> HIDE DEF a, g
  <2>2. /\ Append(a, g) \in Seq(ObserverGrant) /\ Len(Append(a, g)) = n + 1
        /\ DOMAIN Append(a, g) = 1 .. n + 1
        /\ \A i \in 1 .. n : Append(a, g)[i] = a[i]
        /\ Append(a, g)[n + 1] = g
    BY <2>1
  <2>3. 1 .. n + 1 = (1 .. n) \cup {n + 1}
    BY <2>1
  <2> HIDE DEF n
  <2>4. ToSet(Append(a, g)) = ToSet(a) \cup {g}
    BY <2>1, <2>2, <2>3 DEF ToSet
  <2> QED
    BY <2>2, <2>4 DEF a, g, n
<1>8. Len(ids) = Cardinality(new)
  BY <1>4, <1>6, <1>7 DEF NamedOK
<1> HIDE DEF new, old, ids
<1>9. named'[s] = ids
  <2>1. ~(Len(ids) > SessionCapacity)
    BY <1>3, <1>4, <1>5, <1>8, StoreAssumption
  <2> QED
    BY <2>1 DEF Remember, ids
<1>10. NamedOK(s)'
  <2>1. \A f \in new : f.result \in ToSet(named'[s])
    BY <1>2, <1>6, <1>7, <1>9 DEF NamedOK, old
  <2> QED
    BY <1>8, <1>9, <2>1 DEF NamedOK, new
<1>11. FreshOK(s)'
  BY DEF FreshOK
<1> QED
  BY <1>1, <1>7, <1>9, <1>10, <1>11 DEF SessionInv

-----------------------------------------------------------------------------
(* The store of session.create                                             *)

\* What is known of the create store.
LEMMA CreateFacts ==
    ASSUME KeyInv
    PROVE  /\ keys[CreateScope] \in Stores /\ StoreOK(CreateScope) /\ EffectsOK(CreateScope)
           /\ \A s \in Session : TokenOK(s)
           /\ \A e \in Entries(keys[CreateScope]) :
                CreatedOK(e) /\ e.state \in {"refused", "live"} /\ e \in EntryType
<1>1. keys[CreateScope] \in Stores
  BY DEF KeyInv, KeyTypes, Scope
<1> QED
  BY <1>1, EntryIs DEF KeyInv, CreateInv, StoreOK

\* A create that is refused, one that succeeds, and one whose spawn fails.
LEMMA CreateExecutes ==
    ASSUME KeyInv, NEW e \in EntryType, ~e.claimed, control' = control,
           Executed(keys[CreateScope], keys'[CreateScope], e),
           Len(keys'[CreateScope]) <= Capacity(CreateScope), UsedBy(CreateScope, e),
           \/ e.state = "refused" /\ UNCHANGED <<life, createKey>>
           \/ /\ e.state = "live" /\ e.result \in Session /\ life[e.result] = "unused"
              /\ \/ /\ life' = [life EXCEPT ![e.result] = "live"]
                    /\ createKey' = [createKey EXCEPT ![e.result] = e.key]
                 \/ /\ life' = [life EXCEPT ![e.result] = "terminal"]
                    /\ createKey' = createKey
    PROVE  CreateInv' /\ ScopeMoves(CreateScope)
<1> DEFINE old == Entries(keys[CreateScope])
           new == Entries(keys'[CreateScope])
<1>0. /\ \A s \in Session : TokenOK(s) /\ FreshOK(s)
      /\ \A f \in old : CreatedOK(f)
  BY CreateFacts DEF KeyInv, SessionInv
<1>1. StoreOK(CreateScope)' /\ EffectsOK(CreateScope)' /\ ScopeMoves(CreateScope)
  <2>1. CreateScope \in Scope /\ ~Over(CreateScope) /\ e.state \in {"refused", "live"}
    BY StoreAssumption DEF Scope, Over
  <2> QED
    BY <2>1, ScopeExecutes
<1>2. /\ e.key \notin KeysOf(keys[CreateScope]) /\ e \in new
      /\ \A f \in old : f.state = "live" => f \in new
      /\ \A f \in new : f \in old \/ f = e
  BY ExecutedKeeps
<1>3. /\ life \in [Session -> {"unused", "live", "terminal", "collected"}]
      /\ createKey \in [Session -> Key \cup {NoKey}]
      /\ e.key \in Key
  BY DEF KeyInv, KeyTypes, EntryType
<1> HIDE DEF old, new
<1>4. CASE e.state = "refused" /\ UNCHANGED <<life, createKey>>
  <2>1. ASSUME NEW s \in Session PROVE TokenOK(s)'
    BY <1>0, <1>2, <1>4 DEF TokenOK, old, new
  <2>2. ASSUME NEW f \in new PROVE CreatedOK(f)'
    BY <1>0, <1>2, <1>4 DEF CreatedOK
  <2> QED
    BY <1>1, <2>1, <2>2 DEF CreateInv, new
<1>5. ASSUME e.state = "live", e.result \in Session, life[e.result] = "unused",
             \/ /\ life' = [life EXCEPT ![e.result] = "live"]
                /\ createKey' = [createKey EXCEPT ![e.result] = e.key]
             \/ /\ life' = [life EXCEPT ![e.result] = "terminal"]
                /\ createKey' = createKey
      PROVE  CreateInv' /\ ScopeMoves(CreateScope)
  <2> DEFINE s == e.result
  <2>1. /\ s \in Session /\ life[s] = "unused" /\ control[s] = "initial" /\ createKey[s] = NoKey
        /\ \/ life'[s] = "live" /\ createKey'[s] = e.key
           \/ life'[s] = "terminal" /\ createKey'[s] = NoKey
        /\ \A t \in Session : t # s => life'[t] = life[t] /\ createKey'[t] = createKey[t]
    BY <1>0, <1>3, <1>5 DEF FreshOK, TokenOK
  <2>2. ASSUME NEW t \in Session PROVE TokenOK(t)'
    <3>1. CASE t = s
      BY <1>2, <1>5, <2>1, <3>1 DEF TokenOK, new
    <3>2. CASE t # s
      BY <1>0, <1>2, <2>1, <3>2 DEF TokenOK, old, new
    <3> QED
      BY <3>1, <3>2
  <2>3. ASSUME NEW f \in new PROVE CreatedOK(f)'
    <3>1. CASE f = e
      BY <1>3, <1>5, <2>1, <3>1, StoreAssumption DEF CreatedOK
    <3>2. CASE f \in old
      <4> SUFFICES ASSUME f.state = "live"
                   PROVE  /\ f.result \in Session /\ life'[f.result] # "unused"
                          /\ life'[f.result] = "live" =>
                               /\ f.claimed <=> control'[f.result] # "initial"
                               /\ f.claimed <=> createKey'[f.result] # f.key
        BY DEF CreatedOK
      <4>1. f.result \in Session /\ f.result # s
        BY <1>0, <2>1, <3>2 DEF CreatedOK
      <4> QED
        BY <1>0, <2>1, <3>2, <4>1 DEF CreatedOK
    <3> QED
      BY <1>2, <3>1, <3>2
  <2> QED
    BY <1>1, <2>2, <2>3 DEF CreateInv, new
<1> QED
  BY <1>4, <1>5

\* Control is claimed, or the session is over: the token is gone and its key
\* says so, and no other key does.
LEMMA CreateMarks ==
    ASSUME KeyInv, NEW s \in Session, life[s] # "unused",
           keys'[CreateScope] = Claimed(keys[CreateScope], {s}), SameUsed(CreateScope),
           createKey' = [createKey EXCEPT ![s] = NoKey],
           \/ life' = life /\ control' = [control EXCEPT ![s] = "held"]
           \/ /\ control' = control
              /\ \E v \in {"terminal", "collected"} : life' = [life EXCEPT ![s] = v]
    PROVE  CreateInv' /\ ScopeMoves(CreateScope)
<1> DEFINE old == Entries(keys[CreateScope])
           new == Entries(keys'[CreateScope])
           m(e) == Marked(e, {s})
<1>1. /\ keys[CreateScope] \in Stores /\ StoreOK(CreateScope) /\ EffectsOK(CreateScope)
      /\ \A t \in Session : TokenOK(t)
      /\ \A e \in old : CreatedOK(e) /\ e.state \in {"refused", "live"} /\ e \in EntryType
  BY CreateFacts
<1>2. new = {m(e) : e \in old} /\ Len(keys'[CreateScope]) = Len(keys[CreateScope])
  BY <1>1, ClaimedIs
<1>3. \A e \in old : /\ m(e).key = e.key /\ m(e).state = e.state /\ m(e).result = e.result
                     /\ m(e).claimed <=> e.claimed \/ (createKey[s] = e.key /\ e.state = "live")
  <2> SUFFICES ASSUME NEW e \in old
               PROVE  /\ m(e).key = e.key /\ m(e).state = e.state /\ m(e).result = e.result
                      /\ m(e).claimed <=> e.claimed \/ (createKey[s] = e.key /\ e.state = "live")
    OBVIOUS
  <2> DEFINE S == {s}
  <2>1. e \in EntryType /\ e.state \in {"refused", "live"} /\ m(e) = Marked(e, S)
    BY <1>1
  <2>2. (\E t \in S : createKey[t] = e.key) <=> createKey[s] = e.key
    OBVIOUS
  <2> HIDE DEF S, m
  <2>3. /\ m(e).key = e.key /\ m(e).state = e.state /\ m(e).result = e.result
        /\ m(e).claimed =
             (e.claimed \/ ((\E t \in S : createKey[t] = e.key) /\ e.state \in AppliedState))
    BY <2>1, MarkedIs
  <2>4. e.state \in AppliedState <=> e.state = "live"
    BY <2>1 DEF AppliedState
  <2> QED
    BY <2>2, <2>3, <2>4
<1>4. ASSUME NEW e \in old, createKey[s] = e.key
      PROVE  e.result = s /\ life[s] = "live" /\ control[s] = "initial"
  <2>1. e.key # NoKey
    BY <1>1, StoreAssumption DEF EntryType
  <2>2. PICK w \in old : w.key = createKey[s] /\ w.result = s
    BY <1>1, <1>4, <2>1 DEF TokenOK
  <2>3. w = e
    BY <1>1, <1>4, <2>2, EntryIs
  <2> QED
    BY <1>1, <1>4, <2>1, <2>2, <2>3 DEF TokenOK
<1>5. /\ \A t \in Session : t # s => /\ createKey'[t] = createKey[t] /\ life'[t] = life[t]
                                     /\ control'[t] = control[t]
      /\ createKey'[s] = NoKey /\ life'[s] # "unused"
      /\ life'[s] = "live" => life[s] = "live" /\ control'[s] = "held"
  BY DEF KeyInv, KeyTypes
<1> HIDE DEF old, new, m
<1>6. \A e \in old : e.key \in Key
  BY <1>1 DEF EntryType
<1>7. \A k \in Key, state \in {"refused", "live"} :
        Has(CreateScope, k, state)' <=> Has(CreateScope, k, state)
  <2> SUFFICES ASSUME NEW k \in Key, NEW state \in {"refused", "live"}
               PROVE  (\E f \in new : f.key = k /\ f.state = state) <=>
                        \E e \in old : e.key = k /\ e.state = state
    BY DEF Has, old, new
  <2> QED
    BY <1>2, <1>3
<1>8. StoreOK(CreateScope)'
  <2>1. (Len(keys[CreateScope]) <= Capacity(CreateScope))'
    BY <1>1, <1>2 DEF StoreOK, Capacity
  <2>2. ASSUME NEW e \in old
        PROVE  /\ m(e).state \in {"refused", "live"}
               /\ m(e).state = "live" => <<CreateScope, m(e).key>> \in used'
    BY <1>1, <1>3, <1>6 DEF StoreOK, SameUsed, old
  <2> QED
    BY <1>2, <2>1, <2>2 DEF StoreOK, new
<1>9. EffectsOK(CreateScope)'
  BY <1>1, <1>7, StoreAssumption DEF EffectsOK, SameUsed, Over
<1>10. ASSUME NEW t \in Session PROVE TokenOK(t)'
  <2>1. CASE t = s
    BY <1>5, <2>1 DEF TokenOK
  <2>2. CASE t # s
    <3> SUFFICES ASSUME createKey[t] # NoKey
                 PROVE  \E f \in new : /\ f.key = createKey[t] /\ f.result = t
                                       /\ f.state = "live" /\ ~f.claimed
      BY <1>1, <1>5, <2>2 DEF TokenOK, new
    <3>1. PICK w \in old : w.key = createKey[t] /\ w.result = t /\ w.state = "live" /\ ~w.claimed
      BY <1>1 DEF TokenOK, old
    <3>2. m(w) \in new /\ ~m(w).claimed
      BY <1>2, <1>3, <1>4, <2>2, <3>1
    <3> QED
      BY <1>3, <3>1, <3>2
  <2> QED
    BY <2>1, <2>2
<1>11. ASSUME NEW e \in old, NEW f, f = m(e) PROVE CreatedOK(f)'
  <2> SUFFICES ASSUME e.state = "live"
               PROVE  /\ e.result \in Session /\ life'[e.result] # "unused"
                      /\ life'[e.result] = "live" =>
                           /\ m(e).claimed <=> control'[e.result] # "initial"
                           /\ m(e).claimed <=> createKey'[e.result] # e.key
    BY <1>3, <1>11 DEF CreatedOK
  <2>1. /\ e.result \in Session /\ life[e.result] # "unused"
        /\ life[e.result] = "live" =>
             /\ e.claimed <=> control[e.result] # "initial"
             /\ e.claimed <=> createKey[e.result] # e.key
    BY <1>1 DEF CreatedOK
  <2>2. CASE e.result = s
    <3>1. e.key # NoKey
      BY <1>6, StoreAssumption
    <3>2. life'[s] = "live" => m(e).claimed
      BY <1>3, <1>5, <2>1, <2>2
    <3> QED
      BY <1>5, <2>1, <2>2, <3>1, <3>2
  <2>3. CASE e.result # s
    <3>1. m(e).claimed <=> e.claimed
      BY <1>3, <1>4, <2>3
    <3> QED
      BY <1>5, <2>1, <2>3, <3>1
  <2> QED
    BY <2>2, <2>3
<1>12. ScopeMoves(CreateScope)
  BY <1>7 DEF ScopeMoves, SameUsed
<1> QED
  BY <1>2, <1>8, <1>9, <1>10, <1>11, <1>12 DEF CreateInv, new

\* The retention floor of the key of a session that is over.
LEMMA CreateAges ==
    ASSUME KeyInv, NEW k \in Key, FloorPasses(k)
    PROVE  /\ keys' \in [Scope -> Stores] /\ \A x \in Scope : x # CreateScope => keys'[x] = keys[x]
           /\ CreateInv' /\ ScopeMoves(CreateScope)
<1> DEFINE q == keys[CreateScope]
           old == Entries(q)
           e == EntryOf(q, k)
           f == [e EXCEPT !.aged = TRUE]
           new == Entries(keys'[CreateScope])
<1>1. /\ q \in Stores /\ StoreOK(CreateScope) /\ EffectsOK(CreateScope)
      /\ \A t \in Session : TokenOK(t)
      /\ \A g \in old : CreatedOK(g) /\ g.state \in {"refused", "live"} /\ g \in EntryType
  BY CreateFacts
<1>2. /\ k \in KeysOf(q) /\ e.state \in AppliedState /\ life[e.result] # "live"
      /\ keys' = [keys EXCEPT ![CreateScope] = Updated(q, f)]
      /\ UNCHANGED <<life, control, createKey, used>>
  BY DEF FloorPasses, sessions
<1>3. e \in old /\ e.key = k
  BY <1>1, <1>2, KeyIs
<1>4. e.state = "live" /\ e \in EntryType
  BY <1>1, <1>2, <1>3 DEF AppliedState
<1>5. /\ f \in EntryType /\ f.key = e.key /\ f.state = e.state /\ f.result = e.result
      /\ f.claimed = e.claimed
  <2> HIDE DEF e
  <2> QED
    BY <1>4 DEF EntryType
<1>6. CreateScope \in Scope /\ keys \in [Scope -> Stores]
  BY DEF Scope, KeyInv, KeyTypes
<1>7. /\ Updated(q, f) \in Stores /\ Len(Updated(q, f)) = Len(q)
      /\ Entries(Updated(q, f)) = (old \ {e}) \cup {f}
  <2>1. f.key \in KeysOf(q) /\ EntryOf(q, f.key) = e
    BY <1>2, <1>3, <1>5
  <2> HIDE DEF f
  <2> QED
    BY <1>1, <1>5, <2>1, UpdatedIs
<1> HIDE DEF f, e
<1>8. keys'[CreateScope] = Updated(q, f)
  BY <1>2, <1>6
<1>9. new = (old \ {e}) \cup {f} /\ Len(keys'[CreateScope]) = Len(q)
  BY <1>7, <1>8
<1>10. keys' \in [Scope -> Stores] /\ \A x \in Scope : x # CreateScope => keys'[x] = keys[x]
  BY <1>2, <1>6, <1>7
<1> HIDE DEF old, new, q
<1>11. \A j \in Key, state \in {"refused", "live"} :
        Has(CreateScope, j, state)' <=> Has(CreateScope, j, state)
  BY <1>3, <1>5, <1>9 DEF Has, old, new, q
<1>12. StoreOK(CreateScope)'
  <2>1. (Len(keys[CreateScope]) <= Capacity(CreateScope))'
    BY <1>1, <1>9 DEF StoreOK, Capacity, q
  <2>2. ASSUME NEW g \in new
        PROVE  g.state \in {"refused", "live"} /\ (g.state = "live" => <<CreateScope, g.key>> \in used')
    BY <1>1, <1>2, <1>3, <1>5, <1>9 DEF StoreOK, old, q
  <2> QED
    BY <2>1, <2>2 DEF StoreOK, new
<1>13. EffectsOK(CreateScope)'
  BY <1>1, <1>2, <1>11 DEF EffectsOK, Over
<1>14. ASSUME NEW t \in Session PROVE TokenOK(t)'
  <2> SUFFICES ASSUME createKey[t] # NoKey
               PROVE  \E g \in new : /\ g.key = createKey[t] /\ g.result = t
                                     /\ g.state = "live" /\ ~g.claimed
    BY <1>1, <1>2 DEF TokenOK, new
  <2>1. PICK w \in old : w.key = createKey[t] /\ w.result = t /\ w.state = "live" /\ ~w.claimed
    BY <1>1 DEF TokenOK, old, q
  <2>2. life[t] = "live"
    BY <1>1 DEF TokenOK
  <2>3. w # e
    BY <1>2, <2>1, <2>2
  <2> QED
    BY <1>9, <2>1, <2>3
<1>15. ASSUME NEW g \in new PROVE CreatedOK(g)'
  <2>1. CASE g = f
    BY <1>1, <1>2, <1>3, <1>5, <2>1 DEF CreatedOK
  <2>2. CASE g \in old
    BY <1>1, <1>2, <2>2 DEF CreatedOK
  <2> QED
    BY <1>9, <2>1, <2>2
<1>16. ScopeMoves(CreateScope)
  BY <1>2, <1>11 DEF ScopeMoves
<1> QED
  BY <1>10, <1>12, <1>13, <1>14, <1>15, <1>16 DEF CreateInv, new

-----------------------------------------------------------------------------
(* The handlers                                                            *)

\* What is known of a store.
LEMMA ScopeFacts ==
    ASSUME KeyInv, NEW x \in Scope
    PROVE  /\ keys \in [Scope -> Stores] /\ keys[x] \in Stores /\ StoreOK(x)
           /\ Capacity(x) \in Nat /\ Len(keys[x]) <= Capacity(x)
<1>1. StoreOK(x) /\ keys \in [Scope -> Stores]
  BY DEF KeyInv, KeyTypes, SessionInv, CreateInv, Scope
<1> QED
  BY <1>1, StoreAssumption DEF Capacity, StoreOK

\* `begin`, and `complete` with an outcome that applied nothing.
LEMMA RefuseIs ==
    ASSUME KeyInv, NEW x \in Scope,
           NEW k \in Key, NEW call \in SessionCall \cup CreateCall, NEW c \in Conn \cup {NoConn},
           Executes(x, k, call, c), RefuseKey(x, k, call, c)
    PROVE  /\ keys' \in [Scope -> Stores] /\ used' = used
           /\ \A y \in Scope : y # x => keys'[y] = keys[y]
           /\ Len(keys'[x]) <= Capacity(x)
           /\ \E e \in EntryType : e.state = "refused" /\ ~e.claimed /\ Executed(keys[x], keys'[x], e)
<1> DEFINE R == Begin(keys[x], Capacity(x), k, call, c).store
           e == [Reserved(k, call, c) EXCEPT !.state = "refused"]
           r == Updated(R, e)
<1>1. /\ keys \in [Scope -> Stores] /\ keys[x] \in Stores
      /\ Capacity(x) \in Nat /\ Len(keys[x]) <= Capacity(x)
  BY ScopeFacts
<1>2. e \in Answers(k, call, c)
  BY DEF Answers
<1>3. e \in EntryType /\ e.key = k /\ e.call = call /\ ~e.claimed /\ e.state = "refused"
  <2>1. e.state = "refused"
    BY DEF Reserved
  <2> HIDE DEF e
  <2> QED
    BY <1>2, <2>1, OutcomeIs
<1> HIDE DEF e
<1>4. /\ EntryOf(R, k) = Reserved(k, call, c) /\ r \in Stores
      /\ Len(r) <= Capacity(x) /\ Executed(keys[x], r, e)
  BY <1>1, <1>2, ExecutedIs DEF Executes
<1>5. keys' = [keys EXCEPT ![x] = r] /\ used' = used
  BY <1>4 DEF RefuseKey, Reservation, Refuse, e
<1> HIDE DEF r
<1> QED
  BY <1>1, <1>3, <1>4, <1>5

\* `begin`, and `complete` with an effect, of a request that claims the control
\* of some sessions.
LEMMA ApplyIs ==
    ASSUME KeyInv, NEW x \in Scope,
           NEW k \in Key, NEW call \in SessionCall \cup CreateCall, NEW c \in Conn \cup {NoConn},
           NEW result \in Session \cup ObserverGrant \cup {NoResult}, NEW claims,
           Executes(x, k, call, c), ApplyKey(x, k, call, c, result, claims),
           x = CreateScope => claims = {}
    PROVE  /\ keys' \in [Scope -> Stores] /\ used' = used \cup {<<x, k>>}
           /\ \A y \in Scope : y # x /\ y # CreateScope => keys'[y] = keys[y]
           /\ x # CreateScope => keys'[CreateScope] = Claimed(keys[CreateScope], claims)
           /\ Len(keys'[x]) <= Capacity(x)
           /\ \E e \in EntryType :
                /\ e.state = "live" /\ ~e.claimed /\ e.key = k /\ e.call = call /\ e.result = result
                /\ Executed(keys[x], keys'[x], e)
<1> DEFINE R == Begin(keys[x], Capacity(x), k, call, c).store
           e == [Reserved(k, call, c) EXCEPT !.state = "live", !.result = result]
           r == Updated(R, e)
           applied == [keys EXCEPT ![x] = r]
<1>1. /\ keys \in [Scope -> Stores] /\ keys[x] \in Stores
      /\ Capacity(x) \in Nat /\ Len(keys[x]) <= Capacity(x)
  BY ScopeFacts
<1>2. e \in Answers(k, call, c)
  BY DEF Answers
<1>3. /\ e \in EntryType /\ e.key = k /\ e.call = call /\ ~e.claimed /\ e.state = "live"
      /\ e.result = result
  <2>1. e.state = "live" /\ e.result = result
    BY DEF Reserved
  <2> HIDE DEF e
  <2> QED
    BY <1>2, <2>1, OutcomeIs
<1> HIDE DEF e
<1>4. /\ EntryOf(R, k) = Reserved(k, call, c) /\ r \in Stores
      /\ Len(r) <= Capacity(x) /\ Executed(keys[x], r, e)
  BY <1>1, <1>2, ExecutedIs DEF Executes
<1>5. r = Apply(R, k, result)
  BY <1>4 DEF Apply, e
<1>6. /\ keys' = [applied EXCEPT ![CreateScope] = Claimed(@, claims)]
      /\ used' = used \cup {<<x, k>>}
  BY <1>5 DEF ApplyKey, Reservation
<1> HIDE DEF r, R
<1>7. applied \in [Scope -> Stores] /\ CreateScope \in Scope
  BY <1>1, <1>4 DEF Scope
<1>8. Claimed(applied[CreateScope], claims) \in Stores
  BY <1>7, ClaimedIs
<1>9. /\ keys' \in [Scope -> Stores]
      /\ keys'[CreateScope] = Claimed(applied[CreateScope], claims)
      /\ \A y \in Scope : y # CreateScope => keys'[y] = applied[y]
  <2> HIDE DEF applied
  <2> QED
    BY <1>6, <1>7, <1>8
<1>10. keys'[x] = r
  <2>1. CASE x = CreateScope
    BY <1>1, <1>4, <1>7, <1>9, <2>1, ClaimedNone
  <2>2. CASE x # CreateScope
    BY <1>1, <1>9, <2>2
  <2> QED
    BY <2>1, <2>2
<1> QED
  BY <1>1, <1>3, <1>4, <1>6, <1>7, <1>9, <1>10

\* What a step has to show.
LEMMA Together ==
    ASSUME KeyTypes', \A s \in Session : SessionInv(s)' /\ ScopeMoves(s),
           CreateInv', ScopeMoves(CreateScope)
    PROVE  KeysMove
  BY DEF KeysMove, KeyInv, Scope

\* A key of another store.
LEMMA OtherUsed ==
    ASSUME NEW x, NEW k, NEW y, used' = used \/ used' = used \cup {<<x, k>>}, y # x
    PROVE  SameUsed(y)
  BY DEF SameUsed

\* The key of this one.
LEMMA ThisUsed ==
    ASSUME NEW x, NEW e, \/ e.state = "refused" /\ used' = used
                         \/ e.state = "live" /\ used' = used \cup {<<x, e.key>>}
    PROVE  UsedBy(x, e)
  BY DEF UsedBy

\* Handlers that touch no store and no session.
LEMMA MoveNothing ==
    ASSUME KeyInv, UNCHANGED <<sessions, keys, used>>
    PROVE  KeysMove
<1>1. UNCHANGED <<life, control, createKey, named, keys, used>>
  BY DEF sessions
<1>2. KeyTypes'
  BY <1>1 DEF KeyInv, KeyTypes
<1>3. \A x : SameUsed(x)
  BY <1>1 DEF SameUsed
<1>4. ASSUME NEW s \in Session PROVE SessionInv(s)' /\ ScopeMoves(s)
  BY <1>1, <1>3, SessionStays DEF Over
<1>5. CreateInv' /\ ScopeMoves(CreateScope)
  BY <1>1, <1>3, CreateStays
<1> QED
  BY <1>2, <1>4, <1>5, Together

\* A refused request leaves its key.
LEMMA MoveRefused ==
    ASSUME KeyInv, NEW x \in Scope, x \in Session => life[x] # "unused",
           NEW k \in Key, NEW call \in SessionCall \cup CreateCall, NEW c \in Conn \cup {NoConn},
           Executes(x, k, call, c), RefuseKey(x, k, call, c), UNCHANGED sessions
    PROVE  KeysMove
<1>1. UNCHANGED <<life, control, createKey, named>>
  BY DEF sessions
<1>2. /\ keys' \in [Scope -> Stores] /\ used' = used
      /\ \A y \in Scope : y # x => keys'[y] = keys[y]
      /\ Len(keys'[x]) <= Capacity(x)
  BY RefuseIs
<1>3. PICK e \in EntryType : e.state = "refused" /\ ~e.claimed /\ Executed(keys[x], keys'[x], e)
  BY RefuseIs
<1>4. KeyTypes'
  BY <1>1, <1>2 DEF KeyInv, KeyTypes
<1>5. UsedBy(x, e) /\ \A y : SameUsed(y)
  BY <1>2, <1>3 DEF UsedBy, SameUsed
<1>6. ASSUME NEW s \in Session PROVE SessionInv(s)' /\ ScopeMoves(s)
  <2>1. s \in Scope /\ (Over(s) => Over(s)')
    BY <1>1 DEF Scope, Over
  <2>2. CASE s = x
    <3>1. ~IsMint(e) /\ named'[s] = named[s] /\ life'[s] # "unused"
      BY <1>1, <1>3, <2>2 DEF IsMint
    <3> QED
      BY <1>2, <1>3, <1>5, <2>1, <2>2, <3>1, SessionExecutes
  <2>3. CASE s # x
    <3>1. keys'[s] = keys[s] /\ named'[s] = named[s] /\ life'[s] = life[s] /\ control'[s] = control[s]
      BY <1>1, <1>2, <2>1, <2>3
    <3> QED
      BY <1>5, <2>1, <3>1, SessionStays
  <2> QED
    BY <2>2, <2>3
<1>7. CreateInv' /\ ScopeMoves(CreateScope)
  <2>1. CASE x = CreateScope
    BY <1>1, <1>2, <1>3, <1>5, <2>1, CreateExecutes
  <2>2. CASE x # CreateScope
    <3>1. keys'[CreateScope] = keys[CreateScope]
      BY <1>2, <2>2 DEF Scope
    <3> QED
      BY <1>1, <1>5, <3>1, CreateStays
  <2> QED
    BY <2>1, <2>2
<1> QED
  BY <1>4, <1>6, <1>7, Together

\* session.create.
LEMMA MoveCreate ==
    ASSUME KeyInv, NEW c \in Conn, NEW k \in Key, NEW call \in CreateCall, NEW s \in Session,
           Create(c, k, call, s)
    PROVE  KeysMove
<1>1. /\ life[s] = "unused" /\ UNCHANGED <<control, named>>
      /\ Executes(CreateScope, k, call, NoConn)
      /\ ApplyKey(CreateScope, k, call, NoConn, s, {})
      /\ \/ life' = [life EXCEPT ![s] = "live"] /\ createKey' = [createKey EXCEPT ![s] = k]
         \/ life' = [life EXCEPT ![s] = "terminal"] /\ createKey' = createKey
  BY DEF Create
<1>2. CreateScope \in Scope /\ \A t \in Session : t \in Scope /\ t # CreateScope
  BY StoreAssumption DEF Scope
<1>3. /\ keys' \in [Scope -> Stores] /\ used' = used \cup {<<CreateScope, k>>}
      /\ \A y \in Scope : y # CreateScope => keys'[y] = keys[y]
      /\ Len(keys'[CreateScope]) <= Capacity(CreateScope)
      /\ \E e \in EntryType :
           /\ e.state = "live" /\ ~e.claimed /\ e.key = k /\ e.call = call /\ e.result = s
           /\ Executed(keys[CreateScope], keys'[CreateScope], e)
  <2> DEFINE none == {}
  <2>1. ApplyKey(CreateScope, k, call, NoConn, s, none) /\ none = {}
    BY <1>1
  <2>2. call \in SessionCall \cup CreateCall /\ NoConn \in Conn \cup {NoConn}
        /\ s \in Session \cup ObserverGrant \cup {NoResult}
    OBVIOUS
  <2> HIDE DEF none
  <2> QED
    BY <1>1, <1>2, <2>1, <2>2, ApplyIs
<1>4. PICK e \in EntryType :
        /\ e.state = "live" /\ ~e.claimed /\ e.key = k /\ e.result = s
        /\ Executed(keys[CreateScope], keys'[CreateScope], e)
  BY <1>3
<1>5. /\ life \in [Session -> {"unused", "live", "terminal", "collected"}]
      /\ createKey \in [Session -> Key \cup {NoKey}] /\ used \subseteq Slots
  BY DEF KeyInv, KeyTypes
<1>6. KeyTypes'
  <2>1. life' \in [Session -> {"unused", "live", "terminal", "collected"}]
    BY <1>1, <1>5
  <2>2. createKey' \in [Session -> Key \cup {NoKey}]
    BY <1>1, <1>5
  <2>3. used' \subseteq Slots
    BY <1>2, <1>3, <1>5 DEF Slots
  <2> QED
    BY <1>1, <1>3, <2>1, <2>2, <2>3 DEF KeyInv, KeyTypes
<1>7. ASSUME NEW t \in Session PROVE SessionInv(t)' /\ ScopeMoves(t)
  <2>1. SameUsed(t)
    BY <1>2, <1>3, OtherUsed
  <2>2. keys'[t] = keys[t] /\ named'[t] = named[t] /\ control'[t] = control[t]
    BY <1>1, <1>2, <1>3
  <2>3. (life'[t] = "unused" => life[t] = "unused") /\ (Over(t) => Over(t)')
    BY <1>1, <1>5 DEF Over
  <2> QED
    BY <2>1, <2>2, <2>3, SessionStays
<1>8. CreateInv' /\ ScopeMoves(CreateScope)
  <2>1. UsedBy(CreateScope, e)
    BY <1>3, <1>4, ThisUsed
  <2>2. /\ e.state = "live" /\ e.result \in Session /\ life[e.result] = "unused"
        /\ \/ /\ life' = [life EXCEPT ![e.result] = "live"]
              /\ createKey' = [createKey EXCEPT ![e.result] = e.key]
           \/ /\ life' = [life EXCEPT ![e.result] = "terminal"]
              /\ createKey' = createKey
    BY <1>1, <1>4
  <2> QED
    BY <1>1, <1>3, <1>4, <2>1, <2>2, CreateExecutes
<1> QED
  BY <1>6, <1>7, <1>8, Together

\* An attach as controller, or a transfer: the key of the create says that the
\* token is gone.
LEMMA MoveClaim ==
    ASSUME KeyInv, NEW c \in Conn, NEW s \in Session, NEW k \in Key,
           NEW call \in {"attach", "transfer"}, life[s] = "live",
           Executes(s, k, call, c), ApplyKey(s, k, call, c, NoResult, {s}), ClaimControl(s)
    PROVE  KeysMove
<1>1. /\ control' = [control EXCEPT ![s] = "held"]
      /\ createKey' = [createKey EXCEPT ![s] = NoKey]
      /\ UNCHANGED <<life, named>>
  BY DEF ClaimControl
<1>2. CreateScope \in Scope /\ \A t \in Session : t \in Scope /\ t # CreateScope
  BY StoreAssumption DEF Scope
<1>3. /\ keys' \in [Scope -> Stores] /\ used' = used \cup {<<s, k>>}
      /\ \A y \in Scope : y # s /\ y # CreateScope => keys'[y] = keys[y]
      /\ keys'[CreateScope] = Claimed(keys[CreateScope], {s})
      /\ Len(keys'[s]) <= Capacity(s)
      /\ \E e \in EntryType :
           /\ e.state = "live" /\ ~e.claimed /\ e.key = k /\ e.call = call /\ e.result = NoResult
           /\ Executed(keys[s], keys'[s], e)
  <2> DEFINE claims == {s}
  <2>1. ApplyKey(s, k, call, c, NoResult, claims) /\ claims = {s}
    OBVIOUS
  <2>2. call \in SessionCall \cup CreateCall /\ c \in Conn \cup {NoConn}
        /\ NoResult \in Session \cup ObserverGrant \cup {NoResult}
    BY DEF SessionCall
  <2> HIDE DEF claims
  <2> QED
    BY <1>2, <2>1, <2>2, ApplyIs
<1>4. PICK e \in EntryType : /\ e.state = "live" /\ e.key = k /\ e.call = call
                             /\ Executed(keys[s], keys'[s], e)
  BY <1>3
<1>5. KeyTypes'
  <2>1. used' \subseteq Slots
    BY <1>2, <1>3 DEF KeyInv, KeyTypes, Slots
  <2>2. /\ control' \in [Session -> {"initial", "vacant", "held", "revoked"}]
        /\ createKey' \in [Session -> Key \cup {NoKey}]
    BY <1>1 DEF KeyInv, KeyTypes
  <2> QED
    BY <1>1, <1>3, <2>1, <2>2 DEF KeyInv, KeyTypes
<1>6. ASSUME NEW t \in Session PROVE SessionInv(t)' /\ ScopeMoves(t)
  <2>1. Over(t) => Over(t)'
    BY <1>1 DEF Over
  <2>2. CASE t = s
    <3>1. UsedBy(s, e)
      BY <1>3, <1>4, ThisUsed
    <3>2. ~IsMint(e) /\ named'[s] = named[s] /\ life'[s] # "unused" /\ ~Over(s)
      BY <1>1, <1>4 DEF IsMint, Over
    <3> QED
      BY <1>3, <1>4, <2>1, <2>2, <3>1, <3>2, SessionExecutes
  <2>3. CASE t # s
    <3>1. SameUsed(t)
      BY <1>3, <2>3, OtherUsed
    <3>2. /\ keys'[t] = keys[t] /\ named'[t] = named[t] /\ life'[t] = life[t]
          /\ control'[t] = control[t]
      BY <1>1, <1>2, <1>3, <2>3 DEF KeyInv, KeyTypes
    <3> QED
      BY <2>1, <3>1, <3>2, SessionStays
  <2> QED
    BY <2>2, <2>3
<1>7. CreateInv' /\ ScopeMoves(CreateScope)
  <2>1. SameUsed(CreateScope)
    BY <1>2, <1>3, OtherUsed
  <2> QED
    BY <1>1, <1>3, <2>1, CreateMarks
<1> QED
  BY <1>5, <1>6, <1>7, Together

\* session.grant.
LEMMA MoveMint ==
    ASSUME KeyInv, NEW c \in Conn, NEW s \in Session, NEW k \in Key, NEW g \in ObserverGrant,
           MintObserver(c, s, k, g)
    PROVE  KeysMove
<1>1. /\ life[s] = "live" /\ Executes(s, k, "grant", c) /\ ApplyKey(s, k, "grant", c, g, {})
      /\ named' = [named EXCEPT ![s] = Remember(@, g)]
      /\ UNCHANGED <<life, control, createKey>>
  BY DEF MintObserver
<1>2. CreateScope \in Scope /\ \A t \in Session : t \in Scope /\ t # CreateScope
  BY StoreAssumption DEF Scope
<1>3. /\ keys' \in [Scope -> Stores] /\ used' = used \cup {<<s, k>>}
      /\ \A y \in Scope : y # s /\ y # CreateScope => keys'[y] = keys[y]
      /\ keys'[CreateScope] = Claimed(keys[CreateScope], {})
      /\ Len(keys'[s]) <= Capacity(s)
      /\ \E e \in EntryType :
           /\ e.state = "live" /\ ~e.claimed /\ e.key = k /\ e.call = "grant" /\ e.result = g
           /\ Executed(keys[s], keys'[s], e)
  <2> DEFINE none == {}
             call == "grant"
  <2>1. Executes(s, k, call, c) /\ ApplyKey(s, k, call, c, g, none)
    BY <1>1
  <2>2. call \in SessionCall \cup CreateCall /\ c \in Conn \cup {NoConn}
        /\ g \in Session \cup ObserverGrant \cup {NoResult}
    BY DEF SessionCall
  <2> HIDE DEF none, call
  <2>3. /\ keys' \in [Scope -> Stores] /\ used' = used \cup {<<s, k>>}
        /\ \A y \in Scope : y # s /\ y # CreateScope => keys'[y] = keys[y]
        /\ keys'[CreateScope] = Claimed(keys[CreateScope], none)
        /\ Len(keys'[s]) <= Capacity(s)
        /\ \E e \in EntryType :
             /\ e.state = "live" /\ ~e.claimed /\ e.key = k /\ e.call = call /\ e.result = g
             /\ Executed(keys[s], keys'[s], e)
    BY <1>2, <2>1, <2>2, ApplyIs
  <2> QED
    BY <2>3 DEF none, call
<1>4. PICK e \in EntryType : /\ e.state = "live" /\ e.key = k /\ e.call = "grant" /\ e.result = g
                             /\ Executed(keys[s], keys'[s], e)
  BY <1>3
<1>5. keys'[CreateScope] = keys[CreateScope]
  BY <1>3, CreateFacts, ClaimedNone
<1>6. named \in [Session -> Seq(ObserverGrant)] /\ named'[s] = Remember(named[s], g)
      /\ \A t \in Session : t # s => named'[t] = named[t]
  BY <1>1 DEF KeyInv, KeyTypes
<1>7. SessionInv(s)' /\ ScopeMoves(s) /\ named'[s] \in Seq(ObserverGrant)
  <2>1. UsedBy(s, e)
    BY <1>3, <1>4, ThisUsed
  <2>2. IsMint(e) /\ e.result \in ObserverGrant /\ keys'[s] \in Stores
    BY <1>2, <1>3, <1>4 DEF IsMint
  <2> QED
    BY <1>1, <1>3, <1>4, <1>6, <2>1, <2>2, SessionMints
<1>8. KeyTypes'
  <2>1. used' \subseteq Slots
    BY <1>2, <1>3 DEF KeyInv, KeyTypes, Slots
  <2>2. named' \in [Session -> Seq(ObserverGrant)]
    <3> DEFINE ids == Remember(named[s], g)
    <3>1. ids \in Seq(ObserverGrant) /\ named' = [named EXCEPT ![s] = ids]
      BY <1>1, <1>6, <1>7
    <3> HIDE DEF ids
    <3> QED
      BY <1>6, <3>1
  <2> QED
    BY <1>1, <1>3, <2>1, <2>2 DEF KeyInv, KeyTypes
<1>9. ASSUME NEW t \in Session, t # s PROVE SessionInv(t)' /\ ScopeMoves(t)
  <2>1. SameUsed(t)
    BY <1>3, <1>9, OtherUsed
  <2>2. keys'[t] = keys[t] /\ named'[t] = named[t]
    BY <1>2, <1>3, <1>6, <1>9
  <2>3. life'[t] = life[t] /\ control'[t] = control[t] /\ (Over(t) => Over(t)')
    BY <1>1 DEF Over
  <2> QED
    BY <2>1, <2>2, <2>3, SessionStays
<1>10. CreateInv' /\ ScopeMoves(CreateScope)
  <2>1. SameUsed(CreateScope)
    BY <1>2, <1>3, OtherUsed
  <2> QED
    BY <1>1, <1>5, <2>1, CreateStays
<1> QED
  BY <1>7, <1>8, <1>9, <1>10, Together

\* Control is lost.
LEMMA MoveRelease ==
    ASSUME KeyInv, NEW s \in Session, ReleaseControl(s)
    PROVE  KeysMove
<1>1. /\ control[s] = "held" /\ life[s] = "live"
      /\ \/ control' = [control EXCEPT ![s] = "vacant"]
         \/ control' = [control EXCEPT ![s] = "revoked"]
      /\ UNCHANGED <<life, createKey, named, keys, used>>
  BY DEF ReleaseControl
<1>2. control \in [Session -> {"initial", "vacant", "held", "revoked"}]
  BY DEF KeyInv, KeyTypes
<1>3. /\ control' \in [Session -> {"initial", "vacant", "held", "revoked"}]
      /\ \A t \in Session : t # s => control'[t] = control[t]
      /\ control'[s] # "initial"
  BY <1>1, <1>2
<1>4. KeyTypes'
  BY <1>1, <1>3 DEF KeyInv, KeyTypes
<1>5. \A x : SameUsed(x)
  BY <1>1 DEF SameUsed
<1>6. ASSUME NEW t \in Session PROVE SessionInv(t)' /\ ScopeMoves(t)
  <2>1. /\ keys'[t] = keys[t] /\ named'[t] = named[t] /\ (Over(t) => Over(t)')
        /\ life'[t] = "unused" => life[t] = "unused" /\ control'[t] = control[t]
    BY <1>1, <1>3 DEF Over
  <2> QED
    BY <1>5, <2>1, SessionStays
<1>7. CreateInv' /\ ScopeMoves(CreateScope)
  <2>1. \A t \in Session : control'[t] = control[t] \/ "initial" \notin {control[t], control'[t]}
    BY <1>1, <1>3
  <2> QED
    BY <1>1, <1>5, <2>1, CreateStays
<1> QED
  BY <1>4, <1>6, <1>7, Together

\* A store without entries.
LEMMA EmptyStore ==
    /\ <<>> \in Stores /\ Len(<<>>) = 0 /\ Entries(<<>>) = {} /\ <<>> \in Seq(ObserverGrant)
    /\ Cardinality(Mints(<<>>)) = 0
<1>1. <<>> \in Seq(EntryType) /\ <<>> \in Seq(ObserverGrant) /\ Len(<<>>) = 0 /\ DOMAIN <<>> = {}
  OBVIOUS
<1>2. Entries(<<>>) = {} /\ Keyed(<<>>)
  BY <1>1 DEF Entries, ToSet, Keyed
<1>3. Mints(<<>>) = {}
  BY <1>2 DEF Mints
<1>4. Cardinality({}) = 0
  BY FS_EmptySet
<1> QED
  BY <1>1, <1>2, <1>3, <1>4 DEF Stores

\* The end of a session, and of its record.
LEMMA MoveRetire ==
    ASSUME KeyInv, NEW s \in Session, life[s] # "unused", Retire(s),
           NEW v \in {"terminal", "collected"}, life' = [life EXCEPT ![s] = v],
           UNCHANGED <<control, used>>
    PROVE  KeysMove
<1>1. /\ keys' = [keys EXCEPT ![s] = <<>>, ![CreateScope] = Claimed(@, {s})]
      /\ createKey' = [createKey EXCEPT ![s] = NoKey]
      /\ named' = [named EXCEPT ![s] = <<>>]
  BY DEF Retire
<1>2. CreateScope \in Scope /\ \A t \in Session : t \in Scope /\ t # CreateScope
  BY StoreAssumption DEF Scope
<1>3. /\ keys \in [Scope -> Stores] /\ named \in [Session -> Seq(ObserverGrant)]
      /\ life \in [Session -> {"unused", "live", "terminal", "collected"}]
  BY DEF KeyInv, KeyTypes
<1>4. /\ keys' \in [Scope -> Stores] /\ keys'[s] = <<>>
      /\ keys'[CreateScope] = Claimed(keys[CreateScope], {s})
      /\ \A t \in Session : t # s => keys'[t] = keys[t]
  <2> DEFINE q == <<>>
             r == Claimed(keys[CreateScope], {s})
             S == {s}
  <2>1. q \in Stores
    BY EmptyStore
  <2>2. r \in Stores
    <3>1. keys[CreateScope] \in Stores /\ r = Claimed(keys[CreateScope], S)
      BY <1>2, <1>3
    <3> HIDE DEF r, S
    <3> QED
      BY <3>1, ClaimedIs
  <2>3. keys' = [keys EXCEPT ![s] = q, ![CreateScope] = r]
    BY <1>1, <1>2, <1>3
  <2> HIDE DEF q, r
  <2>4. keys' \in [Scope -> Stores] /\ keys'[s] = q /\ keys'[CreateScope] = r
        /\ \A t \in Session : t # s => keys'[t] = keys[t]
    BY <1>2, <1>3, <2>1, <2>2, <2>3
  <2> QED
    BY <2>4 DEF q, r
<1>5. /\ named' \in [Session -> Seq(ObserverGrant)] /\ named'[s] = <<>>
      /\ \A t \in Session : t # s => named'[t] = named[t]
  <2> DEFINE q == <<>>
  <2>1. q \in Seq(ObserverGrant) /\ named' = [named EXCEPT ![s] = q]
    BY <1>1
  <2> HIDE DEF q
  <2>2. /\ named' \in [Session -> Seq(ObserverGrant)] /\ named'[s] = q
        /\ \A t \in Session : t # s => named'[t] = named[t]
    BY <1>3, <2>1
  <2> QED
    BY <2>2 DEF q
<1>6. /\ life'[s] = v /\ \A t \in Session : t # s => life'[t] = life[t]
      /\ life' \in [Session -> {"unused", "live", "terminal", "collected"}]
  BY <1>3
<1>7. KeyTypes'
  <2>1. createKey' \in [Session -> Key \cup {NoKey}]
    BY <1>1 DEF KeyInv, KeyTypes
  <2> QED
    BY <1>4, <1>5, <1>6, <2>1 DEF KeyInv, KeyTypes
<1>8. \A x : SameUsed(x)
  BY DEF SameUsed
<1>9. SessionInv(s)' /\ ScopeMoves(s)
  <2>1. Entries(keys'[s]) = {} /\ Len(keys'[s]) = 0 /\ Cardinality(Mints(keys'[s])) = 0
        /\ Len(named'[s]) = 0
    BY <1>4, <1>5, EmptyStore
  <2>2. StoreOK(s)'
    <3>1. (Len(keys[s]) <= Capacity(s))'
      BY <2>1, StoreAssumption DEF Capacity
    <3> QED
      BY <2>1, <3>1 DEF StoreOK
  <2>3. EffectsOK(s)'
    BY <1>6 DEF EffectsOK, Over
  <2>4. FreshOK(s)'
    BY <1>6 DEF FreshOK
  <2>5. NamedOK(s)'
    BY <2>1 DEF NamedOK, Mints
  <2>6. ScopeMoves(s)
    BY <1>8, <2>1 DEF ScopeMoves, SameUsed, Has
  <2> QED
    BY <2>2, <2>3, <2>4, <2>5, <2>6 DEF SessionInv
<1>10. ASSUME NEW t \in Session, t # s PROVE SessionInv(t)' /\ ScopeMoves(t)
  <2>1. keys'[t] = keys[t] /\ named'[t] = named[t] /\ life'[t] = life[t] /\ control'[t] = control[t]
    BY <1>4, <1>5, <1>6, <1>10
  <2>2. Over(t) => Over(t)'
    BY <2>1 DEF Over
  <2> QED
    BY <1>8, <2>1, <2>2, SessionStays
<1>11. CreateInv' /\ ScopeMoves(CreateScope)
  BY <1>1, <1>4, <1>8, CreateMarks
<1> QED
  BY <1>7, <1>9, <1>10, <1>11, Together

\* The floor of a create key.
LEMMA MoveFloor ==
    ASSUME KeyInv, NEW k \in Key, FloorPasses(k)
    PROVE  KeysMove
<1>1. UNCHANGED <<life, control, createKey, named, used>>
  BY DEF FloorPasses, sessions
<1>2. /\ keys' \in [Scope -> Stores] /\ \A x \in Scope : x # CreateScope => keys'[x] = keys[x]
      /\ CreateInv' /\ ScopeMoves(CreateScope)
  BY CreateAges
<1>3. KeyTypes'
  BY <1>1, <1>2 DEF KeyInv, KeyTypes
<1>4. ASSUME NEW t \in Session PROVE SessionInv(t)' /\ ScopeMoves(t)
  <2>1. keys'[t] = keys[t] /\ SameUsed(t)
    BY <1>1, <1>2, StoreAssumption DEF Scope, SameUsed
  <2>2. Over(t) => Over(t)'
    BY <1>1 DEF Over
  <2> QED
    BY <1>1, <2>1, <2>2, SessionStays
<1> QED
  BY <1>2, <1>3, <1>4, Together

-----------------------------------------------------------------------------
(* At most once, and replays                                               *)

\* Nothing has been asked for yet.
LEMMA KeyInit == Init => KeyInv
<1> SUFFICES ASSUME Init PROVE KeyInv
  OBVIOUS
<1>1. KeyTypes
  BY EmptyStore DEF Init, KeyTypes
<1>2. \A x \in Scope : Entries(keys[x]) = {} /\ Len(keys[x]) = 0 /\ Cardinality(Mints(keys[x])) = 0
  BY EmptyStore DEF Init
<1>3. \A x \in Scope : StoreOK(x) /\ EffectsOK(x)
  BY <1>2, StoreAssumption DEF Init, StoreOK, EffectsOK, Capacity
<1>4. ASSUME NEW s \in Session PROVE SessionInv(s) /\ TokenOK(s)
  <2>1. s \in Scope /\ named[s] = <<>> /\ Len(<<>>) = 0
    BY EmptyStore DEF Init, Scope
  <2>2. NamedOK(s)
    BY <1>2, <2>1 DEF NamedOK, Mints
  <2>3. FreshOK(s)
    BY <2>1 DEF Init, FreshOK
  <2>4. TokenOK(s)
    BY DEF Init, TokenOK
  <2> QED
    BY <1>3, <2>1, <2>2, <2>3, <2>4 DEF SessionInv
<1>5. CreateInv
  BY <1>2, <1>3, <1>4 DEF CreateInv, Scope
<1> QED
  BY <1>1, <1>4, <1>5 DEF KeyInv

\* The handlers, one group of disjuncts of Next after the other.
LEMMA KeyNext == KeyInv /\ [Next]_vars => KeysMove
<1> SUFFICES ASSUME KeyInv, [Next]_vars PROVE KeysMove
  OBVIOUS
<1>1. CASE Refusal \/ Mutate \/ SweepGrants \/ UNCHANGED vars
  BY <1>1, MoveNothing DEF Refusal, Mutate, SweepGrants, vars
<1>2. ASSUME NEW c \in Conn, Disconnect(c) \/ \E g \in HostGrant : Negotiate(c, g)
      PROVE  KeysMove
  BY <1>2, MoveNothing DEF Disconnect, Negotiate
<1>3. ASSUME NEW c \in Conn, NEW k \in Key, NEW call \in CreateCall,
             CreateRefused(c, k, call) \/ \E s \in Session : Create(c, k, call, s)
      PROVE  KeysMove
  <2>1. CASE CreateRefused(c, k, call)
    <3>1. /\ Executes(CreateScope, k, call, NoConn) /\ RefuseKey(CreateScope, k, call, NoConn)
          /\ UNCHANGED sessions
      BY <2>1 DEF CreateRefused
    <3>2. /\ CreateScope \in Scope /\ CreateScope \notin Session
          /\ call \in SessionCall \cup CreateCall /\ NoConn \in Conn \cup {NoConn}
      BY StoreAssumption DEF Scope
    <3> QED
      BY <3>1, <3>2, MoveRefused
  <2> QED
    BY <1>3, <2>1, MoveCreate
<1>4. ASSUME NEW k \in Key, FloorPasses(k)
      PROVE  KeysMove
  BY <1>4, MoveFloor
<1>5. ASSUME NEW s \in Session, NEW c \in Conn, NEW k \in Key,
             \/ AttachController(c, s, k) \/ Transfer(c, s, k) \/ MintObserverRefused(c, s, k)
             \/ \E call \in SessionCall : KeyRefused(c, s, k, call)
             \/ \E g \in ObserverGrant : MintObserver(c, s, k, g)
      PROVE  KeysMove
  <2> DEFINE attach == "attach"
             transfer == "transfer"
             grant == "grant"
  <2>0. s \in Scope /\ c \in Conn \cup {NoConn} /\ grant \in SessionCall
        /\ attach \in {"attach", "transfer"} /\ transfer \in {"attach", "transfer"}
    BY DEF Scope, SessionCall
  <2>1. ASSUME NEW call \in SessionCall, life[s] # "unused",
               Executes(s, k, call, c), RefuseKey(s, k, call, c), UNCHANGED sessions
        PROVE  KeysMove
    BY <2>0, <2>1, MoveRefused
  <2>2. CASE \E call \in SessionCall : KeyRefused(c, s, k, call)
    BY <2>1, <2>2 DEF KeyRefused, Exists
  <2>3. CASE MintObserverRefused(c, s, k)
    <3>1. /\ life[s] # "unused" /\ Executes(s, k, grant, c) /\ RefuseKey(s, k, grant, c)
          /\ UNCHANGED sessions
      BY <2>3 DEF MintObserverRefused
    <3> HIDE DEF grant
    <3> QED
      BY <2>0, <2>1, <3>1
  <2>4. CASE AttachController(c, s, k)
    <3>1. /\ life[s] = "live" /\ Executes(s, k, attach, c)
          /\ ApplyKey(s, k, attach, c, NoResult, {s}) /\ ClaimControl(s)
      BY <2>4 DEF AttachController
    <3> HIDE DEF attach
    <3> QED
      BY <2>0, <3>1, MoveClaim
  <2>5. CASE Transfer(c, s, k)
    <3>1. /\ life[s] = "live" /\ Executes(s, k, transfer, c)
          /\ ApplyKey(s, k, transfer, c, NoResult, {s}) /\ ClaimControl(s)
      BY <2>5 DEF Transfer
    <3> HIDE DEF transfer
    <3> QED
      BY <2>0, <3>1, MoveClaim
  <2> QED
    BY <1>5, <2>2, <2>3, <2>4, <2>5, MoveMint
<1>6. ASSUME NEW s \in Session, ReleaseControl(s) \/ EndSession(s) \/ CollectRetained(s)
      PROVE  KeysMove
  <2> DEFINE terminal == "terminal"
             collected == "collected"
  <2>0. terminal \in {"terminal", "collected"} /\ collected \in {"terminal", "collected"}
    OBVIOUS
  <2>1. CASE EndSession(s)
    <3>1. /\ life[s] # "unused" /\ Retire(s) /\ life' = [life EXCEPT ![s] = terminal]
          /\ UNCHANGED <<control, used>>
      BY <2>1 DEF EndSession
    <3> HIDE DEF terminal
    <3> QED
      BY <2>0, <3>1, MoveRetire
  <2>2. CASE CollectRetained(s)
    <3>1. /\ life[s] # "unused" /\ Retire(s) /\ life' = [life EXCEPT ![s] = collected]
          /\ UNCHANGED <<control, used>>
      BY <2>2 DEF CollectRetained
    <3> HIDE DEF collected
    <3> QED
      BY <2>0, <3>1, MoveRetire
  <2> QED
    BY <1>6, <2>1, <2>2, MoveRelease
<1>7. ASSUME NEW s \in Session, NEW g \in ObserverGrant, AttachObserver(s, g)
      PROVE  KeysMove
  BY <1>7, MoveNothing DEF AttachObserver
<1>8. ASSUME NEW g \in ObserverGrant, RevokeObserver(g)
      PROVE  KeysMove
  BY <1>8, MoveNothing DEF RevokeObserver
<1>9. ASSUME NEW g \in HostGrant, MintHost(g) \/ RevokeHost(g)
      PROVE  KeysMove
  BY <1>9, MoveNothing DEF MintHost, RevokeHost
<1>10. ASSUME NEW g \in Grant, Expire(g)
      PROVE  KeysMove
  BY <1>10, MoveNothing DEF Expire
<1> QED
  BY <1>1, <1>2, <1>3, <1>4, <1>5, <1>6, <1>7, <1>8, <1>9, <1>10 DEF Next, KeyedSession

\* dispatch.rs, create_replay and session_grant: a replayed create hands out the
\* control token while it is the session's and never later, and a replayed mint
\* knows its grant: the list of ids, which the code trims, never loses one.
THEOREM ReplaysAreResolved == Spec => []ReplaysResolve
<1>1. KeyInv => ReplaysResolve
  <2> SUFFICES ASSUME KeyInv PROVE ReplaysResolve
    OBVIOUS
  <2>1. /\ \A s \in Session : TokenOK(s)
        /\ \A e \in Entries(keys[CreateScope]) : CreatedOK(e) /\ e.state \in {"refused", "live"}
    BY CreateFacts
  <2>2. ASSUME NEW s \in Session, NEW e \in Entries(keys[s]),
               e.call = "grant", e.state \in AppliedState
        PROVE  e.result \in ToSet(named[s])
    <3>1. NamedOK(s) /\ StoreOK(s)
      BY DEF KeyInv, SessionInv
    <3>2. e \in Mints(keys[s])
      BY <2>2, <3>1 DEF Mints, IsMint, StoreOK, AppliedState
    <3> QED
      BY <3>1, <3>2 DEF NamedOK
  <2> QED
    BY <2>1, <2>2 DEF ReplaysResolve, TokenOK, CreatedOK, AppliedState
<1> QED
  BY <1>1, KeyInit, KeyNext, PTL DEF Spec, KeysMove

\* What the stores and the history say of a key.
LEMMA OutcomeOf ==
    ASSUME KeyInv, NEW x \in Scope, NEW k \in Key
    PROVE  Outcome(x, k) = IF <<x, k>> \in used
                           THEN IF Has(x, k, "live") THEN "applied" ELSE "spent"
                           ELSE IF Has(x, k, "refused") THEN "refused" ELSE "none"
<1>1. keys[x] \in Stores /\ StoreOK(x) /\ EffectsOK(x)
  BY DEF KeyInv, KeyTypes, SessionInv, CreateInv, Scope
<1>2. CASE k \in KeysOf(keys[x])
  <2> DEFINE e == EntryOf(keys[x], k)
  <2>1. e \in Entries(keys[x]) /\ e.key = k
    BY <1>1, <1>2, KeyIs
  <2>2. \A state : Has(x, k, state) <=> e.state = state
    <3>1. \A f \in Entries(keys[x]) : f.key = k => f = e
      BY <1>1, EntryIs
    <3> HIDE DEF e
    <3> QED
      BY <2>1, <3>1 DEF Has
  <2>3. Remembered(x, k) = e.state
    BY <1>2 DEF Remembered
  <2>4. e.state \in {"refused", "live"} /\ (e.state = "live" => <<x, k>> \in used)
    BY <1>1, <2>1 DEF StoreOK
  <2>5. <<x, k>> \in used /\ e.state # "live" => x \in Session /\ life[x] # "live"
    BY <1>1, <2>2 DEF EffectsOK, Over
  <2> HIDE DEF e
  <2>6. Has(x, k, "live") <=> e.state = "live"
    BY <2>2
  <2>7. Has(x, k, "refused") <=> e.state = "refused"
    BY <2>2
  <2> QED
    BY <2>3, <2>4, <2>5, <2>6, <2>7 DEF Outcome, AppliedState
<1>3. CASE k \notin KeysOf(keys[x])
  <2>1. Remembered(x, k) = "none"
    BY <1>3 DEF Remembered
  <2>2. ~Has(x, k, "live") /\ ~Has(x, k, "refused")
    BY <1>3 DEF Has, KeysOf
  <2>3. <<x, k>> \in used => x \in Session /\ life[x] # "live"
    BY <1>1, <2>2 DEF EffectsOK, Over
  <2> QED
    BY <2>1, <2>2, <2>3 DEF Outcome, AppliedState
<1> QED
  BY <1>2, <1>3

\* A step of the handlers is a step of the promise, or none.
LEMMA OutcomeMoves ==
    ASSUME KeyInv, KeysMove, NEW x \in Scope, NEW k \in Key, Outcome(x, k)' # Outcome(x, k)
    PROVE  <<Outcome(x, k), Outcome(x, k)'>> \in
             {<<"none", "refused">>, <<"none", "applied">>, <<"refused", "none">>,
              <<"applied", "spent">>}
<1>1. Outcome(x, k) = IF <<x, k>> \in used
                      THEN IF Has(x, k, "live") THEN "applied" ELSE "spent"
                      ELSE IF Has(x, k, "refused") THEN "refused" ELSE "none"
  BY OutcomeOf
<1>2. Outcome(x, k)' = IF <<x, k>> \in used'
                       THEN IF Has(x, k, "live")' THEN "applied" ELSE "spent"
                       ELSE IF Has(x, k, "refused")' THEN "refused" ELSE "none"
  <2>1. (KeyInv => Outcome(x, k) = IF <<x, k>> \in used
                      THEN IF Has(x, k, "live") THEN "applied" ELSE "spent"
                      ELSE IF Has(x, k, "refused") THEN "refused" ELSE "none")'
    BY OutcomeOf, PTL
  <2> QED
    BY <2>1 DEF KeysMove, Scope
<1>3. /\ <<x, k>> \in used => <<x, k>> \in used'
      /\ <<x, k>> \in used /\ Has(x, k, "live")' => Has(x, k, "live")
      /\ <<x, k>> \in used' /\ <<x, k>> \notin used => ~Has(x, k, "refused") /\ Has(x, k, "live")'
  BY DEF KeysMove, ScopeMoves
<1> QED
  BY <1>1, <1>2, <1>3

\* idempotency.rs: the stores, through evictions, refusals, retries of either and
\* the end of sessions, implement a key that takes effect at most once.
THEOREM EffectsHappenOnce == Spec => AppliesAtMostOnce
<1> DEFINE outcome == [slot \in Slots |-> Outcome(slot[1], slot[2])]
<1>1. Init => Promise!Init
  <2> SUFFICES ASSUME Init, NEW x \in Scope, NEW k \in Key PROVE Outcome(x, k) = "none"
    BY DEF Promise!Init, Slots
  <2>1. KeyInv /\ <<x, k>> \notin used /\ Entries(keys[x]) = {}
    BY KeyInit, EmptyStore DEF Init
  <2> QED
    BY <2>1, OutcomeOf DEF Has
<1>2. KeyInv /\ KeysMove => [Promise!Next]_outcome
  <2> SUFFICES ASSUME KeyInv, KeysMove PROVE Promise!Next
    OBVIOUS
  <2>1. ASSUME NEW x \in Scope, NEW k \in Key PROVE Outcome(x, k)' \in {"none", "refused", "applied", "spent"}
    <3>1. Outcome(x, k) \in {"none", "refused", "applied", "spent"}
      BY OutcomeOf
    <3> QED
      BY <3>1, OutcomeMoves
  <2> QED
    BY <2>1, OutcomeMoves DEF Promise!Next, Promise!Outcomes, Promise!Moves, Slots
<1> QED
  BY <1>1, <1>2, KeyInit, KeyNext, PTL DEF Spec, KeysMove, AppliesAtMostOnce, Promise!Spec
=============================================================================
