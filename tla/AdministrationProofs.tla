------------------------- MODULE AdministrationProofs --------------------------
(***************************************************************************)
(* Proofs of module Administration.  Each service is proved about by itself,   *)
(* with its own specification and its own inductive invariant: sessions, reports *)
(* and their metrics, the request board, the daily statistics, the catalogue of  *)
(* apps and the policies on the phones; permissions and accounts are those of     *)
(* AccessProofs.  The last section shows that a behaviour of them all is one of   *)
(* each, and takes the invariants of Administration from there.                *)
(***************************************************************************)
EXTENDS Administration, Sequences, FiniteSetTheorems, TLAPS

-----------------------------------------------------------------------------
(* Sessions. *)

\* An access token is issued within the absolute limit of the login it goes back to,
\* and a refresh token knows when that was.
SessionInv ==
    /\ now \in 1..MaxTime
    /\ logins \in [Account -> SUBSET Nat]
    /\ access \subseteq [account : Account, expires : Nat, login : Nat]
    /\ refresh \subseteq [account : Account, expires : Nat, started : 1..now,
                          last : 1..now, login : Nat]
    /\ \A t \in access \cup refresh : t.login \in logins[t.account]
    /\ \A t \in access : t.expires <= t.login + Absolute + AccessLife
    /\ \A t \in refresh : t.started = t.login /\ t.started <= t.last

\* Nobody has logged in.
LEMMA SessionsStart == Sessions!Init => SessionInv
BY AdministrationAssumption DEF Sessions!Init, SessionInv, Sessions!SessionAssumption

\* login: the session starts now.
LEMMA LoginKeeps ==
  ASSUME SessionInv, NEW a \in Account, Sessions!Login(a) PROVE SessionInv'
<1>1. {AccessLife, RefreshLife, Absolute} \subseteq Nat /\ now \in Nat /\ now > 0
  BY AdministrationAssumption DEF Sessions!SessionAssumption, SessionInv
<1>2. /\ now' = now /\ logins' \in [Account -> SUBSET Nat]
      /\ \A b \in Account : logins[b] \subseteq logins'[b]
      /\ now \in logins'[a]
  BY <1>1 DEF Sessions!Login, SessionInv
<1>3. ASSUME NEW t \in access'
      PROVE  /\ t \in [account : Account, expires : Nat, login : Nat]
             /\ t.login \in logins'[t.account]
             /\ t.expires <= t.login + Absolute + AccessLife
  BY <1>1, <1>2, <1>3 DEF Sessions!Login, Sessions!Access, SessionInv
<1>4. ASSUME NEW t \in refresh'
      PROVE  /\ t \in [account : Account, expires : Nat, started : 1..now,
                       last : 1..now, login : Nat]
             /\ t.login \in logins'[t.account]
             /\ t.started = t.login /\ t.started <= t.last
  BY <1>1, <1>2, <1>4 DEF Sessions!Login, SessionInv
<1> QED BY <1>2, <1>3, <1>4 DEF SessionInv

\* refresh: the token that is shown passed the absolute limit, and its login stays.
LEMMA RefreshKeeps ==
  ASSUME SessionInv, NEW s \in refresh, Sessions!Refresh(s) PROVE SessionInv'
<1>1. {AccessLife, RefreshLife, Absolute} \subseteq Nat /\ now \in Nat /\ now > 0
  BY AdministrationAssumption DEF Sessions!SessionAssumption, SessionInv
<1>2. /\ s \in [account : Account, expires : Nat, started : 1..now,
                last : 1..now, login : Nat]
      /\ s.login \in logins[s.account]
      /\ s.started = s.login /\ s.started <= s.last
      /\ now - s.started <= Absolute
  BY DEF Sessions!Refresh, SessionInv
<1>3. ASSUME NEW t \in access'
      PROVE  /\ t \in [account : Account, expires : Nat, login : Nat]
             /\ t.login \in logins[t.account]
             /\ t.expires <= t.login + Absolute + AccessLife
  <2>1. CASE t \in access
    BY <2>1 DEF SessionInv
  <2>2. CASE t = [account |-> s.account, expires |-> now + AccessLife, login |-> s.login]
    BY <1>1, <1>2, <2>2
  <2> QED BY <1>3, <2>1, <2>2 DEF Sessions!Refresh, Sessions!Access
<1>4. ASSUME NEW t \in refresh'
      PROVE  /\ t \in [account : Account, expires : Nat, started : 1..now,
                       last : 1..now, login : Nat]
             /\ t.login \in logins[t.account]
             /\ t.started = t.login /\ t.started <= t.last
  <2>1. CASE t \in refresh
    BY <2>1 DEF SessionInv
  <2>2. CASE t = [s EXCEPT !.expires = now + RefreshLife, !.last = now]
    <3>1. t = [account |-> s.account, expires |-> now + RefreshLife,
               started |-> s.started, last |-> now, login |-> s.login]
      BY <1>2, <2>2
    <3>2. now + RefreshLife \in Nat /\ now \in 1..now /\ s.started \in 1..now
      BY <1>1, <1>2
    <3> QED BY <1>2, <3>1, <3>2
  <2> QED BY <1>4, <2>1, <2>2 DEF Sessions!Refresh, Sessions!Renewed
<1>5. now' = now /\ logins' = logins
  BY DEF Sessions!Refresh
<1> QED BY <1>3, <1>4, <1>5 DEF SessionInv

\* Time passes: what is left of the tokens is as it was.
LEMMA TickKeeps == ASSUME SessionInv, Sessions!Tick PROVE SessionInv'
<1>1. now' = now + 1 /\ now' \in 1..MaxTime /\ 1..now \subseteq 1..now' /\ logins' = logins
  BY AdministrationAssumption DEF Sessions!SessionAssumption, Sessions!Tick, SessionInv
<1>2. access' \subseteq access /\ refresh' \subseteq refresh
  BY DEF Sessions!Tick
<1>3. refresh' \subseteq [account : Account, expires : Nat, started : 1..now',
                          last : 1..now', login : Nat]
  BY <1>1, <1>2 DEF SessionInv
<1> QED BY <1>1, <1>2, <1>3 DEF SessionInv

\* Every step keeps the invariant.
LEMMA SessionsStep ==
  ASSUME SessionInv, [Sessions!Next]_(Sessions!sessionVars) PROVE SessionInv'
<1>1. CASE UNCHANGED Sessions!sessionVars
  BY <1>1 DEF Sessions!sessionVars, SessionInv
<1>2. CASE \E a \in Account : Sessions!Login(a)
  BY <1>2, LoginKeeps
<1>3. CASE \E a \in Account, s \in {"ACTIVE", "INACTIVE"} : Sessions!SetState(a, s)
  BY <1>3 DEF Sessions!SetState, SessionInv
<1>4. CASE \E t \in refresh : Sessions!Refresh(t)
  BY <1>4, RefreshKeeps
<1>5. CASE \E t \in access : Sessions!Validate(t)
  BY <1>5 DEF Sessions!Validate, SessionInv
<1>6. CASE Sessions!Tick
  BY <1>6, TickKeeps
<1> QED BY <1>1, <1>2, <1>3, <1>4, <1>5, <1>6 DEF Sessions!Next

LEMMA SessionsAlways == Sessions!Spec => []SessionInv
BY SessionsStart, SessionsStep, PTL DEF Sessions!Spec

\* Every token goes back to a login.
THEOREM SessionsTyped == Sessions!Spec => []Sessions!TypeOK
<1>1. SessionInv => Sessions!TypeOK
  BY AdministrationAssumption DEF Sessions!SessionAssumption, SessionInv, Sessions!TypeOK
<1> QED BY <1>1, SessionsAlways, PTL

\* refresh, issueTokensFromRefresh: however often a session is refreshed, and with
\* whichever of its tokens, nothing is accepted once the absolute limit and the life of
\* one access token have passed since its login.
THEOREM SessionsAreBounded == Sessions!Spec => []Sessions!SessionsEnd
<1>1. SessionInv => Sessions!SessionsEnd
  <2> SUFFICES ASSUME SessionInv, NEW t \in access, now < t.expires
               PROVE  now < t.login + Absolute + AccessLife
    BY DEF Sessions!SessionsEnd, Sessions!Accepted
  <2>1. /\ now \in Nat /\ t.expires \in Nat /\ t.login \in Nat
        /\ AccessLife \in Nat /\ Absolute \in Nat
        /\ t.expires <= t.login + Absolute + AccessLife
    BY AdministrationAssumption DEF Sessions!SessionAssumption, SessionInv
  <2> QED BY <2>1
<1> QED BY <1>1, SessionsAlways, PTL

-----------------------------------------------------------------------------
(* The settings of the reports and the scores. *)

\* What the settings in force are: those that were checked, or the defaults.
InForce(s) == s \in Metrics!Values /\ Metrics!Logical(s)

\* Only what passed ensureLogicalThresholds is stored or on its way.
MetricInv ==
    /\ \/ setting = Metrics!NoSetting
       \/ setting \in Setting /\ Metrics!Logical(setting)
    /\ saves \in 0..MaxSettings
    /\ DOMAIN save = Client
    /\ \A w \in Client :
         \/ save[w] = Metrics!None
         \/ /\ save[w].pc \in {"update", "insert"}
            /\ save[w] = [pc |-> save[w].pc, value |-> save[w].value]
            /\ save[w].value \in Setting /\ Metrics!Logical(save[w].value)
            /\ saves > 0

LEMMA MetricsStart == ASSUME Metrics!Init PROVE MetricInv
<1>1. 0 \in 0..MaxSettings
  BY AdministrationAssumption DEF Metrics!MetricsAssumption
<1>2. setting = Metrics!NoSetting /\ saves = 0 /\ save = [w \in Client |-> Metrics!None]
  BY DEF Metrics!Init
<1> QED BY <1>1, <1>2 DEF MetricInv

\* update: what is checked is what is stored.
LEMMA MetricsStep ==
  ASSUME MetricInv, [Metrics!Next]_(Metrics!metricVars) PROVE MetricInv'
<1>. MaxSettings \in Nat
  BY AdministrationAssumption DEF Metrics!MetricsAssumption
<1>1. CASE UNCHANGED Metrics!metricVars
  BY <1>1 DEF Metrics!metricVars, MetricInv
<1>2. ASSUME NEW w \in Client, NEW s \in Setting, Metrics!Check(w, s) PROVE MetricInv'
  <2>1. saves' = saves + 1 /\ saves' \in 0..MaxSettings /\ saves' > 0 /\ setting' = setting
    BY <1>2 DEF Metrics!Check, MetricInv
  <2>2. /\ save' = [save EXCEPT ![w] = [pc |-> "update", value |-> s]]
        /\ Metrics!Logical(s)
    BY <1>2 DEF Metrics!Check
  <2>3. ASSUME NEW v \in Client
        PROVE \/ save'[v] = Metrics!None
              \/ /\ save'[v].pc \in {"update", "insert"}
                 /\ save'[v] = [pc |-> save'[v].pc, value |-> save'[v].value]
                 /\ save'[v].value \in Setting /\ Metrics!Logical(save'[v].value)
                 /\ saves' > 0
    <3>1. CASE v = w
      BY <2>1, <2>2, <3>1 DEF MetricInv
    <3>2. CASE v # w
      <4>1. save'[v] = save[v]
        BY <2>2, <3>2 DEF MetricInv
      <4> QED BY <2>1, <4>1 DEF MetricInv
    <3> QED BY <3>1, <3>2
  <2>4. DOMAIN save' = Client
    BY <2>2 DEF MetricInv
  <2> QED BY <2>1, <2>3, <2>4 DEF MetricInv
<1>3. ASSUME NEW w \in Client, Metrics!UpdateRow(w) \/ Metrics!InsertRow(w)
      PROVE  MetricInv'
  <2>1. /\ saves' = saves /\ save[w].pc \in {"update", "insert"}
        /\ save[w] = [pc |-> save[w].pc, value |-> save[w].value]
        /\ save[w].value \in Setting /\ Metrics!Logical(save[w].value) /\ saves > 0
    BY <1>3 DEF Metrics!UpdateRow, Metrics!InsertRow, MetricInv, Metrics!None
  <2>2. \/ save' = [save EXCEPT ![w] = Metrics!None]
        \/ save' = [save EXCEPT ![w].pc = "insert"]
    BY <1>3 DEF Metrics!UpdateRow, Metrics!InsertRow
  <2>3. setting' = setting \/ setting' = save[w].value
    BY <1>3 DEF Metrics!UpdateRow, Metrics!InsertRow
  <2>4. ASSUME NEW v \in Client
        PROVE \/ save'[v] = Metrics!None
              \/ /\ save'[v].pc \in {"update", "insert"}
                 /\ save'[v] = [pc |-> save'[v].pc, value |-> save'[v].value]
                 /\ save'[v].value \in Setting /\ Metrics!Logical(save'[v].value)
                 /\ saves' > 0
    <3>1. CASE v = w
      <4>1. \/ save'[v] = Metrics!None
            \/ save'[v] = [pc |-> "insert", value |-> save[w].value]
        BY <2>1, <2>2, <3>1 DEF MetricInv
      <4> QED BY <2>1, <4>1
    <3>2. CASE v # w
      <4>1. save'[v] = save[v]
        BY <2>2, <3>2 DEF MetricInv
      <4> QED BY <2>1, <4>1 DEF MetricInv
    <3> QED BY <3>1, <3>2
  <2>5. DOMAIN save' = Client
    BY <2>2 DEF MetricInv
  <2> QED BY <2>1, <2>3, <2>4, <2>5 DEF MetricInv
<1> QED BY <1>1, <1>2, <1>3 DEF Metrics!Next

LEMMA MetricsAlways == Metrics!Spec => []MetricInv
BY MetricsStart, MetricsStep, PTL DEF Metrics!Spec

LEMMA CurrentInForce == ASSUME MetricInv PROVE InForce(Metrics!CurrentValues)
<1>1. InForce(Metrics!Defaults)
  BY DEF InForce, Metrics!Defaults, Metrics!Logical, Metrics!Values, Metrics!Weight,
         Metrics!Tenths, Metrics!Hundredths
<1>2. ASSUME setting \in Setting, Metrics!Logical(setting) PROVE InForce(setting)
  <2>1. Metrics!MetricsAssumption
    BY AdministrationAssumption
  <2> QED BY <1>2, <2>1 DEF Metrics!MetricsAssumption, InForce
<1> QED BY <1>1, <1>2 DEF MetricInv, Metrics!CurrentValues

\* Only settings that were accepted are stored.
THEOREM MetricsTyped == Metrics!Spec => []Metrics!TypeOK
<1>1. MetricInv => Metrics!TypeOK
  BY DEF MetricInv, Metrics!TypeOK, Metrics!None
<1> QED BY <1>1, MetricsAlways, PTL

\* Rounding keeps the order and what is whole.
LEMMA RoundOrder ==
  ASSUME NEW a \in Nat, NEW b \in Nat, NEW d \in Nat, d > 0, a <= b
  PROVE  /\ Metrics!Round(a, d) \in Nat /\ Metrics!Round(b, d) \in Nat
         /\ Metrics!Round(a, d) <= Metrics!Round(b, d)
<1>1. 2 * a + d <= 2 * b + d /\ 2 * d > 0 /\ 2 * a + d >= 0
  OBVIOUS
<1>2. ASSUME NEW x \in Int, NEW y \in Int, NEW k \in Int, k > 0, 0 <= x, x <= y
      PROVE  x \div k \in Nat /\ y \div k \in Nat /\ x \div k <= y \div k
  BY <1>2
<1> QED BY <1>1, <1>2 DEF Metrics!Round

LEMMA RoundWhole ==
  ASSUME NEW q \in Nat, NEW d \in Nat, d > 0
  PROVE  Metrics!Round(q * d, d) = q
<1>1. ASSUME NEW r \in Int, NEW k \in Int, k > 0, 0 <= r, r < k
      PROVE  (k * q + r) \div k = q
  BY <1>1
<1>2. ((2 * d) * q + d) \div (2 * d) = q
  BY <1>1
<1>3. 2 * (q * d) + d = (2 * d) * q + d
  OBVIOUS
<1> QED BY <1>2, <1>3 DEF Metrics!Round

\* calculateRiskScoreForBelowThreshold, calculateRiskScoreForAboveThreshold: scores are
\* 0 up to the warning and 1000 from the danger on, and do not fall in between.
LEMMA ScoreBelowOrder ==
  ASSUME NEW x \in Nat, NEW y \in Nat, NEW w \in Nat, NEW d \in Nat, d < w, x <= y
  PROVE  /\ Metrics!ScoreBelow(x, w, d) \in 0..1000 /\ Metrics!ScoreBelow(y, w, d) \in 0..1000
         /\ Metrics!ScoreBelow(y, w, d) <= Metrics!ScoreBelow(x, w, d)
<1>1. ASSUME NEW z \in Nat, d < z, z < w
      PROVE  Metrics!Round(400 * (w - z), w - d) \in 0..400
  <2>1. 400 * (w - z) \in Nat /\ 400 * (w - d) \in Nat /\ w - d \in Nat /\ w - d > 0
        /\ 400 * (w - z) <= 400 * (w - d)
    BY <1>1
  <2>2. Metrics!Round(400 * (w - d), w - d) = 400
    BY <2>1, RoundWhole
  <2>3. /\ Metrics!Round(400 * (w - z), w - d) \in Nat
        /\ Metrics!Round(400 * (w - z), w - d) <= Metrics!Round(400 * (w - d), w - d)
    BY <2>1, RoundOrder
  <2> QED BY <2>2, <2>3
<1>2. ASSUME d < x, y < w
      PROVE  Metrics!Round(400 * (w - y), w - d) <= Metrics!Round(400 * (w - x), w - d)
  <2>1. 400 * (w - y) \in Nat /\ 400 * (w - x) \in Nat /\ w - d \in Nat /\ w - d > 0
        /\ 400 * (w - y) <= 400 * (w - x)
    BY <1>2
  <2> QED BY <2>1, RoundOrder
<1>3. ASSUME NEW z \in Nat PROVE Metrics!ScoreBelow(z, w, d) \in 0..1000
  <2>1. CASE z >= w
    BY <2>1 DEF Metrics!ScoreBelow
  <2>2. CASE z <= d
    BY <2>2 DEF Metrics!ScoreBelow
  <2>3. CASE d < z /\ z < w
    <3>1. Metrics!ScoreBelow(z, w, d) = 600 + Metrics!Round(400 * (w - z), w - d)
      BY <2>3 DEF Metrics!ScoreBelow
    <3> QED BY <1>1, <2>3, <3>1
  <2> QED BY <2>1, <2>2, <2>3
<1>4. CASE y >= w
  <2>1. Metrics!ScoreBelow(y, w, d) = 0
    BY <1>4 DEF Metrics!ScoreBelow
  <2>2. Metrics!ScoreBelow(x, w, d) \in 0..1000
    BY <1>3
  <2> QED BY <2>1, <2>2
<1>5. CASE x <= d
  <2>1. Metrics!ScoreBelow(x, w, d) = 1000
    BY <1>5 DEF Metrics!ScoreBelow
  <2>2. Metrics!ScoreBelow(y, w, d) \in 0..1000
    BY <1>3
  <2> QED BY <2>1, <2>2
<1>6. CASE d < x /\ y < w
  <2> DEFINE a == Metrics!Round(400 * (w - x), w - d)
             b == Metrics!Round(400 * (w - y), w - d)
  <2>1. Metrics!ScoreBelow(x, w, d) = 600 + a
    BY <1>6 DEF Metrics!ScoreBelow
  <2>2. Metrics!ScoreBelow(y, w, d) = 600 + b
    BY <1>6 DEF Metrics!ScoreBelow
  <2>3. a \in 0..400 /\ b \in 0..400 /\ b <= a
    BY <1>1, <1>2, <1>6
  <2> HIDE DEF a, b
  <2> QED BY <2>1, <2>2, <2>3
<1> QED BY <1>4, <1>5, <1>6

LEMMA ScoreAboveOrder ==
  ASSUME NEW x \in Nat, NEW y \in Nat, NEW w \in Nat, NEW d \in Nat, w < d, x <= y
  PROVE  /\ Metrics!ScoreAbove(x, w, d) \in 0..1000 /\ Metrics!ScoreAbove(y, w, d) \in 0..1000
         /\ Metrics!ScoreAbove(x, w, d) <= Metrics!ScoreAbove(y, w, d)
<1>1. ASSUME NEW z \in Nat, w < z, z < d
      PROVE  Metrics!Round(400 * (z - w), d - w) \in 0..400
  <2>1. 400 * (z - w) \in Nat /\ 400 * (d - w) \in Nat /\ d - w \in Nat /\ d - w > 0
        /\ 400 * (z - w) <= 400 * (d - w)
    BY <1>1
  <2>2. Metrics!Round(400 * (d - w), d - w) = 400
    BY <2>1, RoundWhole
  <2>3. /\ Metrics!Round(400 * (z - w), d - w) \in Nat
        /\ Metrics!Round(400 * (z - w), d - w) <= Metrics!Round(400 * (d - w), d - w)
    BY <2>1, RoundOrder
  <2> QED BY <2>2, <2>3
<1>2. ASSUME w < x, y < d
      PROVE  Metrics!Round(400 * (x - w), d - w) <= Metrics!Round(400 * (y - w), d - w)
  <2>1. 400 * (x - w) \in Nat /\ 400 * (y - w) \in Nat /\ d - w \in Nat /\ d - w > 0
        /\ 400 * (x - w) <= 400 * (y - w)
    BY <1>2
  <2> QED BY <2>1, RoundOrder
<1>3. ASSUME NEW z \in Nat PROVE Metrics!ScoreAbove(z, w, d) \in 0..1000
  <2>1. CASE z <= w
    BY <2>1 DEF Metrics!ScoreAbove
  <2>2. CASE z >= d
    BY <2>2 DEF Metrics!ScoreAbove
  <2>3. CASE w < z /\ z < d
    <3>1. Metrics!ScoreAbove(z, w, d) = 600 + Metrics!Round(400 * (z - w), d - w)
      BY <2>3 DEF Metrics!ScoreAbove
    <3> QED BY <1>1, <2>3, <3>1
  <2> QED BY <2>1, <2>2, <2>3
<1>4. CASE x <= w
  <2>1. Metrics!ScoreAbove(x, w, d) = 0
    BY <1>4 DEF Metrics!ScoreAbove
  <2>2. Metrics!ScoreAbove(y, w, d) \in 0..1000
    BY <1>3
  <2> QED BY <2>1, <2>2
<1>5. CASE y >= d
  <2>1. Metrics!ScoreAbove(y, w, d) = 1000
    BY <1>5 DEF Metrics!ScoreAbove
  <2>2. Metrics!ScoreAbove(x, w, d) \in 0..1000
    BY <1>3
  <2> QED BY <2>1, <2>2
<1>6. CASE w < x /\ y < d
  <2> DEFINE a == Metrics!Round(400 * (x - w), d - w)
             b == Metrics!Round(400 * (y - w), d - w)
  <2>1. Metrics!ScoreAbove(x, w, d) = 600 + a
    BY <1>6 DEF Metrics!ScoreAbove
  <2>2. Metrics!ScoreAbove(y, w, d) = 600 + b
    BY <1>6 DEF Metrics!ScoreAbove
  <2>3. a \in 0..400 /\ b \in 0..400 /\ a <= b
    BY <1>1, <1>2, <1>6
  <2> HIDE DEF a, b
  <2> QED BY <2>1, <2>2, <2>3
<1> QED BY <1>4, <1>5, <1>6

\* The numbers of the settings in force.
LEMMA SettingTypes ==
  ASSUME NEW s, InForce(s)
  PROVE  /\ s.appWeight \in Nat /\ s.behaviorWeight \in Nat
         /\ s.complianceWeight \in Nat /\ s.violationsWeight \in Nat
         /\ s.complianceWeight + s.violationsWeight > 0
         /\ s.complianceWarning \in Nat /\ s.complianceDanger \in Nat
         /\ s.complianceDanger < s.complianceWarning
         /\ s.violationsWarning \in Nat /\ s.violationsDanger \in Nat
         /\ s.violationsWarning < s.violationsDanger
         /\ s.dangerMin \in Nat /\ s.dangerMin <= 1000
<1>1. /\ s.appWeight \in Nat /\ s.behaviorWeight \in Nat
      /\ s.complianceWeight \in Nat /\ s.violationsWeight \in Nat
      /\ s.complianceWarning \in Nat /\ s.complianceDanger \in Nat
      /\ s.violationsWarning \in Nat /\ s.violationsDanger \in Nat
      /\ s.dangerMin \in Nat /\ s.dangerMin <= 1000
  <2>1. /\ \A x \in Metrics!Weight : x \in Nat
        /\ \A x \in Metrics!Tenths : x \in Nat /\ x <= 1000
        /\ \A x \in Metrics!Hundredths : x \in Nat
    BY DEF Metrics!Weight, Metrics!Tenths, Metrics!Hundredths
  <2>2. /\ s.appWeight \in Metrics!Weight /\ s.behaviorWeight \in Metrics!Weight
        /\ s.complianceWeight \in Metrics!Weight /\ s.violationsWeight \in Metrics!Weight
        /\ s.complianceWarning \in Metrics!Tenths /\ s.complianceDanger \in Metrics!Tenths
        /\ s.violationsWarning \in Metrics!Hundredths
        /\ s.violationsDanger \in Metrics!Hundredths
        /\ s.dangerMin \in Metrics!Tenths
    BY DEF InForce, Metrics!Values
  <2> QED BY <2>1, <2>2
<1>2. /\ s.complianceWeight > 0 \/ s.violationsWeight > 0
      /\ s.complianceDanger < s.complianceWarning
      /\ s.violationsDanger > s.violationsWarning
  BY DEF InForce, Metrics!Logical
<1> QED BY <1>1, <1>2

SiteCount == [employees : {0, 1, 2, 4, 5}, apps : Nat, behaviors : Nat, events : Nat]

\* calculateComplianceRate: more blocks of as many events, no better rate.
LEMMA RateOrder ==
  ASSUME NEW s, InForce(s), NEW n \in SiteCount, NEW m \in SiteCount,
         Metrics!AtLeastAsBad(n, m), n.events > 0
  PROVE  /\ Metrics!ComplianceRate(n, s) \in Nat /\ Metrics!ComplianceRate(m, s) \in Nat
         /\ Metrics!ComplianceRate(n, s) <= Metrics!ComplianceRate(m, s)
<1> DEFINE bad == n.apps * s.appWeight + n.behaviors * s.behaviorWeight
           good == m.apps * s.appWeight + m.behaviors * s.behaviorWeight
<1>1. /\ n.events \in Nat /\ m.events = n.events
      /\ n.apps \in Nat /\ m.apps \in Nat /\ n.behaviors \in Nat /\ m.behaviors \in Nat
      /\ m.apps <= n.apps /\ m.behaviors <= n.behaviors
      /\ s.appWeight \in Nat /\ s.behaviorWeight \in Nat
  BY SettingTypes DEF SiteCount, Metrics!AtLeastAsBad
<1>2. bad \in Nat /\ good \in Nat /\ good <= bad
  <2>1. ASSUME NEW a \in Nat, NEW b \in Nat, NEW k \in Nat, a <= b
        PROVE  a * k \in Nat /\ b * k \in Nat /\ a * k <= b * k
    BY <2>1
  <2>2. /\ m.apps * s.appWeight \in Nat /\ n.apps * s.appWeight \in Nat
        /\ m.apps * s.appWeight <= n.apps * s.appWeight
    BY <1>1, <2>1
  <2>3. /\ m.behaviors * s.behaviorWeight \in Nat /\ n.behaviors * s.behaviorWeight \in Nat
        /\ m.behaviors * s.behaviorWeight <= n.behaviors * s.behaviorWeight
    BY <1>1, <2>1
  <2> QED BY <2>2, <2>3
<1> HIDE DEF bad, good
<1>3. ASSUME bad < n.events
      PROVE  /\ Metrics!Round(1000 * (n.events - bad), n.events) \in Nat
             /\ Metrics!Round(1000 * (n.events - good), n.events) \in Nat
             /\ Metrics!Round(1000 * (n.events - bad), n.events)
                  <= Metrics!Round(1000 * (n.events - good), n.events)
  <2>1. /\ 1000 * (n.events - bad) \in Nat /\ 1000 * (n.events - good) \in Nat
        /\ 1000 * (n.events - bad) <= 1000 * (n.events - good)
    BY <1>1, <1>2, <1>3
  <2>2. ASSUME NEW a \in Nat, NEW b \in Nat, a <= b
        PROVE  /\ Metrics!Round(a, n.events) \in Nat /\ Metrics!Round(b, n.events) \in Nat
               /\ Metrics!Round(a, n.events) <= Metrics!Round(b, n.events)
    BY <1>1, <2>2, RoundOrder
  <2> QED BY <2>1, <2>2
<1>4. ASSUME good < n.events
      PROVE  Metrics!Round(1000 * (n.events - good), n.events) \in Nat
  <2>1. 1000 * (n.events - good) \in Nat
    BY <1>1, <1>2, <1>4
  <2>2. ASSUME NEW a \in Nat PROVE Metrics!Round(a, n.events) \in Nat
    BY <1>1, RoundOrder
  <2> QED BY <2>1, <2>2
<1>5. Metrics!ComplianceRate(n, s) =
        IF bad >= n.events THEN 0
        ELSE Metrics!Clamp(Metrics!Round(1000 * (n.events - bad), n.events))
  BY <1>1 DEF Metrics!ComplianceRate, bad
<1>6. Metrics!ComplianceRate(m, s) =
        IF good >= n.events THEN 0
        ELSE Metrics!Clamp(Metrics!Round(1000 * (n.events - good), n.events))
  BY <1>1 DEF Metrics!ComplianceRate, good
<1> QED BY <1>1, <1>2, <1>3, <1>4, <1>5, <1>6 DEF Metrics!Clamp

\* As many people, more violations of each.
LEMMA PerEmployeeOrder ==
  ASSUME NEW n \in SiteCount, NEW m \in SiteCount, Metrics!AtLeastAsBad(n, m)
  PROVE  /\ Metrics!ViolationsPerEmployee(n) \in Nat
         /\ Metrics!ViolationsPerEmployee(m) \in Nat
         /\ Metrics!ViolationsPerEmployee(m) <= Metrics!ViolationsPerEmployee(n)
<1> DEFINE k == IF n.employees > 0 THEN n.employees ELSE 1
<1>1. k \in Nat /\ k > 0 /\ m.employees = n.employees
  BY DEF SiteCount, Metrics!AtLeastAsBad
<1>2. /\ 100 * Metrics!Violations(m) \in Nat /\ 100 * Metrics!Violations(n) \in Nat
      /\ 100 * Metrics!Violations(m) <= 100 * Metrics!Violations(n)
  BY DEF SiteCount, Metrics!AtLeastAsBad, Metrics!Violations
<1>3. ASSUME NEW x \in Nat, NEW y \in Nat, x <= y
      PROVE  x \div k \in Nat /\ y \div k \in Nat /\ x \div k <= y \div k
  BY <1>1, <1>3
<1>4. /\ Metrics!ViolationsPerEmployee(n) = (100 * Metrics!Violations(n)) \div k
      /\ Metrics!ViolationsPerEmployee(m) = (100 * Metrics!Violations(m)) \div k
  BY <1>1 DEF Metrics!ViolationsPerEmployee
<1> QED BY <1>2, <1>3, <1>4
\* calculateSiteRiskAssessment: more violations never make a site look better.
LEMMA ScoreOrder ==
  ASSUME NEW s, InForce(s), NEW n \in SiteCount, NEW m \in SiteCount,
         Metrics!AtLeastAsBad(n, m)
  PROVE  Metrics!RiskScore(n, s) >= Metrics!RiskScore(m, s)
<1> DEFINE weight == IF n.events = 0 THEN 0 ELSE s.complianceWeight
           rate(x) == Metrics!ComplianceRate(x, s)
           first(x) == IF n.events = 0 THEN 0
                       ELSE Metrics!ScoreBelow(rate(x), s.complianceWarning,
                                               s.complianceDanger)
           second(x) == Metrics!ScoreAbove(Metrics!ViolationsPerEmployee(x),
                                           s.violationsWarning, s.violationsDanger)
           total == weight + s.violationsWeight
           points(x) == first(x) * weight + second(x) * s.violationsWeight
<1>1. /\ n.events \in Nat /\ m.events = n.events
      /\ weight \in Nat /\ s.violationsWeight \in Nat /\ total \in Nat
      /\ s.complianceWarning \in Nat /\ s.complianceDanger \in Nat
      /\ s.complianceDanger < s.complianceWarning
      /\ s.violationsWarning \in Nat /\ s.violationsDanger \in Nat
      /\ s.violationsWarning < s.violationsDanger
  BY SettingTypes DEF SiteCount, Metrics!AtLeastAsBad
<1>2. \A x \in {n, m} : (rate(x) = Metrics!NoRate) <=> n.events = 0
  <2>1. CASE n.events = 0
    BY <1>1, <2>1 DEF Metrics!ComplianceRate
  <2>2. CASE n.events > 0
    BY <1>1, <2>2, RateOrder DEF Metrics!NoRate
  <2> QED BY <1>1, <2>1, <2>2
<1>3. first(n) \in Nat /\ first(m) \in Nat /\ first(m) <= first(n)
  <2>1. CASE n.events = 0
    BY <2>1
  <2>2. CASE n.events > 0
    <3>1. rate(n) \in Nat /\ rate(m) \in Nat /\ rate(n) <= rate(m)
      BY <2>2, RateOrder
    <3> HIDE DEF rate
    <3> DEFINE w == s.complianceWarning
               d == s.complianceDanger
    <3>4. w \in Nat /\ d \in Nat /\ d < w
      BY <1>1
    <3> HIDE DEF w, d
    <3>5. /\ Metrics!ScoreBelow(rate(n), w, d) \in 0..1000
          /\ Metrics!ScoreBelow(rate(m), w, d) \in 0..1000
          /\ Metrics!ScoreBelow(rate(m), w, d) <= Metrics!ScoreBelow(rate(n), w, d)
      <4> DEFINE a == rate(n)
                 b == rate(m)
      <4>1. a \in Nat /\ b \in Nat /\ a <= b
        BY <3>1
      <4> HIDE DEF a, b
      <4>2. /\ Metrics!ScoreBelow(a, w, d) \in 0..1000
            /\ Metrics!ScoreBelow(b, w, d) \in 0..1000
            /\ Metrics!ScoreBelow(b, w, d) <= Metrics!ScoreBelow(a, w, d)
        BY <3>4, <4>1, ScoreBelowOrder
      <4> QED BY <4>2 DEF a, b
    <3>2. /\ Metrics!ScoreBelow(rate(n), s.complianceWarning, s.complianceDanger) \in 0..1000
          /\ Metrics!ScoreBelow(rate(m), s.complianceWarning, s.complianceDanger)
               <= Metrics!ScoreBelow(rate(n), s.complianceWarning, s.complianceDanger)
      BY <3>5 DEF w, d
    <3>3. Metrics!ScoreBelow(rate(m), s.complianceWarning, s.complianceDanger) \in 0..1000
      BY <3>5 DEF w, d
    <3> QED BY SMTT(30), <2>2, <3>2, <3>3
  <2> QED BY <1>1, <2>1, <2>2
<1>4. second(n) \in Nat /\ second(m) \in Nat /\ second(m) <= second(n)
  <2> DEFINE v(x) == Metrics!ViolationsPerEmployee(x)
             w == s.violationsWarning
             d == s.violationsDanger
  <2>1. v(n) \in Nat /\ v(m) \in Nat /\ v(m) <= v(n)
    BY PerEmployeeOrder
  <2>2. w \in Nat /\ d \in Nat /\ w < d
    BY <1>1
  <2>3. \A x \in {n, m} : second(x) = Metrics!ScoreAbove(v(x), w, d)
    OBVIOUS
  <2> HIDE DEF v, w, d, second
  <2>4. /\ Metrics!ScoreAbove(v(m), w, d) \in 0..1000
        /\ Metrics!ScoreAbove(v(n), w, d) \in 0..1000
        /\ Metrics!ScoreAbove(v(m), w, d) <= Metrics!ScoreAbove(v(n), w, d)
    <3> DEFINE a == v(m)
               b == v(n)
    <3>1. a \in Nat /\ b \in Nat /\ a <= b
      BY <2>1
    <3> HIDE DEF a, b
    <3>2. /\ Metrics!ScoreAbove(a, w, d) \in 0..1000
          /\ Metrics!ScoreAbove(b, w, d) \in 0..1000
          /\ Metrics!ScoreAbove(a, w, d) <= Metrics!ScoreAbove(b, w, d)
      BY <2>2, <3>1, ScoreAboveOrder
    <3> QED BY <3>2 DEF a, b
  <2> QED BY <2>3, <2>4
<1>5. \A x \in {n, m} : Metrics!RiskScore(x, s) =
         IF total = 0 THEN 0 ELSE Metrics!Clamp(Metrics!Round(points(x), total))
  BY <1>2 DEF Metrics!RiskScore
<1> HIDE DEF weight, first, second, rate
<1>6. points(n) \in Nat /\ points(m) \in Nat /\ points(m) <= points(n)
  <2>1. ASSUME NEW a \in Nat, NEW b \in Nat, NEW k \in Nat, a <= b
        PROVE  a * k \in Nat /\ b * k \in Nat /\ a * k <= b * k
    BY <2>1
  <2>2. /\ first(m) * weight \in Nat /\ first(n) * weight \in Nat
        /\ first(m) * weight <= first(n) * weight
    BY <1>1, <1>3, <2>1
  <2>3. /\ second(m) * s.violationsWeight \in Nat /\ second(n) * s.violationsWeight \in Nat
        /\ second(m) * s.violationsWeight <= second(n) * s.violationsWeight
    BY <1>1, <1>4, <2>1
  <2> QED BY <2>2, <2>3
<1> HIDE DEF points, total
<1>7. CASE total = 0
  BY <1>5, <1>7
<1>8. CASE total > 0
  <2>1. /\ Metrics!Round(points(m), total) \in Nat /\ Metrics!Round(points(n), total) \in Nat
        /\ Metrics!Round(points(m), total) <= Metrics!Round(points(n), total)
    BY <1>1, <1>6, <1>8, RoundOrder
  <2> QED BY <1>5, <1>8, <2>1 DEF Metrics!Clamp
<1> QED BY <1>1, <1>7, <1>8

\* Past both danger thresholds the score is 1000, which no level is above.
LEMMA WorstIsDanger ==
  ASSUME NEW s, InForce(s), NEW n \in SiteCount, n.events > 0,
         Metrics!ComplianceRate(n, s) <= s.complianceDanger,
         Metrics!ViolationsPerEmployee(n) >= s.violationsDanger
  PROVE  Metrics!RiskLevel(n, s) = "danger"
<1> DEFINE total == s.complianceWeight + s.violationsWeight
<1>1. /\ s.complianceWeight \in Nat /\ s.violationsWeight \in Nat /\ total > 0
      /\ s.complianceWarning \in Nat /\ s.complianceDanger \in Nat
      /\ s.complianceDanger < s.complianceWarning
      /\ s.violationsWarning \in Nat /\ s.violationsDanger \in Nat
      /\ s.violationsWarning < s.violationsDanger
      /\ s.dangerMin \in Nat /\ s.dangerMin <= 1000
  BY SettingTypes
<1>2. Metrics!AtLeastAsBad(n, n)
  BY DEF Metrics!AtLeastAsBad, SiteCount
<1>3. Metrics!ComplianceRate(n, s) \in Nat /\ Metrics!ViolationsPerEmployee(n) \in Nat
  BY <1>2, RateOrder, PerEmployeeOrder
<1>4. Metrics!ScoreBelow(Metrics!ComplianceRate(n, s), s.complianceWarning,
                         s.complianceDanger) = 1000
  BY <1>1, <1>3 DEF Metrics!ScoreBelow
<1>5. Metrics!ScoreAbove(Metrics!ViolationsPerEmployee(n), s.violationsWarning,
                         s.violationsDanger) = 1000
  BY <1>1, <1>3 DEF Metrics!ScoreAbove
<1>6. Metrics!RiskScore(n, s) =
        Metrics!Clamp(Metrics!Round(1000 * s.complianceWeight + 1000 * s.violationsWeight,
                                    total))
  BY <1>1, <1>3, <1>4, <1>5 DEF Metrics!RiskScore, Metrics!NoRate
<1>7. Metrics!Round(1000 * s.complianceWeight + 1000 * s.violationsWeight, total) = 1000
  <2>1. 1000 * s.complianceWeight + 1000 * s.violationsWeight = 1000 * total
    BY <1>1
  <2>2. total \in Nat /\ total > 0 /\ 1000 \in Nat
    BY <1>1
  <2> HIDE DEF total
  <2>3. Metrics!Round(1000 * total, total) = 1000
    BY <2>2, RoundWhole
  <2> QED BY <2>1, <2>3
<1>8. Metrics!RiskScore(n, s) = 1000
  BY <1>6, <1>7 DEF Metrics!Clamp
<1> QED BY <1>1, <1>8 DEF Metrics!RiskLevel

\* Within both warning thresholds the score is 0.
LEMMA BestHasNoScore ==
  ASSUME NEW s, InForce(s), NEW n \in SiteCount,
         \/ Metrics!ComplianceRate(n, s) = Metrics!NoRate
         \/ Metrics!ComplianceRate(n, s) >= s.complianceWarning,
         Metrics!ViolationsPerEmployee(n) <= s.violationsWarning
  PROVE  Metrics!RiskScore(n, s) = 0
<1> DEFINE weight == IF Metrics!ComplianceRate(n, s) = Metrics!NoRate THEN 0
                     ELSE s.complianceWeight
           total == weight + s.violationsWeight
<1>1. weight \in Nat /\ s.violationsWeight \in Nat /\ total \in Nat
  BY SettingTypes
<1>2. Metrics!ScoreAbove(Metrics!ViolationsPerEmployee(n), s.violationsWarning,
                         s.violationsDanger) = 0
  BY DEF Metrics!ScoreAbove
<1>3. Metrics!ComplianceRate(n, s) # Metrics!NoRate =>
        Metrics!ScoreBelow(Metrics!ComplianceRate(n, s), s.complianceWarning,
                           s.complianceDanger) = 0
  BY DEF Metrics!ScoreBelow
<1>4. Metrics!RiskScore(n, s) =
        IF total = 0 THEN 0
        ELSE Metrics!Clamp(Metrics!Round(0 * weight + 0 * s.violationsWeight, total))
  BY <1>2, <1>3 DEF Metrics!RiskScore
<1>5. 0 * weight + 0 * s.violationsWeight = 0 * total
  BY <1>1
<1>6. total > 0 => Metrics!Round(0 * total, total) = 0
  BY <1>1, RoundWhole
<1> QED BY <1>1, <1>4, <1>5, <1>6 DEF Metrics!Clamp

\* calculateSiteRiskAssessment, under any settings that were accepted, at any time: both
\* danger thresholds mean danger, both warning thresholds no score, and the order of the
\* sites is that of their violations.
THEOREM RisksFollowViolations == Metrics!Spec => []Metrics!RisksOrdered
<1>1. SiteCounts \subseteq SiteCount
  BY AdministrationAssumption DEF Metrics!MetricsAssumption, SiteCount
<1>2. MetricInv => Metrics!RisksOrdered
  <2> SUFFICES ASSUME MetricInv, NEW n \in SiteCounts
               PROVE  LET s == Metrics!CurrentValues IN
                 /\ (/\ n.events > 0 /\ Metrics!ComplianceRate(n, s) <= s.complianceDanger
                     /\ Metrics!ViolationsPerEmployee(n) >= s.violationsDanger)
                      => Metrics!RiskLevel(n, s) = "danger"
                 /\ (/\ \/ Metrics!ComplianceRate(n, s) = Metrics!NoRate
                        \/ Metrics!ComplianceRate(n, s) >= s.complianceWarning
                     /\ Metrics!ViolationsPerEmployee(n) <= s.violationsWarning)
                      => Metrics!RiskScore(n, s) = 0
                 /\ \A m \in SiteCounts : Metrics!AtLeastAsBad(n, m) =>
                      Metrics!RiskScore(n, s) >= Metrics!RiskScore(m, s)
    BY DEF Metrics!RisksOrdered
  <2>1. InForce(Metrics!CurrentValues)
    BY CurrentInForce
  <2> QED BY <1>1, <2>1, WorstIsDanger, BestHasNoScore, ScoreOrder
<1> QED BY <1>2, MetricsAlways, PTL

\* calculateChangeRate, resolveTrendDirection: the arrow points the way of the number.
THEOREM ArrowsAgree == Metrics!Spec => []Metrics!TrendsAgree
<1>1. ASSUME NEW n \in SiteCount PROVE Metrics!Violations(n) \in Nat
  BY DEF SiteCount, Metrics!Violations
<1>2. ASSUME NEW x \in Nat, NEW k \in Nat, k > 0 PROVE x \div k \in Nat
  BY <1>2
<1>3. ASSUME NEW c \in Nat, NEW p \in Nat, c > p
      PROVE  \/ Metrics!ChangeRate(c, p) = Metrics!NoRate
             \/ Metrics!ChangeRate(c, p) >= 0
  <2>1. p > 0 => Metrics!Round(100 * (c - p), p) \in Nat
    <3>1. 100 * (c - p) \in Nat
      BY <1>3
    <3>2. ASSUME NEW a \in Nat, p > 0 PROVE Metrics!Round(a, p) \in Nat
      BY <3>2, RoundOrder
    <3> QED BY <3>1, <3>2
  <2> QED BY <1>3, <2>1 DEF Metrics!ChangeRate
<1>4. ASSUME NEW c \in Nat, NEW p \in Nat, c < p PROVE Metrics!ChangeRate(c, p) <= 0
  <2>1. (2 * 100 * (p - c) + p - 1) \div (2 * p) \in Nat
    <3>1. 2 * 100 * (p - c) + p - 1 \in Nat /\ 2 * p \in Nat /\ 2 * p > 0
      BY <1>4
    <3> QED BY <1>2, <3>1
  <2> DEFINE q == (2 * 100 * (p - c) + p - 1) \div (2 * p)
  <2>2. Metrics!ChangeRate(c, p) = - q
    BY <1>4 DEF Metrics!ChangeRate
  <2> HIDE DEF q
  <2>3. q \in Nat
    BY <2>1 DEF q
  <2> QED BY <2>2, <2>3
<1>5. SiteCounts \subseteq SiteCount
  BY AdministrationAssumption DEF Metrics!MetricsAssumption, SiteCount
<1>6. Metrics!TrendsAgree
  BY <1>1, <1>3, <1>4, <1>5 DEF Metrics!TrendsAgree, Metrics!Trend
<1> QED BY <1>6, PTL

-----------------------------------------------------------------------------
(* The request board. *)

\* What the service stores and what is on its way.
Message == [kind : {"none", "save", "answer"}, value : Content, last : Nat]

\* A client that has sent a board learns nothing until it is answered, so that the
\* time of a save is the one its client knows; and no time lies in the future.
BoardInv ==
    /\ row \in [value : Content, updatedAt : Nat]
    /\ row.updatedAt <= MaxSaves /\ Normal[row.value] = row.value
    /\ known \in [Client -> Nat]
    /\ request \in [Client -> Message]
    /\ \A c \in Client :
         /\ known[c] <= row.updatedAt
         /\ request[c].last <= row.updatedAt
         /\ request[c].kind = "save" => request[c].last = known[c]

-----------------------------------------------------------------------------
\* The board starts empty and nobody knows of it.
LEMMA BoardInvInit == ASSUME Board!BoardAssumption, Board!Init PROVE BoardInv
BY DEF Board!BoardAssumption, Board!Init, Board!Idle, BoardInv, Message

\* A write of the row: times grow, and only the writer's message is replaced.
LEMMA WriteKeeps ==
    ASSUME Board!BoardAssumption, BoardInv, NEW c \in Client,
           request[c].kind = "save", Board!Write(c)
    PROVE  BoardInv'
<1>1. /\ row' \in [value : Content, updatedAt : Nat] /\ row'.updatedAt = row.updatedAt + 1
      /\ row'.updatedAt <= MaxSaves /\ Normal[row'.value] = row'.value
    BY DEF Board!BoardAssumption, BoardInv, Message, Board!Write
<1>2. request' \in [Client -> Message]
    BY <1>1 DEF BoardInv, Message, Board!Write
<1>3. ASSUME NEW d \in Client
      PROVE  /\ known'[d] <= row'.updatedAt
             /\ request'[d].last <= row'.updatedAt
             /\ request'[d].kind = "save" => request'[d].last = known'[d]
    <2>1. CASE d = c
        BY <1>1, <2>1 DEF BoardInv, Message, Board!Write
    <2>2. CASE d # c
        BY <1>1, <2>2 DEF BoardInv, Message, Board!Write
    <2> QED BY <2>1, <2>2
<1> QED BY <1>1, <1>2, <1>3 DEF BoardInv, Board!Write

\* Every step keeps the invariant.
LEMMA BoardInvStep == ASSUME Board!BoardAssumption, BoardInv, [Board!Next]_(Board!vars) PROVE BoardInv'
<1>1. CASE UNCHANGED Board!vars
    BY <1>1 DEF Board!vars, BoardInv
<1>2. ASSUME NEW c \in Client, NEW v \in Content, Board!Send(c, v) PROVE BoardInv'
    BY <1>2 DEF BoardInv, Message, Board!Send
<1>3. ASSUME NEW c \in Client, Board!FindCurrent(c) PROVE BoardInv'
    BY <1>3 DEF BoardInv, Message, Board!FindCurrent
<1>4. ASSUME NEW c \in Client, Board!UpdateWithLastKnown(c) \/ Board!Upsert(c) PROVE BoardInv'
    BY <1>4, WriteKeeps DEF Board!UpdateWithLastKnown, Board!Upsert
<1>5. ASSUME NEW c \in Client, Board!Conflict(c) PROVE BoardInv'
    BY <1>5 DEF Board!BoardAssumption, BoardInv, Message, Board!Conflict, Board!Idle
<1>6. ASSUME NEW c \in Client, Board!Receive(c) PROVE BoardInv'
    BY <1>6 DEF Board!BoardAssumption, BoardInv, Message, Board!Receive, Board!Idle
<1> QED BY <1>1, <1>2, <1>3, <1>4, <1>5, <1>6 DEF Board!Next

-----------------------------------------------------------------------------
\* The empty board is the register's first one.
LEMMA RegisterInit == ASSUME Board!Init PROVE Board!Register!Init
BY DEF Board!Init, Board!Register!Init

\* A write is a save of the register by a client that goes by the last version or
\* by none.
LEMMA WriteSaves ==
    ASSUME Board!BoardAssumption, BoardInv, NEW c \in Client,
           request[c].kind = "save", request[c].last \in {0, row.updatedAt}, Board!Write(c)
    PROVE  Board!Register!Save(c)
<1>1. known[c] \in {0, row.updatedAt}
    BY DEF BoardInv
<1>2. row'.value \in Content /\ row'.updatedAt = row.updatedAt + 1
    BY DEF Board!BoardAssumption, BoardInv, Message, Board!Write
<1> QED BY <1>1, <1>2 DEF Board!Register!Save, Board!Write

\* An answer that arrives tells its client of a version the board has had.
LEMMA ReceiveLearns ==
    ASSUME BoardInv, NEW c \in Client, Board!Receive(c)
    PROVE  Board!Register!Learn(c) \/ UNCHANGED <<row, known>>
<1>1. CASE known' = known
    BY <1>1 DEF Board!Receive
<1>2. CASE known' = [known EXCEPT ![c] = request[c].last]
    <2>1. request[c].last \in 0..row.updatedAt
        BY DEF BoardInv, Message
    <2> QED BY <1>2, <2>1 DEF Board!Receive, Board!Register!Learn
<1> QED BY <1>1, <1>2 DEF Board!Receive

\* Every step of the service is a step of the register or leaves it alone.
LEMMA RegisterStep ==
    ASSUME Board!BoardAssumption, BoardInv, [Board!Next]_(Board!vars)
    PROVE  [Board!Register!Next]_(Board!Register!registerVars)
<1>1. ASSUME UNCHANGED <<row, known>> PROVE UNCHANGED Board!Register!registerVars
    BY <1>1 DEF Board!Register!registerVars
<1>2. CASE UNCHANGED Board!vars
    BY <1>1, <1>2 DEF Board!vars
<1>3. ASSUME NEW c \in Client,
             Board!UpdateWithLastKnown(c) \/ Board!Upsert(c)
      PROVE  Board!Register!Next
    BY <1>3, WriteSaves DEF Board!UpdateWithLastKnown, Board!Upsert, Board!Register!Next
<1>4. ASSUME NEW c \in Client, Board!Receive(c)
      PROVE  Board!Register!Next \/ UNCHANGED Board!Register!registerVars
    BY <1>4, <1>1, ReceiveLearns DEF Board!Register!Next
<1>5. ASSUME NEW c \in Client, NEW v \in Content, Board!Send(c, v)
      PROVE  UNCHANGED Board!Register!registerVars
    BY <1>5, <1>1 DEF Board!Send
<1>6. ASSUME NEW c \in Client, Board!FindCurrent(c) \/ Board!Conflict(c)
      PROVE  UNCHANGED Board!Register!registerVars
    BY <1>6, <1>1 DEF Board!FindCurrent, Board!Conflict
<1> QED BY <1>2, <1>3, <1>4, <1>5, <1>6 DEF Board!Next

LEMMA BoardAlways == Board!Spec => []BoardInv
<1>1. Board!BoardAssumption
    BY AdministrationAssumption
<1>2. Board!Init => BoardInv
    BY <1>1, BoardInvInit
<1>3. BoardInv /\ [Board!Next]_(Board!vars) => BoardInv'
    BY <1>1, BoardInvStep
<1> QED BY <1>2, <1>3, PTL DEF Board!Spec

\* update, updateMany, upsert: what is stored is a board in its normal form, its time
\* that of its last write, and nobody knows of a later one.
THEOREM BoardTyped == Board!Spec => []Board!TypeOK
<1>1. BoardInv => Board!TypeOK
    BY AdministrationAssumption DEF Board!BoardAssumption, BoardInv, Message, Board!TypeOK
<1> QED BY <1>1, BoardAlways, PTL

\* update, findCurrent: however many people edit the board at once, and however late
\* or lost their answers, a save replaces only the board its writer had seen, unless
\* the writer had seen none.
THEOREM BoardImplementsRegister == Board!Spec => Board!ImplementsRegister
<1>1. Board!BoardAssumption
    BY AdministrationAssumption
<1>2. Board!Init => Board!Register!Init
    BY RegisterInit
<1>3. BoardInv /\ [Board!Next]_(Board!vars) => [Board!Register!Next]_(Board!Register!registerVars)
    BY <1>1, RegisterStep
<1> QED BY <1>2, <1>3, BoardAlways, PTL DEF Board!Spec, Board!ImplementsRegister, Board!Register!Spec

-----------------------------------------------------------------------------
(* Sums over sets: MapThenSumSet adds up in the order in which CHOOSE takes the *)
(* elements.  A function that satisfies the same equation is the one that is    *)
(* computed, by a smallest set on which they would differ.                     *)

Any(s) == CHOOSE x \in s : TRUE
AddsUp(g, f, S) ==
    g = [s \in SUBSET S |-> IF s = {} THEN 0 ELSE f[Any(s)] + g[s \ {Any(s)}]]
Partial(f, S) == CHOOSE g : AddsUp(g, f, S)

LEMMA SumIsPartial ==
  ASSUME NEW f, NEW S PROVE Stats!SumOver(f, S) = Partial(f, S)[S]
BY DEF Stats!SumOver, Stats!MapThenSumSet, Stats!MapThenFoldSet, Partial, AddsUp, Any

\* What satisfies the equation agrees with it on every set.
LEMMA SumUnique ==
  ASSUME NEW f, NEW S, IsFiniteSet(S), NEW g, AddsUp(g, f, S)
  PROVE  Stats!SumOver(f, S) = g[S]
<1> DEFINE h == Partial(f, S)
<1>1. AddsUp(h, f, S)
  BY DEF Partial
<1> HIDE DEF h
<1> DEFINE Different == {s \in SUBSET S : h[s] # g[s]}
<1>2. ASSUME Different # {} PROVE FALSE
  <2>1. FiniteSubsetsOf(S) = SUBSET S
    BY FS_FiniteSubsetsOfFinite
  <2>2. IsWellFoundedOn(StrictSubsetOrdering(S), SUBSET S)
    BY <2>1, FS_StrictSubsetOrderingWellFounded
  <2>3. Different \subseteq SUBSET S
    OBVIOUS
  <2>4. PICK s \in Different :
              \A t \in Different : ~ (<<t, s>> \in StrictSubsetOrdering(S))
    BY <1>2, <2>2, <2>3, WFMin
  <2>5. s # {}
    BY <1>1 DEF AddsUp
  <2>6. Any(s) \in s
    BY <2>5 DEF Any
  <2>7. s \ {Any(s)} \in SUBSET S /\ s \ {Any(s)} # s /\ s \ {Any(s)} \subseteq s
    BY <2>6
  <2>8. s \ {Any(s)} \notin Different
    BY <2>4, <2>7 DEF StrictSubsetOrdering
  <2>9. h[s \ {Any(s)}] = g[s \ {Any(s)}]
    BY <2>7, <2>8
  <2>10. h[s] = f[Any(s)] + h[s \ {Any(s)}] /\ g[s] = f[Any(s)] + g[s \ {Any(s)}]
    BY <1>1, <2>5 DEF AddsUp
  <2> QED BY <2>9, <2>10
<1>3. h[S] = g[S]
  BY <1>2
<1> QED BY <1>3, SumIsPartial DEF h

\* A sum over one element.
LEMMA SumOfOne ==
  ASSUME NEW f, NEW x, f[x] \in Int PROVE Stats!SumOver(f, {x}) = f[x]
<1> DEFINE g == [s \in SUBSET {x} |-> IF s = {} THEN 0 ELSE f[x]]
<1>1. AddsUp(g, f, {x})
  <2>1. ASSUME NEW s \in SUBSET {x}
        PROVE  g[s] = IF s = {} THEN 0 ELSE f[Any(s)] + g[s \ {Any(s)}]
    <3>1. CASE s = {}
      BY <3>1
    <3>2. CASE s = {x}
      <4>1. Any(s) = x
        BY <3>2 DEF Any
      <4>2. g[{}] = 0 /\ g[{x}] = f[x] /\ s \ {x} = {}
        BY <3>2
      <4> HIDE DEF g
      <4>3. f[Any(s)] = f[x] /\ g[s \ {Any(s)}] = 0
        BY <4>1, <4>2
      <4>4. g[s] = f[x] /\ s # {}
        BY <3>2, <4>2
      <4>5. f[x] = f[x] + 0
        OBVIOUS
      <4> QED BY <4>3, <4>4, <4>5
    <3>3. s = {} \/ s = {x}
      OBVIOUS
    <3> QED BY <3>1, <3>2, <3>3
  <2> QED BY <2>1 DEF AddsUp
<1>2. IsFiniteSet({x})
  BY FS_Singleton
<1>3. g[{x}] = f[x]
  OBVIOUS
<1> QED BY <1>1, <1>2, <1>3, SumUnique

\* Disjoint parts of a finite set add up to it.
LEMMA SumOfParts ==
  ASSUME NEW K, IsFiniteSet(K), NEW L, IsFiniteSet(L), NEW piece \in [K -> SUBSET L],
         \A j \in K : \A k \in K : j # k => piece[j] \cap piece[k] = {},
         \A l \in L : \E k \in K : l \in piece[k],
         NEW f, \A k \in K : f[k] = Cardinality(piece[k])
  PROVE  Stats!SumOver(f, K) = Cardinality(L)
<1> DEFINE Of(s) == {l \in L : \E k \in s : l \in piece[k]}
           g == [s \in SUBSET K |-> Cardinality(Of(s))]
<1>1. AddsUp(g, f, K)
  <2>1. ASSUME NEW s \in SUBSET K
        PROVE  g[s] = IF s = {} THEN 0 ELSE f[Any(s)] + g[s \ {Any(s)}]
    <3>1. CASE s = {}
      <4>1. Of({}) = {} /\ Cardinality({}) = 0
        BY FS_EmptySet
      <4> QED BY <3>1, <4>1
    <3>2. CASE s # {}
      <4> DEFINE p == piece[Any(s)]
                 q == Of(s \ {Any(s)})
      <4>1. Any(s) \in s /\ Any(s) \in K
        BY <3>2 DEF Any
      <4>2. Of(s) = p \cup q /\ p \cap q = {}
        BY <4>1
      <4>3. p \in SUBSET L /\ q \in SUBSET L
        BY <4>1
      <4>4. g[s] = Cardinality(Of(s)) /\ g[s \ {Any(s)}] = Cardinality(q)
            /\ f[Any(s)] = Cardinality(p)
        BY <4>1
      <4> HIDE DEF p, q, g, Of
      <4>5. IsFiniteSet(p) /\ IsFiniteSet(q)
        BY <4>3, FS_Subset
      <4>6. Cardinality(p \cup q) = Cardinality(p) + Cardinality(q) - Cardinality(p \cap q)
        BY <4>5, FS_Union
      <4>7. Cardinality(p) \in Nat /\ Cardinality(q) \in Nat /\ Cardinality(p \cap q) = 0
        BY <4>2, <4>5, FS_CardinalityType, FS_EmptySet
      <4> DEFINE m == Cardinality(p)
                 n == Cardinality(q)
                 both == Cardinality(p \cap q)
      <4>8. Cardinality(p \cup q) = m + n - both /\ m \in Nat /\ n \in Nat /\ both = 0
        BY <4>6, <4>7
      <4> HIDE DEF m, n, both
      <4>9. Cardinality(p \cup q) = m + n
        BY <4>8
      <4> QED BY <3>2, <4>2, <4>4, <4>9 DEF m, n
    <3> QED BY <3>1, <3>2
  <2> QED BY <2>1 DEF AddsUp
<1>2. g[K] = Cardinality(L)
  <2>1. Of(K) = L
    OBVIOUS
  <2> QED BY <2>1
<1> HIDE DEF g
<1> QED BY <1>1, <1>2, SumUnique

-----------------------------------------------------------------------------
(* The daily statistics. *)

RowValue == Nat \cup {-1}
EmployeeRowType == [org : Org \cup {NoOrg}, blocks : RowValue]
WriteType == [employee : Employee, org : Org, blocks : Nat]
JobType ==
    [pc : {"idle", "orgs", "org", "employees"}, night : Stats!Day,
     days : SUBSET Stats!Day, day : Stats!Day, orgs : SUBSET Org, left : SUBSET Org,
     org : Org \cup {NoOrg}, count : [Hour -> Nat], blocks : Nat,
     rows : SUBSET WriteType]

FactTypes ==
    /\ IsFiniteSet(logs) /\ logs \subseteq [id : Nat, cell : Stats!Cell]
    /\ at \in [Employee -> Org] /\ gone \in [Employee -> BOOLEAN]

\* An organization's day and its hours appear together, an employee's day with its
\* organization.
RowTypes ==
    /\ orgRow \in [Org -> [Stats!Day -> RowValue]]
    /\ hourRow \in [Org -> [Stats!Day -> [Hour -> RowValue]]]
    /\ employeeRow \in [Employee -> [Stats!Day -> EmployeeRowType]]
    /\ \A o \in Org, d \in Stats!Day :
         orgRow[o][d] = -1 => \A h \in Hour : hourRow[o][d][h] = -1
    /\ \A e \in Employee, d \in Stats!Day :
         employeeRow[e][d].blocks # -1 => employeeRow[e][d].org \in Org

JobTypes ==
    /\ job \in [Stats!Job -> JobType]
    /\ \A j \in Stats!Job :
         /\ job[j].left \subseteq job[j].orgs
         /\ job[j].pc = "org" => job[j].org \in job[j].orgs
         /\ job[j].pc = "employees" => job[j].left = {}

ClockTypes ==
    /\ today \in 1..MaxDay /\ window \in {"before", "open", "after"}
    /\ lastRun \in 0..today /\ up \in BOOLEAN
    /\ dirty \subseteq Stats!Day /\ covered \in [Stats!Day -> SUBSET Stats!Day]
    /\ excused \subseteq Stats!Day

\* The nightly run works on what is left of the two days of its night, in all of the
\* organizations; the days it is through with are covered, or it has failed.
NightFits ==
    LET r == job["night"]
    IN  IF r.pc = "idle" THEN r.days = {}
        ELSE /\ r.night \in 1..today /\ r.orgs = Org
             /\ r.day \in r.days /\ r.days \subseteq {r.night, r.night - 1}
             /\ \/ r.night \in excused
                \/ {r.night, r.night - 1} \ r.days \subseteq covered[r.night]

-----------------------------------------------------------------------------
(* Types *)

\* The instance has its own copy of what FiniteSets defines.
LEMMA StatsCounts == \A S : Stats!Cardinality(S) = Cardinality(S)
BY DEF Stats!Cardinality, Cardinality

LEMMA StatsFinite == \A S : Stats!IsFiniteSet(S) <=> IsFiniteSet(S)
BY DEF Stats!IsFiniteSet, IsFiniteSet

LEMMA StatsConstants ==
  /\ Stats!StatsAssumption /\ MaxDay \in Nat /\ MaxDay > 0 /\ MaxEvents \in Nat
  /\ IsFiniteSet(Org) /\ IsFiniteSet(Hour) /\ NoOrg \notin Org
<1>1. Stats!StatsAssumption
  BY AdministrationAssumption
<1> QED BY <1>1, StatsFinite DEF Stats!StatsAssumption

LEMMA IdleTyped == Stats!Idle \in JobType
BY StatsConstants DEF Stats!Idle, JobType, Stats!Day

LEMMA StartedTyped ==
  ASSUME NEW n \in Stats!Day, NEW d \in Stats!Day, NEW days \in SUBSET Stats!Day,
         NEW S \in SUBSET Org
  PROVE  /\ Stats!Started(n, d, days, S) \in JobType
         /\ Stats!Started(n, d, days, S).pc = "orgs"
         /\ Stats!Started(n, d, days, S).night = n
         /\ Stats!Started(n, d, days, S).day = d
         /\ Stats!Started(n, d, days, S).days = days
         /\ Stats!Started(n, d, days, S).orgs = S
         /\ Stats!Started(n, d, days, S).left = S
BY IdleTyped DEF Stats!Started, Stats!Idle, JobType

\* The larger of two days.
LEMMA MaxOfTwo ==
  ASSUME NEW n \in Nat, NEW S \in SUBSET {n, n - 1}, S # {}
  PROVE  Stats!Max(S) \in S /\ (n \in S => Stats!Max(S) = n)
<1>1. CASE n \in S
  <2>1. n \in S /\ \A y \in S : n >= y
    BY <1>1
  <2>2. Stats!Max(S) \in S /\ \A y \in S : Stats!Max(S) >= y
    BY <2>1 DEF Stats!Max
  <2>3. Stats!Max(S) >= n /\ Stats!Max(S) \in {n, n - 1}
    BY <1>1, <2>2
  <2> QED BY <2>2, <2>3
<1>2. CASE n \notin S
  <2>0. S = {n - 1}
    BY <1>2
  <2>1. n - 1 \in S /\ \A y \in S : n - 1 >= y
    BY <2>0
  <2>2. Stats!Max(S) \in S
    BY <2>1 DEF Stats!Max
  <2> QED BY <1>2, <2>2
<1> QED BY <1>1, <1>2

\* Whatever the queries count is finite.
LEMMA BlocksFinite ==
  ASSUME FactTypes, NEW S, NEW d
  PROVE  /\ Stats!BlocksOf(S, d) \in SUBSET logs /\ IsFiniteSet(Stats!BlocksOf(S, d))
         /\ Cardinality(Stats!BlocksOf(S, d)) \in Nat
         /\ \A h : Stats!AtHour(Stats!BlocksOf(S, d), h) \in Nat
         /\ \A e : Cardinality(Stats!OfEmployee(Stats!BlocksOf(S, d), e)) \in Nat
<1>1. Stats!BlocksOf(S, d) \in SUBSET logs
  BY DEF Stats!BlocksOf, Stats!LogsOf
<1>2. IsFiniteSet(Stats!BlocksOf(S, d)) /\ Cardinality(Stats!BlocksOf(S, d)) \in Nat
  BY <1>1, FS_Subset, FS_CardinalityType DEF FactTypes
<1>3. ASSUME NEW T \in SUBSET Stats!BlocksOf(S, d) PROVE Cardinality(T) \in Nat
  BY <1>2, FS_Subset, FS_CardinalityType
<1>4. ASSUME NEW h PROVE Stats!AtHour(Stats!BlocksOf(S, d), h) \in Nat
  <2>1. {l \in Stats!BlocksOf(S, d) : l.cell.hour = h} \in SUBSET Stats!BlocksOf(S, d)
    OBVIOUS
  <2> QED BY <1>3, <2>1, StatsCounts DEF Stats!AtHour
<1>5. ASSUME NEW e PROVE Cardinality(Stats!OfEmployee(Stats!BlocksOf(S, d), e)) \in Nat
  BY <1>3 DEF Stats!OfEmployee
<1> QED BY <1>1, <1>2, <1>4, <1>5

LEMMA FactsKept ==
  ASSUME FactTypes, Stats!Next PROVE FactTypes'
<1>1. ASSUME NEW c \in Stats!Cell, NEW t, Stats!Ingest(c, t) PROVE FactTypes'
  <2>1. IsFiniteSet({l \in logs : l.cell = c})
    BY FS_Subset DEF FactTypes
  <2>2. Stats!Cardinality({l \in logs : l.cell = c}) \in Nat
    BY <2>1, FS_CardinalityType, StatsCounts
  <2>3. IsFiniteSet(logs')
    BY <1>1, FS_AddElement DEF FactTypes, Stats!Ingest
  <2>4. logs' \subseteq [id : Nat, cell : Stats!Cell]
    BY <1>1, <2>2 DEF FactTypes, Stats!Ingest
  <2>5. at' = at /\ gone' = gone
    BY <1>1 DEF Stats!Ingest
  <2> QED BY <2>3, <2>4, <2>5 DEF FactTypes
<1>2. ASSUME NEW e \in Employee, Stats!Remove(e) PROVE FactTypes'
  BY <1>2 DEF FactTypes, Stats!Remove
<1>3. ASSUME NEW e \in Employee, NEW o \in Org, Stats!Move(e, o) PROVE FactTypes'
  BY <1>3 DEF FactTypes, Stats!Move
<1>4. ASSUME UNCHANGED Stats!factVars PROVE FactTypes'
  BY <1>4 DEF FactTypes, Stats!factVars
<1>5. ASSUME NEW d, NEW S, Stats!ReaggregateDay(d, S) PROVE FactTypes'
  BY <1>4, <1>5 DEF Stats!ReaggregateDay
<1>6. ASSUME NEW j \in Stats!Job,
             \/ \E o \in Org : Stats!ReadOrganization(j, o)
             \/ Stats!WriteOrganization(j) \/ Stats!ReadEmployees(j)
             \/ Stats!WriteEmployee(j) \/ Stats!EndDay(j)
      PROVE  FactTypes'
  BY Zenon, <1>4, <1>6 DEF Stats!ReadOrganization, Stats!WriteOrganization, Stats!ReadEmployees,
                    Stats!WriteEmployee, Stats!EndDay
<1>7. ASSUME Stats!RunTick \/ Stats!Tick \/ Stats!FailDay \/ Stats!Stop \/ Stats!Start
      PROVE  FactTypes'
  BY <1>4, <1>7 DEF Stats!RunTick, Stats!Tick, Stats!FailDay, Stats!Stop, Stats!Start
<1> QED BY <1>1, <1>2, <1>3, <1>5, <1>6, <1>7 DEF Stats!Next

\* Logs are counted in all of the tables or in none; a transaction writes a day and its
\* hours.
LEMMA RowsKept ==
  ASSUME FactTypes, RowTypes, JobTypes, Stats!Next PROVE RowTypes'
<1>1. ASSUME NEW c \in Stats!Cell, NEW t \in {{}, {"org", "hour", "employee"}},
             Stats!Ingest(c, t)
      PROVE  RowTypes'
  <2> DEFINE o == IF c.org = NoOrg THEN at[c.employee] ELSE c.org
             k == IF c.act = "allowed" THEN 0 ELSE 1
  <2>1. /\ o \in Org /\ k \in {0, 1} /\ c.day \in Stats!Day /\ c.hour \in Hour
        /\ c.employee \in Employee /\ at[c.employee] \in Org
    BY DEF Stats!Cell, FactTypes
  <2>2. ASSUME NEW n \in RowValue PROVE Stats!Counted(n, k) \in Nat
    BY <2>1, <2>2 DEF RowValue, Stats!Counted, Stats!None
  <2>3. CASE t = {}
    BY <1>1, <2>3 DEF Stats!Ingest, RowTypes
  <2>4. CASE t = {"org", "hour", "employee"}
    <3>1. /\ orgRow' = [orgRow EXCEPT ![o][c.day] = Stats!Counted(@, k)]
          /\ hourRow' = [hourRow EXCEPT ![o][c.day][c.hour] = Stats!Counted(@, k)]
          /\ employeeRow' = [employeeRow EXCEPT ![c.employee][c.day] =
                [org |-> at[c.employee], blocks |-> Stats!Counted(@.blocks, k)]]
      BY <1>1, <2>4 DEF Stats!Ingest
    <3> HIDE DEF o, k
    <3>2. /\ orgRow[o][c.day] \in RowValue /\ hourRow[o][c.day][c.hour] \in RowValue
          /\ employeeRow[c.employee][c.day].blocks \in RowValue
      BY <2>1 DEF RowTypes, EmployeeRowType
    <3>3. orgRow' \in [Org -> [Stats!Day -> RowValue]]
      BY <2>1, <2>2, <3>1, <3>2 DEF RowTypes, RowValue
    <3>4. hourRow' \in [Org -> [Stats!Day -> [Hour -> RowValue]]]
      BY <2>1, <2>2, <3>1, <3>2 DEF RowTypes, RowValue
    <3>5. employeeRow' \in [Employee -> [Stats!Day -> EmployeeRowType]]
      BY <2>1, <2>2, <3>1, <3>2 DEF RowTypes, RowValue, EmployeeRowType
    <3>6. ASSUME NEW p \in Org, NEW d \in Stats!Day, orgRow'[p][d] = -1, NEW h \in Hour
          PROVE  hourRow'[p][d][h] = -1
      <4>1. CASE p = o /\ d = c.day
        <5>1. orgRow'[p][d] \in Nat
          BY <2>1, <2>2, <3>1, <3>2, <4>1 DEF RowTypes
        <5> QED BY <3>6, <5>1
      <4>2. CASE ~ (p = o /\ d = c.day)
        BY <2>1, <3>1, <3>6, <4>2 DEF RowTypes
      <4> QED BY <4>1, <4>2
    <3>7. ASSUME NEW e \in Employee, NEW d \in Stats!Day, employeeRow'[e][d].blocks # -1
          PROVE  employeeRow'[e][d].org \in Org
      BY <2>1, <3>1, <3>7 DEF RowTypes
    <3> QED BY <3>3, <3>4, <3>5, <3>6, <3>7 DEF RowTypes
  <2> QED BY <2>3, <2>4
<1>2. ASSUME NEW j \in Stats!Job, Stats!WriteOrganization(j) PROVE RowTypes'
  <2> DEFINE r == job[j]
  <2>1. r.org \in Org /\ r.day \in Stats!Day /\ r.blocks \in Nat /\ r.count \in [Hour -> Nat]
    BY <1>2 DEF JobTypes, JobType, Stats!WriteOrganization
  <2>2. /\ orgRow' = [orgRow EXCEPT ![r.org][r.day] = r.blocks]
        /\ hourRow' = [hourRow EXCEPT ![r.org][r.day] = r.count]
        /\ employeeRow' = employeeRow
    BY <1>2 DEF Stats!WriteOrganization
  <2> HIDE DEF r
  <2>3. orgRow' \in [Org -> [Stats!Day -> RowValue]]
    BY <2>1, <2>2 DEF RowTypes, RowValue
  <2>4. hourRow' \in [Org -> [Stats!Day -> [Hour -> RowValue]]]
    BY <2>1, <2>2 DEF RowTypes, RowValue
  <2>5. ASSUME NEW p \in Org, NEW d \in Stats!Day, orgRow'[p][d] = -1, NEW h \in Hour
        PROVE  hourRow'[p][d][h] = -1
    BY <2>1, <2>2, <2>5 DEF RowTypes
  <2> QED BY <2>2, <2>3, <2>4, <2>5 DEF RowTypes
<1>3. ASSUME NEW j \in Stats!Job, Stats!WriteEmployee(j) PROVE RowTypes'
  <2>1. PICK w \in job[j].rows :
             employeeRow' = [employeeRow EXCEPT ![w.employee][job[j].day] =
                               [org |-> w.org, blocks |-> w.blocks]]
    BY <1>3 DEF Stats!WriteEmployee
  <2>2. w \in WriteType /\ job[j].day \in Stats!Day
    BY DEF JobTypes, JobType
  <2>3. employeeRow' \in [Employee -> [Stats!Day -> EmployeeRowType]]
    BY <2>1, <2>2 DEF RowTypes, WriteType, EmployeeRowType, RowValue
  <2>4. ASSUME NEW e \in Employee, NEW d \in Stats!Day, employeeRow'[e][d].blocks # -1
        PROVE  employeeRow'[e][d].org \in Org
    BY <2>1, <2>2, <2>4 DEF RowTypes, WriteType
  <2>5. orgRow' = orgRow /\ hourRow' = hourRow
    BY <1>3 DEF Stats!WriteEmployee
  <2> QED BY <2>3, <2>4, <2>5 DEF RowTypes
<1>4. ASSUME UNCHANGED Stats!rowVars PROVE RowTypes'
  BY <1>4 DEF RowTypes, Stats!rowVars
<1>5. ASSUME NEW e \in Employee, Stats!Remove(e) \/ \E o \in Org : Stats!Move(e, o)
      PROVE  RowTypes'
  BY <1>4, <1>5 DEF Stats!Remove, Stats!Move
<1>6. ASSUME NEW d, NEW S, Stats!ReaggregateDay(d, S) PROVE RowTypes'
  BY <1>4, <1>6 DEF Stats!ReaggregateDay
<1>7. ASSUME NEW j \in Stats!Job,
             \/ \E o \in Org : Stats!ReadOrganization(j, o)
             \/ Stats!ReadEmployees(j) \/ Stats!EndDay(j)
      PROVE  RowTypes'
  BY Zenon, <1>4, <1>7 DEF Stats!ReadOrganization, Stats!ReadEmployees, Stats!EndDay
<1>8. ASSUME Stats!RunTick \/ Stats!Tick \/ Stats!FailDay \/ Stats!Stop \/ Stats!Start
      PROVE  RowTypes'
  BY <1>4, <1>8 DEF Stats!RunTick, Stats!Tick, Stats!FailDay, Stats!Stop, Stats!Start
<1> QED BY <1>1, <1>2, <1>3, <1>5, <1>6, <1>7, <1>8 DEF Stats!Next

\* One more step of a reaggregation: only one job changes, and stays of its type.
LEMMA JobKept ==
  ASSUME JobTypes, NEW j \in Stats!Job, NEW r \in JobType, r.left \subseteq r.orgs,
         r.pc = "org" => r.org \in r.orgs, r.pc = "employees" => r.left = {},
         job' = [job EXCEPT ![j] = r]
  PROVE  JobTypes'
BY DEF JobTypes

\* The rows that a reaggregation of the employees writes.
LEMMA EmployeeRowsTyped ==
  ASSUME FactTypes, NEW S, NEW d
  PROVE  Stats!EmployeeRows(S, d) \in SUBSET WriteType
BY BlocksFinite, StatsCounts DEF Stats!EmployeeRows, WriteType, FactTypes

LEMMA JobsKept ==
  ASSUME FactTypes, ClockTypes, JobTypes, NightFits, Stats!Next PROVE JobTypes'
<1>1. ASSUME NEW j \in Stats!Job, NEW o \in Org, Stats!ReadOrganization(j, o)
      PROVE  JobTypes'
  <2> DEFINE b == Stats!Cardinality(Stats!BlocksOf({o}, job[j].day))
             n == [h \in Hour |-> Stats!AtHour(Stats!BlocksOf({o}, job[j].day), h)]
             r == [job[j] EXCEPT !.pc = "org", !.org = o, !.left = @ \ {o}, !.blocks = b,
                                 !.count = n]
  <2>1. b \in Nat /\ n \in [Hour -> Nat]
    BY BlocksFinite, StatsCounts
  <2>2. job' = [job EXCEPT ![j] = r]
    BY <1>1 DEF Stats!ReadOrganization
  <2> HIDE DEF b, n
  <2>3. /\ r \in JobType /\ r.left \subseteq r.orgs /\ r.pc = "org" /\ r.org \in r.orgs
    BY <1>1, <2>1 DEF JobTypes, JobType, Stats!ReadOrganization
  <2> HIDE DEF r
  <2> QED BY <2>2, <2>3, JobKept
<1>2. ASSUME NEW j \in Stats!Job, Stats!WriteOrganization(j) PROVE JobTypes'
  <2> DEFINE r == [job[j] EXCEPT !.pc = "orgs", !.org = NoOrg, !.blocks = 0,
                                 !.count = Stats!Idle.count]
  <2>1. job' = [job EXCEPT ![j] = r]
    BY <1>2 DEF Stats!WriteOrganization
  <2>2. Stats!Idle.count \in [Hour -> Nat]
    BY IdleTyped DEF JobType
  <2>3. r \in JobType /\ r.left \subseteq r.orgs /\ r.pc = "orgs"
    BY <1>2, <2>2 DEF JobTypes, JobType
  <2> HIDE DEF r
  <2> QED BY <2>1, <2>3, JobKept
<1>3. ASSUME NEW j \in Stats!Job, Stats!ReadEmployees(j) PROVE JobTypes'
  <2> DEFINE w == Stats!EmployeeRows(job[j].orgs, job[j].day)
             r == [job[j] EXCEPT !.pc = "employees", !.rows = w]
  <2>1. job' = [job EXCEPT ![j] = r]
    BY <1>3 DEF Stats!ReadEmployees
  <2>2. w \in SUBSET WriteType
    BY EmployeeRowsTyped
  <2> HIDE DEF w
  <2>3. r \in JobType /\ r.left \subseteq r.orgs /\ r.pc = "employees" /\ r.left = {}
    BY <1>3, <2>2 DEF JobTypes, JobType, Stats!ReadEmployees
  <2> HIDE DEF r
  <2> QED BY <2>1, <2>3, JobKept
<1>4. ASSUME NEW j \in Stats!Job, Stats!WriteEmployee(j) PROVE JobTypes'
  <2>1. PICK w \in job[j].rows : job' = [job EXCEPT ![j].rows = @ \ {w}]
    BY <1>4 DEF Stats!WriteEmployee
  <2> DEFINE r == [job[j] EXCEPT !.rows = @ \ {w}]
  <2>2. job' = [job EXCEPT ![j] = r]
    BY <2>1
  <2>3. job[j] \in JobType /\ job[j].left \subseteq job[j].orgs /\ job[j].left = {}
        /\ job[j].pc = "employees" /\ job[j].rows \ {w} \in SUBSET WriteType
    BY <1>4 DEF JobTypes, JobType, Stats!WriteEmployee
  <2>4. r \in JobType /\ r.left \subseteq r.orgs /\ r.pc = "employees" /\ r.left = {}
    BY <2>3 DEF JobType
  <2> HIDE DEF r
  <2> QED BY <2>2, <2>4, JobKept
<1>5. ASSUME NEW n \in Stats!Day, NEW days \in SUBSET Stats!Day, NEW d \in Stats!Day,
             NEW S \in SUBSET Org, NEW j \in Stats!Job,
             job' = [job EXCEPT ![j] = Stats!Started(n, d, days, S)]
      PROVE  JobTypes'
  <2> DEFINE r == Stats!Started(n, d, days, S)
  <2>1. r \in JobType /\ r.left = r.orgs /\ r.pc = "orgs"
    BY StartedTyped
  <2>2. job' = [job EXCEPT ![j] = r]
    BY <1>5
  <2> HIDE DEF r
  <2> QED BY <2>1, <2>2, JobKept
<1>6. ASSUME NEW j \in Stats!Job, job' = [job EXCEPT ![j] = Stats!Idle]
      PROVE  JobTypes'
  <2>1. /\ Stats!Idle \in JobType /\ Stats!Idle.left \subseteq Stats!Idle.orgs
        /\ Stats!Idle.pc = "idle"
    BY IdleTyped DEF Stats!Idle
  <2> QED BY <1>6, <2>1, JobKept
<1>7. ASSUME job["night"].pc # "idle", job["night"].days \ {job["night"].day} # {}
      PROVE  LET r == job["night"]
                 rest == r.days \ {r.day}
             IN  /\ r.night \in Stats!Day /\ rest \in SUBSET Stats!Day
                 /\ Stats!Max(rest) \in Stats!Day
  <2> DEFINE r == job["night"]
             rest == r.days \ {r.day}
  <2>1. /\ r.night \in Nat /\ r.night \in Stats!Day /\ rest \subseteq {r.night, r.night - 1}
        /\ rest \in SUBSET Stats!Day
    BY <1>7 DEF NightFits, JobTypes, JobType, ClockTypes, Stats!Job
  <2> HIDE DEF rest
  <2>2. Stats!Max(rest) \in rest
    BY <1>7, <2>1, MaxOfTwo DEF rest
  <2> QED BY <2>1, <2>2 DEF rest
<1>8. ASSUME NEW j \in Stats!Job, Stats!EndDay(j) PROVE JobTypes'
  <2>1. CASE j = "night" /\ job["night"].days \ {job["night"].day} # {}
    BY <1>5, <1>7, <1>8, <2>1 DEF Stats!EndDay
  <2>2. CASE j # "night" \/ job["night"].days \ {job["night"].day} = {}
    BY <1>6, <1>8, <2>2 DEF Stats!EndDay
  <2> QED BY <2>1, <2>2
<1>9. ASSUME Stats!FailDay PROVE JobTypes'
  <2>0. "night" \in Stats!Job /\ Org \in SUBSET Org
    BY DEF Stats!Job
  <2>1. CASE job["night"].days \ {job["night"].day} # {}
    BY <1>5, <1>7, <1>9, <2>0, <2>1 DEF Stats!FailDay
  <2>2. CASE job["night"].days \ {job["night"].day} = {}
    BY <1>6, <1>9, <2>0, <2>2 DEF Stats!FailDay
  <2> QED BY <2>1, <2>2
<1>10. ASSUME NEW d \in {today, today - 1} \ {0}, NEW S \in SUBSET Org \ {{}},
              Stats!ReaggregateDay(d, S)
       PROVE  JobTypes'
  <2>1. d \in Stats!Day /\ {d} \in SUBSET Stats!Day /\ 0 \in Stats!Day /\ "request" \in Stats!Job
    BY StatsConstants DEF ClockTypes, Stats!Day, Stats!Job
  <2> QED BY <1>5, <1>10, <2>1 DEF Stats!ReaggregateDay
<1>11. ASSUME Stats!RunTick PROVE JobTypes'
  <2>1. /\ today \in Stats!Day /\ {today, today - 1} \in SUBSET Stats!Day
        /\ today \in Nat /\ "night" \in Stats!Job /\ Org \in SUBSET Org
    BY StatsConstants DEF ClockTypes, Stats!Day, Stats!Job
  <2>2. Stats!Max({today, today - 1}) = today
    BY <2>1, MaxOfTwo
  <2> QED BY <1>5, <1>11, <2>1, <2>2 DEF Stats!RunTick, Stats!RecentDays
<1>12. ASSUME Stats!Stop PROVE JobTypes'
  <2>1. /\ Stats!Idle \in JobType /\ Stats!Idle.left \subseteq Stats!Idle.orgs
        /\ Stats!Idle.pc = "idle"
    BY IdleTyped DEF Stats!Idle
  <2> QED BY <1>12, <2>1 DEF JobTypes, Stats!Stop
<1>13. ASSUME job' = job PROVE JobTypes'
  BY <1>13 DEF JobTypes
<1>14. ASSUME NEW c, NEW t, Stats!Ingest(c, t) PROVE JobTypes'
  BY <1>13, <1>14 DEF Stats!Ingest
<1>15. ASSUME NEW e \in Employee, Stats!Remove(e) \/ \E o \in Org : Stats!Move(e, o)
       PROVE  JobTypes'
  BY <1>13, <1>15 DEF Stats!Remove, Stats!Move
<1>16. ASSUME Stats!Tick \/ Stats!Start PROVE JobTypes'
  BY <1>13, <1>16 DEF Stats!Tick, Stats!Start
<1> QED BY <1>1, <1>2, <1>3, <1>4, <1>8, <1>9, <1>10, <1>11, <1>12, <1>14, <1>15, <1>16
         DEF Stats!Next

LEMMA ClockKept ==
  ASSUME ClockTypes, JobTypes, NightFits, Stats!Next PROVE ClockTypes'
<1>0. {"night", "request"} \subseteq Stats!Job
  BY DEF Stats!Job
<1>1. ASSUME NEW c \in Stats!Cell, NEW t, Stats!Ingest(c, t) PROVE ClockTypes'
  BY <1>1 DEF ClockTypes, Stats!Ingest, Stats!Cell, Stats!clockVars, Stats!processVars
<1>2. ASSUME NEW e \in Employee, Stats!Remove(e) \/ \E o \in Org : Stats!Move(e, o)
      PROVE  ClockTypes'
  BY <1>2 DEF ClockTypes, Stats!Remove, Stats!Move, Stats!clockVars, Stats!processVars
<1>3. ASSUME NEW d, NEW S, Stats!ReaggregateDay(d, S) PROVE ClockTypes'
  BY <1>3 DEF ClockTypes, Stats!ReaggregateDay, Stats!clockVars, Stats!processVars,
              Stats!ghostVars
<1>4. ASSUME NEW j \in Stats!Job,
             \/ \E o \in Org : Stats!ReadOrganization(j, o)
             \/ Stats!ReadEmployees(j)
      PROVE  ClockTypes'
  BY Zenon, <1>4 DEF ClockTypes, Stats!ReadOrganization, Stats!ReadEmployees, Stats!clockVars,
              Stats!processVars, Stats!ghostVars
<1>5. ASSUME NEW j \in Stats!Job, Stats!WriteOrganization(j) \/ Stats!WriteEmployee(j)
      PROVE  ClockTypes'
  BY <1>5 DEF ClockTypes, JobTypes, JobType, Stats!WriteOrganization, Stats!WriteEmployee,
              Stats!clockVars, Stats!processVars
<1>6. ASSUME NEW j \in Stats!Job, Stats!EndDay(j) PROVE ClockTypes'
  BY <1>6 DEF ClockTypes, JobTypes, JobType, Stats!EndDay, Stats!clockVars,
              Stats!processVars
<1>7. CASE Stats!RunTick
  BY <1>7 DEF ClockTypes, Stats!RunTick, Stats!clockVars
<1>8. CASE Stats!Tick
  <2>1. today \in Stats!Day
    BY StatsConstants DEF ClockTypes, Stats!Day
  <2>2. today' \in 1..MaxDay /\ today' \in {today, today + 1}
    BY <1>8, StatsConstants DEF ClockTypes, Stats!Tick, Stats!Clock
  <2>3. lastRun \in 0..today'
    BY <2>2 DEF ClockTypes
  <2>4. window' \in {"before", "open", "after"} /\ excused' \subseteq Stats!Day
    BY <1>8, <2>1 DEF ClockTypes, Stats!Tick, Stats!Clock
  <2> QED BY <1>8, <2>2, <2>3, <2>4 DEF ClockTypes, Stats!Tick, Stats!processVars
<1>9. CASE Stats!FailDay
  <2>1. job["night"].day \in Stats!Day /\ job["night"].night \in Stats!Day
    BY <1>0 DEF JobTypes, JobType
  <2>2. /\ excused' = excused \cup {job["night"].night} /\ covered' = covered
        /\ dirty' \subseteq dirty \cup {job["night"].day}
        /\ UNCHANGED <<today, window, up, lastRun>>
    BY <1>9 DEF Stats!FailDay, Stats!clockVars, Stats!processVars
  <2> QED BY <2>1, <2>2 DEF ClockTypes
<1>10. CASE Stats!Stop
  <2>1. today \in Stats!Day
    BY StatsConstants DEF ClockTypes, Stats!Day
  <2>2. job["night"].days \in SUBSET Stats!Day /\ job["night"].night \in Stats!Day
    BY <1>0 DEF JobTypes, JobType
  <2>3. /\ excused' \subseteq excused \cup {today, job["night"].night}
        /\ covered' = covered /\ dirty' = dirty \cup job["night"].days
        /\ up' = FALSE /\ lastRun' = 0
        /\ UNCHANGED <<today, window>>
    BY <1>10 DEF Stats!Stop, Stats!clockVars
  <2>4. lastRun' \in 0..today
    BY <2>3 DEF ClockTypes
  <2>5. dirty' \subseteq Stats!Day /\ excused' \subseteq Stats!Day
    BY <2>1, <2>2, <2>3 DEF ClockTypes
  <2> QED BY <2>3, <2>4, <2>5 DEF ClockTypes
<1>11. CASE Stats!Start
  BY <1>11 DEF ClockTypes, Stats!Start, Stats!clockVars, Stats!ghostVars
<1> QED BY <1>1, <1>2, <1>3, <1>4, <1>5, <1>6, <1>7, <1>8, <1>9, <1>10, <1>11 DEF Stats!Next

\* A night that has reaggregated a day is through with it; its two days are all it has.
LEMMA NightKept ==
  ASSUME ClockTypes, JobTypes, NightFits, Stats!Next PROVE NightFits'
<1>0. {"night", "request"} \subseteq Stats!Job /\ "night" # "request"
  BY DEF Stats!Job
<1>1. ASSUME /\ job'["night"].pc = "idle" <=> job["night"].pc = "idle"
             /\ job'["night"].night = job["night"].night
             /\ job'["night"].days = job["night"].days
             /\ job'["night"].day = job["night"].day
             /\ job'["night"].orgs = job["night"].orgs,
             today' = today, excused \subseteq excused', covered' = covered
      PROVE  NightFits'
  BY <1>1 DEF NightFits
<1>2. ASSUME NEW n \in 1..today, NEW days \in SUBSET {n, n - 1}, NEW d \in days,
             job'["night"] = Stats!Started(n, d, days, Org), today' = today,
             \/ n \in excused'
             \/ {n, n - 1} \ days \subseteq covered'[n]
      PROVE  NightFits'
  <2>1. n \in Stats!Day /\ days \in SUBSET Stats!Day /\ d \in Stats!Day /\ Org \in SUBSET Org
    BY StatsConstants DEF ClockTypes, Stats!Day
  <2> DEFINE r == Stats!Started(n, d, days, Org)
  <2>2. r.pc = "orgs" /\ r.night = n /\ r.day = d /\ r.days = days /\ r.orgs = Org
    BY <2>1, StartedTyped
  <2>3. job'["night"] = r
    BY <1>2
  <2> HIDE DEF r
  <2> QED BY <1>2, <2>2, <2>3 DEF NightFits
<1>3. ASSUME job'["night"] = Stats!Idle PROVE NightFits'
  BY <1>3 DEF NightFits, Stats!Idle
<1>4. ASSUME job' = job, today' \in {today, today + 1}, excused \subseteq excused',
             covered' = covered
      PROVE  NightFits'
  <2>1. 1..today \subseteq 1..today'
    BY <1>4 DEF ClockTypes
  <2> QED BY <1>4, <2>1 DEF NightFits
<1>5. ASSUME NEW c \in Stats!Cell, NEW t, Stats!Ingest(c, t) PROVE NightFits'
  BY <1>4, <1>5 DEF Stats!Ingest, Stats!clockVars
<1>6. ASSUME NEW e \in Employee, Stats!Remove(e) \/ \E o \in Org : Stats!Move(e, o)
      PROVE  NightFits'
  BY <1>4, <1>6 DEF Stats!Remove, Stats!Move, Stats!clockVars
<1>7. ASSUME NEW d, NEW S, Stats!ReaggregateDay(d, S) PROVE NightFits'
  BY <1>0, <1>1, <1>7 DEF JobTypes, Stats!ReaggregateDay, Stats!clockVars, Stats!ghostVars
<1>8. ASSUME NEW j \in Stats!Job, NEW o \in Org, Stats!ReadOrganization(j, o)
      PROVE  NightFits'
  BY <1>0, <1>1, <1>8 DEF JobTypes, JobType, Stats!ReadOrganization, Stats!clockVars,
                          Stats!ghostVars
<1>9. ASSUME NEW j \in Stats!Job, Stats!ReadEmployees(j) PROVE NightFits'
  BY <1>0, <1>1, <1>9 DEF JobTypes, JobType, Stats!ReadEmployees, Stats!clockVars,
                          Stats!ghostVars
<1>10. ASSUME NEW j \in Stats!Job, Stats!WriteOrganization(j) PROVE NightFits'
  BY <1>0, <1>1, <1>10 DEF JobTypes, JobType, Stats!WriteOrganization, Stats!clockVars
<1>11. ASSUME NEW j \in Stats!Job, Stats!WriteEmployee(j) PROVE NightFits'
  BY <1>0, <1>1, <1>11 DEF JobTypes, JobType, Stats!WriteEmployee, Stats!clockVars
<1>12. ASSUME Stats!EndDay("request") PROVE NightFits'
  BY <1>0, <1>1, <1>12 DEF JobTypes, JobType, Stats!EndDay, Stats!clockVars
<1>13. ASSUME Stats!EndDay("night") PROVE NightFits'
  <2> DEFINE r == job["night"]
             rest == r.days \ {r.day}
  <2>1. r.pc = "employees" /\ today' = today /\ excused' = excused
        /\ covered' = [covered EXCEPT ![r.night] = @ \cup {r.day}]
        /\ job' = [job EXCEPT !["night"] =
                     IF rest = {} THEN Stats!Idle
                     ELSE Stats!Started(r.night, Stats!Max(rest), rest, Org)]
    BY <1>13 DEF Stats!EndDay, Stats!clockVars
  <2>2. /\ r.night \in 1..today /\ r.night \in Nat /\ r.night \in Stats!Day
        /\ r.days \subseteq {r.night, r.night - 1}
        /\ \/ r.night \in excused
           \/ {r.night, r.night - 1} \ r.days \subseteq covered[r.night]
    BY <2>1, StatsConstants DEF NightFits, ClockTypes, Stats!Day
  <2>3. CASE rest = {}
    BY <1>0, <1>3, <2>1, <2>3 DEF JobTypes
  <2>4. CASE rest # {}
    <3>0. rest \in SUBSET {r.night, r.night - 1}
      BY <2>2
    <3>1. Stats!Max(rest) \in rest
      BY <2>2, <2>4, <3>0, MaxOfTwo
    <3>2. job'["night"] = Stats!Started(r.night, Stats!Max(rest), rest, Org)
      BY <1>0, <2>1, <2>4 DEF JobTypes
    <3>3. \/ r.night \in excused'
          \/ {r.night, r.night - 1} \ rest \subseteq covered'[r.night]
      BY <2>1, <2>2 DEF ClockTypes
    <3> HIDE DEF r, rest
    <3> QED BY <1>2, <2>1, <2>2, <3>0, <3>1, <3>2, <3>3
  <2> QED BY <2>3, <2>4
<1>14. CASE Stats!RunTick
  <2>1. Stats!Max({today, today - 1}) = today
    BY MaxOfTwo DEF ClockTypes
  <2>2. job'["night"] = Stats!Started(today, today, {today, today - 1}, Org)
    BY <1>0, <1>14, <2>1 DEF JobTypes, Stats!RunTick, Stats!RecentDays
  <2>3. today \in 1..today /\ today' = today
    BY <1>14 DEF ClockTypes, Stats!RunTick, Stats!clockVars
  <2> QED BY <1>2, <2>2, <2>3
<1>15. CASE Stats!Tick
  BY <1>4, <1>15 DEF Stats!Tick, Stats!Clock
<1>16. CASE Stats!FailDay
  <2> DEFINE r == job["night"]
             rest == r.days \ {r.day}
  <2>1. r.pc # "idle" /\ today' = today /\ r.night \in excused'
        /\ job' = [job EXCEPT !["night"] =
                     IF rest = {} THEN Stats!Idle
                     ELSE Stats!Started(r.night, Stats!Max(rest), rest, Org)]
    BY <1>16 DEF Stats!FailDay, Stats!clockVars
  <2>2. /\ r.night \in 1..today /\ r.night \in Nat
        /\ r.days \subseteq {r.night, r.night - 1}
    BY <2>1 DEF NightFits, ClockTypes
  <2>3. CASE rest = {}
    BY <1>0, <1>3, <2>1, <2>3 DEF JobTypes
  <2>4. CASE rest # {}
    <3>0. rest \in SUBSET {r.night, r.night - 1}
      BY <2>2
    <3>1. Stats!Max(rest) \in rest
      BY <2>2, <2>4, <3>0, MaxOfTwo
    <3>2. job'["night"] = Stats!Started(r.night, Stats!Max(rest), rest, Org)
      BY <1>0, <2>1, <2>4 DEF JobTypes
    <3> HIDE DEF r, rest
    <3> QED BY <1>2, <2>1, <2>2, <3>0, <3>1, <3>2
  <2> QED BY <2>3, <2>4
<1>17. CASE Stats!Stop
  BY <1>0, <1>3, <1>17 DEF Stats!Stop
<1>18. CASE Stats!Start
  BY <1>4, <1>18 DEF Stats!Start, Stats!clockVars, Stats!ghostVars
<1> QED BY <1>5, <1>6, <1>7, <1>8, <1>9, <1>10, <1>11, <1>12, <1>13, <1>14, <1>15, <1>16,
           <1>17, <1>18 DEF Stats!Next, Stats!Job

-----------------------------------------------------------------------------
(* What is settled *)

\* The day and the hours of an organization, and the day of an employee, are what the
\* logs say.
OrgAgrees(o, d) ==
    /\ Stats!Value(orgRow[o][d]) = Cardinality(Stats!BlocksOf({o}, d))
    /\ \A h \in Hour : Stats!Value(hourRow[o][d][h])
                         = Stats!AtHour(Stats!BlocksOf({o}, d), h)
EmployeeAgrees(e, d) ==
    Stats!Value(employeeRow[e][d].blocks)
      = Cardinality(Stats!OfEmployee(Stats!BlocksOf(Org, d), e))
DayAgrees(d) ==
    /\ \A o \in Org : OrgAgrees(o, d)
    /\ \A e \in Employee : EmployeeAgrees(e, d)

\* Of the day that the night is at, if nothing changed it since it began: what it is
\* through with agrees, and what it has read and not yet written is still true.
Begun(r, d) ==
    /\ \A o \in Org \ r.left : (r.pc = "org" /\ o = r.org) \/ OrgAgrees(o, d)
    /\ \A o \in Org : r.pc = "org" /\ o = r.org =>
         /\ r.blocks = Cardinality(Stats!BlocksOf({o}, d))
         /\ \A h \in Hour : r.count[h] = Stats!AtHour(Stats!BlocksOf({o}, d), h)
    /\ r.pc = "employees" =>
         /\ \A w \in r.rows :
              w.blocks = Cardinality(Stats!OfEmployee(Stats!BlocksOf(Org, d), w.employee))
         /\ \A e \in Employee :
              EmployeeAgrees(e, d) \/ \E w \in r.rows : w.employee = e

SettledDay(d) ==
    IF job["night"].pc # "idle" /\ d = job["night"].day
    THEN Begun(job["night"], d) ELSE DayAgrees(d)
Settled == \A d \in Stats!Day \ dirty : SettledDay(d)

StatsTypes == FactTypes /\ RowTypes /\ JobTypes /\ ClockTypes /\ NightFits

\* A day whose logs and rows stay.
SameCounts(d) ==
    /\ \A S \in SUBSET Org : Stats!BlocksOf(S, d)' = Stats!BlocksOf(S, d)
    /\ \A o \in Org : orgRow'[o][d] = orgRow[o][d] /\ hourRow'[o][d] = hourRow[o][d]
    /\ \A e \in Employee : employeeRow'[e][d] = employeeRow[e][d]

LEMMA OrgStays ==
  ASSUME NEW d, NEW o \in Org, Stats!BlocksOf({o}, d)' = Stats!BlocksOf({o}, d),
         orgRow'[o][d] = orgRow[o][d], hourRow'[o][d] = hourRow[o][d]
  PROVE  OrgAgrees(o, d)' <=> OrgAgrees(o, d)
BY DEF OrgAgrees, Stats!Value, Stats!None, Stats!AtHour

LEMMA EmployeeStays ==
  ASSUME NEW d, NEW e \in Employee, Stats!BlocksOf(Org, d)' = Stats!BlocksOf(Org, d),
         employeeRow'[e][d] = employeeRow[e][d]
  PROVE  EmployeeAgrees(e, d)' <=> EmployeeAgrees(e, d)
BY DEF EmployeeAgrees, Stats!Value, Stats!None, Stats!OfEmployee

LEMMA DayStays ==
  ASSUME NEW d, SameCounts(d), DayAgrees(d) PROVE DayAgrees(d)'
<1>1. ASSUME NEW o \in Org PROVE OrgAgrees(o, d)'
  BY OrgStays DEF SameCounts, DayAgrees
<1>2. ASSUME NEW e \in Employee PROVE EmployeeAgrees(e, d)'
  BY EmployeeStays DEF SameCounts, DayAgrees
<1> QED BY <1>1, <1>2 DEF DayAgrees

LEMMA BegunStays ==
  ASSUME NEW d, job["night"].pc = "org" => job["night"].org \in Org,
         job'["night"] = job["night"], SameCounts(d), Begun(job["night"], d)
  PROVE  Begun(job["night"], d)'
<1>1. ASSUME NEW o \in Org PROVE OrgAgrees(o, d)' <=> OrgAgrees(o, d)
  BY OrgStays DEF SameCounts
<1>2. ASSUME NEW e \in Employee PROVE EmployeeAgrees(e, d)' <=> EmployeeAgrees(e, d)
  BY EmployeeStays DEF SameCounts
<1>3. Stats!BlocksOf(Org, d)' = Stats!BlocksOf(Org, d)
  BY DEF SameCounts
<1>4. ASSUME NEW o \in Org PROVE Stats!BlocksOf({o}, d)' = Stats!BlocksOf({o}, d)
  BY DEF SameCounts
<1> QED BY <1>1, <1>2, <1>3, <1>4 DEF Begun, Stats!AtHour, Stats!OfEmployee

\* What leaves the logs, the rows and the night's progress alone leaves the day settled.
LEMMA SettledStays ==
  ASSUME StatsTypes, NEW d \in Stats!Day, SameCounts(d), SettledDay(d),
         job'["night"] = job["night"]
  PROVE  SettledDay(d)'
<1>1. CASE job["night"].pc # "idle" /\ d = job["night"].day
  <2>1. job["night"].pc = "org" => job["night"].org \in Org
    BY DEF StatsTypes, JobTypes, JobType, Stats!Job
  <2>2. Begun(job["night"], d)
    BY <1>1 DEF SettledDay
  <2> QED BY <1>1, <2>1, <2>2, BegunStays DEF SettledDay
<1>2. CASE ~ (job["night"].pc # "idle" /\ d = job["night"].day)
  BY <1>2, DayStays DEF SettledDay
<1> QED BY <1>1, <1>2

\* A new log is of one day.
LEMMA OtherDays ==
  ASSUME NEW S, NEW d, at' = at, gone' = gone, logs \subseteq logs',
         \A l \in logs' \ logs : l.cell.day # d
  PROVE  Stats!BlocksOf(S, d)' = Stats!BlocksOf(S, d)
BY DEF Stats!BlocksOf, Stats!LogsOf, Stats!InOrganizations, Stats!Blocked

LEMMA SameFacts ==
  ASSUME UNCHANGED Stats!factVars, NEW S, NEW d
  PROVE  Stats!BlocksOf(S, d)' = Stats!BlocksOf(S, d)
BY DEF Stats!factVars, Stats!BlocksOf, Stats!LogsOf, Stats!InOrganizations, Stats!Blocked

LEMMA SameAll ==
  ASSUME UNCHANGED Stats!factVars, UNCHANGED Stats!rowVars, NEW d
  PROVE  SameCounts(d)
BY SameFacts DEF SameCounts, Stats!rowVars

-----------------------------------------------------------------------------
\* Logs, and employees that come and go.
LEMMA IngestSettles ==
  ASSUME StatsTypes, Settled, NEW c \in Stats!Cell,
         NEW t \in {{}, {"org", "hour", "employee"}}, Stats!Ingest(c, t)
  PROVE  Settled'
<1>1. SUFFICES ASSUME NEW d \in Stats!Day \ dirty' PROVE SettledDay(d)'
  BY DEF Settled, Stats!Day
<1>2. /\ d # c.day /\ d \in Stats!Day \ dirty /\ job' = job
      /\ at' = at /\ gone' = gone /\ logs \subseteq logs'
      /\ \A l \in logs' \ logs : l.cell.day # d
  BY DEF Stats!Ingest
<1>3. ASSUME NEW S PROVE Stats!BlocksOf(S, d)' = Stats!BlocksOf(S, d)
  BY <1>2, OtherDays
<1>4. c.day \in Stats!Day /\ c.hour \in Hour /\ c.employee \in Employee
  BY SMTT(30) DEF Stats!Cell
<1>5. ASSUME NEW o \in Org
      PROVE  orgRow'[o][d] = orgRow[o][d] /\ hourRow'[o][d] = hourRow[o][d]
  BY SMTT(30), <1>2, <1>4 DEF Stats!Ingest, StatsTypes, RowTypes
<1>6. ASSUME NEW e \in Employee PROVE employeeRow'[e][d] = employeeRow[e][d]
  BY <1>2, <1>4 DEF Stats!Ingest, StatsTypes, RowTypes
<1>7. SameCounts(d)
  BY <1>3, <1>5, <1>6 DEF SameCounts
<1> QED BY <1>2, <1>7, SettledStays DEF Settled

LEMMA PeopleSettle ==
  ASSUME NEW e \in Employee, Stats!Remove(e) \/ \E o \in Org : Stats!Move(e, o)
  PROVE  Settled'
BY DEF Stats!Remove, Stats!Move, Settled, Stats!Day

\* A reaggregation on request makes the days it writes dirty.
LEMMA RequestSettles ==
  ASSUME StatsTypes, Settled,
         \/ \E o \in Org : Stats!ReadOrganization("request", o)
         \/ Stats!WriteOrganization("request") \/ Stats!ReadEmployees("request")
         \/ Stats!WriteEmployee("request") \/ Stats!EndDay("request")
  PROVE  Settled'
<1>1. SUFFICES ASSUME NEW d \in Stats!Day \ dirty' PROVE SettledDay(d)'
  BY DEF Settled, Stats!Day
<1>2. "request" \in Stats!Job /\ "night" \in Stats!Job /\ "night" # "request"
  BY DEF Stats!Job
<1>3. job["request"] \in JobType
  BY <1>2 DEF StatsTypes, JobTypes
<1>4. d \in Stats!Day \ dirty
  BY Zenon DEF Stats!ReadOrganization, Stats!WriteOrganization, Stats!ReadEmployees,
         Stats!WriteEmployee, Stats!EndDay, Stats!ghostVars
<1>5. job'["night"] = job["night"]
  BY Zenon, <1>2 DEF StatsTypes, JobTypes, Stats!ReadOrganization, Stats!WriteOrganization,
              Stats!ReadEmployees, Stats!WriteEmployee, Stats!EndDay
<1>6. UNCHANGED Stats!factVars
  BY Zenon DEF Stats!ReadOrganization, Stats!WriteOrganization, Stats!ReadEmployees,
         Stats!WriteEmployee, Stats!EndDay
<1>7. SameCounts(d)
  <2>1. CASE Stats!WriteOrganization("request")
    <3>1. d # job["request"].day
      BY <2>1 DEF Stats!WriteOrganization
    <3>2. ASSUME NEW o \in Org
          PROVE  orgRow'[o][d] = orgRow[o][d] /\ hourRow'[o][d] = hourRow[o][d]
      BY <2>1, <3>1 DEF Stats!WriteOrganization, StatsTypes, RowTypes
    <3> QED BY <1>6, <2>1, <3>2, SameFacts DEF SameCounts, Stats!WriteOrganization
  <2>2. CASE Stats!WriteEmployee("request")
    <3>1. d # job["request"].day
      BY <2>2 DEF Stats!WriteEmployee
    <3>2. ASSUME NEW e \in Employee PROVE employeeRow'[e][d] = employeeRow[e][d]
      BY <2>2, <3>1 DEF Stats!WriteEmployee, StatsTypes, RowTypes
    <3> QED BY <1>6, <2>2, <3>2, SameFacts DEF SameCounts, Stats!WriteEmployee
  <2>3. CASE \/ \E o \in Org : Stats!ReadOrganization("request", o)
             \/ Stats!ReadEmployees("request") \/ Stats!EndDay("request")
    BY Zenon, <2>3, SameAll DEF Stats!ReadOrganization, Stats!ReadEmployees, Stats!EndDay
  <2> QED BY <2>1, <2>2, <2>3
<1> QED BY <1>4, <1>5, <1>7, SettledStays DEF Settled

\* What concerns no log and no row, nor the night's progress.
LEMMA QuietSettles ==
  ASSUME StatsTypes, Settled, UNCHANGED Stats!factVars, UNCHANGED Stats!rowVars,
         job'["night"] = job["night"], dirty \subseteq dirty'
  PROVE  Settled'
<1>1. SUFFICES ASSUME NEW d \in Stats!Day \ dirty' PROVE SettledDay(d)'
  BY DEF Settled, Stats!Day
<1> QED BY SameAll, SettledStays DEF Settled

-----------------------------------------------------------------------------
\* The night, organization by organization: what it reads is true, and stays so while
\* nothing changes the day.
LEMMA NightReadSettles ==
  ASSUME StatsTypes, Settled, NEW o \in Org, Stats!ReadOrganization("night", o)
  PROVE  Settled'
<1>1. SUFFICES ASSUME NEW d \in Stats!Day \ dirty' PROVE SettledDay(d)'
  BY DEF Settled, Stats!Day
<1> DEFINE r == job["night"]
           q == job'["night"]
<1>2. /\ r \in JobType /\ r.pc = "orgs" /\ o \in r.left
      /\ d \in Stats!Day \ dirty /\ SettledDay(d)
  BY DEF Settled, StatsTypes, JobTypes, Stats!Job, Stats!ReadOrganization, Stats!ghostVars
<1>3. q = [r EXCEPT !.pc = "org", !.org = o, !.left = @ \ {o},
                    !.blocks = Stats!Cardinality(Stats!BlocksOf({o}, r.day)),
                    !.count = [h \in Hour |-> Stats!AtHour(Stats!BlocksOf({o}, r.day), h)]]
  BY DEF Stats!ReadOrganization, StatsTypes, JobTypes, Stats!Job
<1>4. /\ q.pc = "org" /\ q.org = o /\ q.left = r.left \ {o} /\ q.day = r.day
      /\ q.blocks = Cardinality(Stats!BlocksOf({o}, r.day))
      /\ \A h \in Hour : q.count[h] = Stats!AtHour(Stats!BlocksOf({o}, r.day), h)
  BY <1>2, <1>3, StatsCounts DEF JobType
<1>5. SameCounts(d)
  BY SameAll DEF Stats!ReadOrganization
<1>8. job'["night"] = q
  OBVIOUS
<1> HIDE DEF r, q
<1>6. CASE d = r.day
  <2>1. Begun(r, d)
    BY <1>2, <1>6 DEF SettledDay, r
  <2>2. ASSUME NEW p \in Org \ q.left, p # o PROVE OrgAgrees(p, d)'
    <3>1. OrgAgrees(p, d)
      BY <1>2, <1>4, <2>1, <2>2 DEF Begun
    <3> QED BY <1>5, <3>1, OrgStays DEF SameCounts
  <2>3. Stats!BlocksOf({o}, d)' = Stats!BlocksOf({o}, d)
    BY <1>5 DEF SameCounts
  <2>4. Begun(job["night"], d)'
    BY <1>4, <1>6, <1>8, <2>2, <2>3 DEF Begun, Stats!AtHour
  <2> QED BY <1>4, <1>6, <1>8, <2>4 DEF SettledDay
<1>7. CASE d # r.day
  <2>1. DayAgrees(d)
    BY <1>2, <1>7 DEF SettledDay, r
  <2> QED BY <1>4, <1>5, <1>7, <1>8, <2>1, DayStays DEF SettledDay
<1> QED BY <1>6, <1>7

\* Its transaction: the organization agrees.
LEMMA NightWriteSettles ==
  ASSUME StatsTypes, Settled, Stats!WriteOrganization("night") PROVE Settled'
<1>1. SUFFICES ASSUME NEW d \in Stats!Day \ dirty' PROVE SettledDay(d)'
  BY DEF Settled, Stats!Day
<1> DEFINE r == job["night"]
           q == job'["night"]
<1>2. /\ r \in JobType /\ r.pc = "org" /\ r.org \in Org /\ r.orgs = Org
      /\ d \in Stats!Day \ dirty /\ SettledDay(d)
  BY DEF Settled, StatsTypes, JobTypes, JobType, NightFits, Stats!Job, Stats!WriteOrganization
<1>3. q.pc = "orgs" /\ q.left = r.left /\ q.day = r.day
  BY <1>2 DEF Stats!WriteOrganization, StatsTypes, JobTypes, JobType, Stats!Job
<1>4. /\ orgRow' = [orgRow EXCEPT ![r.org][r.day] = r.blocks]
      /\ hourRow' = [hourRow EXCEPT ![r.org][r.day] = r.count]
      /\ employeeRow' = employeeRow /\ UNCHANGED Stats!factVars
  BY DEF Stats!WriteOrganization
<1>5. job'["night"] = q
  OBVIOUS
<1>6. /\ r.blocks \in Nat /\ r.count \in [Hour -> Nat] /\ r.day \in Stats!Day
      /\ orgRow \in [Org -> [Stats!Day -> RowValue]]
      /\ hourRow \in [Org -> [Stats!Day -> [Hour -> RowValue]]]
  BY <1>2 DEF JobType, StatsTypes, RowTypes
<1>7. SettledDay(d) <=> IF d = r.day THEN Begun(r, d) ELSE DayAgrees(d)
  BY <1>2 DEF SettledDay
<1> HIDE DEF r, q
<1>8. ASSUME NEW S PROVE Stats!BlocksOf(S, d)' = Stats!BlocksOf(S, d)
  BY <1>4, SameFacts
<1>9. CASE d = r.day
  <2>1. Begun(r, d)
    BY <1>2, <1>7, <1>9
  <2>2. ASSUME NEW p \in Org, p = r.org PROVE OrgAgrees(p, d)'
    <3>1. /\ r.blocks = Cardinality(Stats!BlocksOf({p}, d))
          /\ \A h \in Hour : r.count[h] = Stats!AtHour(Stats!BlocksOf({p}, d), h)
      BY <1>2, <2>1, <2>2 DEF Begun
    <3>2. orgRow'[p][d] = r.blocks /\ hourRow'[p][d] = r.count
      BY <1>4, <1>6, <1>9, <2>2
    <3>3. /\ Stats!Value(r.blocks) = r.blocks
          /\ \A h \in Hour : Stats!Value(r.count[h]) = r.count[h]
      BY <1>6 DEF Stats!Value, Stats!None
    <3>4. Stats!BlocksOf({p}, d)' = Stats!BlocksOf({p}, d)
      BY <1>8
    <3>5. /\ Stats!Value(orgRow'[p][d]) = Cardinality(Stats!BlocksOf({p}, d))
          /\ \A h \in Hour :
               Stats!Value(hourRow'[p][d][h]) = Stats!AtHour(Stats!BlocksOf({p}, d), h)
      BY <3>1, <3>2, <3>3
    <3> QED BY <3>4, <3>5 DEF OrgAgrees, Stats!AtHour, Stats!Value, Stats!None
  <2>3. ASSUME NEW p \in Org \ r.left, p # r.org PROVE OrgAgrees(p, d)'
    <3>1. OrgAgrees(p, d)
      BY <2>1, <2>3 DEF Begun
    <3>2. orgRow'[p][d] = orgRow[p][d] /\ hourRow'[p][d] = hourRow[p][d]
      BY <1>4, <1>6, <2>3
    <3>3. Stats!BlocksOf({p}, d)' = Stats!BlocksOf({p}, d)
      BY <1>8
    <3> QED BY <3>1, <3>2, <3>3, OrgStays
  <2>4. Begun(job["night"], d)'
    BY <1>3, <1>5, <2>2, <2>3 DEF Begun
  <2> QED BY <1>3, <1>5, <1>9, <2>4 DEF SettledDay
<1>10. CASE d # r.day
  <2>1. ASSUME NEW p \in Org
        PROVE  orgRow'[p][d] = orgRow[p][d] /\ hourRow'[p][d] = hourRow[p][d]
    BY <1>4, <1>6, <1>10
  <2>2. SameCounts(d)
    BY <1>4, <1>8, <2>1 DEF SameCounts
  <2>3. DayAgrees(d)'
    BY <1>2, <1>7, <1>10, <2>2, DayStays
  <2> QED BY <1>3, <1>5, <1>10, <2>3 DEF SettledDay
<1> QED BY <1>9, <1>10

\* The employees: those with a log, and those with a row, are to be written; all the
\* others have neither.
LEMMA NightReadEmployeesSettles ==
  ASSUME StatsTypes, Settled, Stats!ReadEmployees("night") PROVE Settled'
<1>1. SUFFICES ASSUME NEW d \in Stats!Day \ dirty' PROVE SettledDay(d)'
  BY DEF Settled, Stats!Day
<1> DEFINE r == job["night"]
           q == job'["night"]
           rows == Stats!EmployeeRows(Org, d)
<1>2. /\ r \in JobType /\ r.pc = "orgs" /\ r.left = {} /\ r.orgs = Org
      /\ d \in Stats!Day \ dirty /\ SettledDay(d)
  BY DEF Settled, StatsTypes, JobTypes, NightFits, Stats!Job, Stats!ReadEmployees,
         Stats!ghostVars
<1>3. /\ q.pc = "employees" /\ q.left = {} /\ q.day = r.day
      /\ d = r.day => q.rows = rows
  BY <1>2 DEF Stats!ReadEmployees, StatsTypes, JobTypes, JobType, Stats!Job
<1>4. SameCounts(d)
  BY SameAll DEF Stats!ReadEmployees
<1>5. job'["night"] = q
  OBVIOUS
<1>6. SettledDay(d) <=> IF d = r.day THEN Begun(r, d) ELSE DayAgrees(d)
  BY <1>2 DEF SettledDay
<1>7. \A w \in rows : w.blocks = Cardinality(Stats!OfEmployee(Stats!BlocksOf(Org, d), w.employee))
  BY StatsCounts DEF Stats!EmployeeRows
<1>8. ASSUME NEW e \in Employee, \A w \in rows : w.employee # e PROVE EmployeeAgrees(e, d)
  <2> DEFINE v == [employee |-> e, org |-> at[e],
                   blocks |-> Stats!Cardinality(Stats!OfEmployee(Stats!BlocksOf(Org, d), e))]
  <2>0. v.employee = e /\ v \notin rows
    BY <1>8
  <2>1. /\ Stats!OfEmployee(Stats!LogsOf(Org, d), e) = {}
        /\ \/ employeeRow[e][d].blocks = -1
           \/ employeeRow[e][d].org \notin Org
    BY <2>0 DEF Stats!EmployeeRows, Stats!None
  <2>2. employeeRow[e][d].blocks = -1
    BY <2>1 DEF StatsTypes, RowTypes
  <2>3. Stats!OfEmployee(Stats!BlocksOf(Org, d), e) = {}
    BY <2>1 DEF Stats!OfEmployee, Stats!BlocksOf
  <2> QED BY <2>2, <2>3, FS_EmptySet DEF EmployeeAgrees, Stats!Value, Stats!None
<1> HIDE DEF r, q, rows
<1>9. CASE d = r.day
  <2>1. ASSUME NEW p \in Org PROVE OrgAgrees(p, d)'
    <3>1. OrgAgrees(p, d)
      BY <1>2, <1>6, <1>9 DEF Begun
    <3> QED BY <1>4, <3>1, OrgStays DEF SameCounts
  <2>2. ASSUME NEW e \in Employee PROVE EmployeeAgrees(e, d)' <=> EmployeeAgrees(e, d)
    BY <1>4, EmployeeStays DEF SameCounts
  <2>3. Stats!BlocksOf(Org, d)' = Stats!BlocksOf(Org, d)
    BY <1>4 DEF SameCounts
  <2>4. Begun(job["night"], d)'
    BY <1>3, <1>5, <1>7, <1>8, <1>9, <2>1, <2>2, <2>3 DEF Begun, Stats!OfEmployee
  <2> QED BY <1>3, <1>5, <1>9, <2>4 DEF SettledDay
<1>10. CASE d # r.day
  BY <1>2, <1>3, <1>4, <1>5, <1>6, <1>10, DayStays DEF SettledDay
<1> QED BY <1>9, <1>10

\* An employee's day is written: it agrees.
LEMMA NightWriteEmployeeSettles ==
  ASSUME StatsTypes, Settled, Stats!WriteEmployee("night") PROVE Settled'
<1>1. SUFFICES ASSUME NEW d \in Stats!Day \ dirty' PROVE SettledDay(d)'
  BY DEF Settled, Stats!Day
<1> DEFINE r == job["night"]
           q == job'["night"]
<1>2. /\ r \in JobType /\ r.pc = "employees" /\ r.left = {}
      /\ d \in Stats!Day \ dirty /\ SettledDay(d)
  BY DEF Settled, StatsTypes, JobTypes, NightFits, Stats!Job, Stats!WriteEmployee
<1>3. PICK w \in r.rows :
           /\ employeeRow' = [employeeRow EXCEPT ![w.employee][r.day] =
                                [org |-> w.org, blocks |-> w.blocks]]
           /\ job' = [job EXCEPT !["night"].rows = @ \ {w}]
  BY DEF Stats!WriteEmployee
<1>4. q.pc = "employees" /\ q.left = {} /\ q.day = r.day /\ q.rows = r.rows \ {w}
  BY <1>2, <1>3 DEF StatsTypes, JobTypes, JobType, Stats!Job
<1>5. job'["night"] = q
  OBVIOUS
<1>6. /\ w \in WriteType /\ r.day \in Stats!Day
      /\ employeeRow \in [Employee -> [Stats!Day -> EmployeeRowType]]
      /\ orgRow' = orgRow /\ hourRow' = hourRow /\ UNCHANGED Stats!factVars
  BY <1>2 DEF JobType, StatsTypes, RowTypes, Stats!WriteEmployee
<1>7. SettledDay(d) <=> IF d = r.day THEN Begun(r, d) ELSE DayAgrees(d)
  BY <1>2 DEF SettledDay
<1> HIDE DEF r, q
<1>8. ASSUME NEW S PROVE Stats!BlocksOf(S, d)' = Stats!BlocksOf(S, d)
  BY <1>6, SameFacts
<1>9. CASE d = r.day
  <2>1. Begun(r, d)
    BY <1>2, <1>7, <1>9
  <2>2. ASSUME NEW p \in Org PROVE OrgAgrees(p, d)'
    <3>1. OrgAgrees(p, d)
      BY <1>2, <2>1 DEF Begun
    <3> QED BY <1>6, <1>8, <3>1, OrgStays
  <2>3. ASSUME NEW e \in Employee, e = w.employee PROVE EmployeeAgrees(e, d)'
    <3>1. w.blocks = Cardinality(Stats!OfEmployee(Stats!BlocksOf(Org, d), e))
      BY <1>2, <1>3, <2>1, <2>3 DEF Begun
    <3>2. employeeRow'[e][d].blocks = w.blocks
      BY <1>3, <1>6, <1>9, <2>3
    <3>3. Stats!Value(w.blocks) = w.blocks
      BY <1>6 DEF WriteType, Stats!Value, Stats!None
    <3>4. Stats!BlocksOf(Org, d)' = Stats!BlocksOf(Org, d)
      BY <1>8
    <3>5. Stats!Value(employeeRow'[e][d].blocks)
            = Cardinality(Stats!OfEmployee(Stats!BlocksOf(Org, d), e))
      BY <3>1, <3>2, <3>3
    <3> QED BY <3>4, <3>5 DEF EmployeeAgrees, Stats!OfEmployee, Stats!Value, Stats!None
  <2>4. ASSUME NEW e \in Employee, e # w.employee
        PROVE  EmployeeAgrees(e, d)' \/ \E v \in r.rows \ {w} : v.employee = e
    <3>1. CASE EmployeeAgrees(e, d)
      <4>1. employeeRow'[e][d] = employeeRow[e][d]
        BY <1>3, <1>6, <2>4
      <4>2. Stats!BlocksOf(Org, d)' = Stats!BlocksOf(Org, d)
        BY <1>8
      <4> QED BY <3>1, <4>1, <4>2, EmployeeStays
    <3>2. CASE \E v \in r.rows : v.employee = e
      BY <2>4, <3>2
    <3> QED BY <1>2, <2>1, <3>1, <3>2 DEF Begun
  <2>5. \A v \in r.rows \ {w} :
           v.blocks = Cardinality(Stats!OfEmployee(Stats!BlocksOf(Org, d)', v.employee))
    <3>1. Stats!BlocksOf(Org, d)' = Stats!BlocksOf(Org, d)
      BY <1>8
    <3> QED BY <1>2, <2>1, <3>1 DEF Begun
  <2>6. Begun(job["night"], d)'
    BY <1>4, <1>5, <2>2, <2>3, <2>4, <2>5 DEF Begun, Stats!OfEmployee
  <2> QED BY <1>4, <1>5, <1>9, <2>6 DEF SettledDay
<1>10. CASE d # r.day
  <2>1. ASSUME NEW e \in Employee PROVE employeeRow'[e][d] = employeeRow[e][d]
    BY <1>3, <1>6, <1>10
  <2>2. SameCounts(d)
    BY <1>6, <1>8, <2>1 DEF SameCounts
  <2>3. DayAgrees(d)'
    BY <1>2, <1>7, <1>10, <2>2, DayStays
  <2> QED BY <1>4, <1>5, <1>10, <2>3 DEF SettledDay
<1> QED BY <1>9, <1>10

-----------------------------------------------------------------------------
\* A reaggregation begins: nothing is asked of the day it begins with.
LEMMA StartSettles ==
  ASSUME StatsTypes, UNCHANGED Stats!factVars, UNCHANGED Stats!rowVars,
         NEW n \in Stats!Day, NEW days \in SUBSET Stats!Day, NEW b \in Stats!Day,
         job'["night"] = Stats!Started(n, b, days, Org),
         \A d \in Stats!Day \ dirty' : d # b => DayAgrees(d)
  PROVE  Settled'
<1>1. SUFFICES ASSUME NEW d \in Stats!Day \ dirty' PROVE SettledDay(d)'
  BY DEF Settled, Stats!Day
<1> DEFINE q == Stats!Started(n, b, days, Org)
<1>2. q.pc = "orgs" /\ q.day = b /\ q.left = Org
  BY StartedTyped
<1>3. job'["night"] = q
  OBVIOUS
<1> HIDE DEF q
<1>4. CASE d = b
  <2>1. Begun(job["night"], d)'
    BY <1>2, <1>3 DEF Begun
  <2> QED BY <1>2, <1>3, <1>4, <2>1 DEF SettledDay
<1>5. CASE d # b
  <2>1. DayAgrees(d)'
    BY <1>5, SameAll, DayStays
  <2> QED BY <1>2, <1>3, <1>5, <2>1 DEF SettledDay
<1> QED BY <1>4, <1>5

\* None is under way.
LEMMA EndSettles ==
  ASSUME StatsTypes, UNCHANGED Stats!factVars, UNCHANGED Stats!rowVars,
         job'["night"] = Stats!Idle, \A d \in Stats!Day \ dirty' : DayAgrees(d)
  PROVE  Settled'
<1>1. SUFFICES ASSUME NEW d \in Stats!Day \ dirty' PROVE SettledDay(d)'
  BY DEF Settled, Stats!Day
<1>2. DayAgrees(d)'
  BY SameAll, DayStays
<1> QED BY <1>2 DEF SettledDay, Stats!Idle

LEMMA NightEndDaySettles ==
  ASSUME StatsTypes, Settled, Stats!EndDay("night") PROVE Settled'
<1> DEFINE r == job["night"]
           rest == r.days \ {r.day}
<1>1. /\ r \in JobType /\ r.pc = "employees" /\ r.rows = {} /\ r.left = {}
      /\ r.night \in Nat /\ r.night \in Stats!Day /\ r.days \subseteq {r.night, r.night - 1}
      /\ r.days \in SUBSET Stats!Day
  BY DEF StatsTypes, JobTypes, JobType, NightFits, ClockTypes, Stats!Job, Stats!EndDay
<1>2. /\ job'["night"] = IF rest = {} THEN Stats!Idle
                         ELSE Stats!Started(r.night, Stats!Max(rest), rest, Org)
      /\ UNCHANGED Stats!factVars /\ UNCHANGED Stats!rowVars
      /\ dirty' = dirty \ (IF rest = {} THEN {} ELSE {Stats!Max(rest)})
  BY DEF Stats!EndDay, StatsTypes, JobTypes, Stats!Job
<1>3. ASSUME NEW d \in Stats!Day \ dirty PROVE DayAgrees(d)
  <2>1. CASE d # r.day
    BY <1>3, <2>1 DEF Settled, SettledDay
  <2>2. CASE d = r.day
    <3>1. Begun(r, d)
      BY <1>1, <1>3, <2>2 DEF Settled, SettledDay
    <3> QED BY <1>1, <3>1 DEF Begun, DayAgrees
  <2> QED BY <2>1, <2>2
<1>4. CASE rest = {}
  BY <1>2, <1>3, <1>4, EndSettles
<1>5. CASE rest # {}
  <2>1. Stats!Max(rest) \in rest
    BY <1>1, <1>5, MaxOfTwo
  <2>2. Stats!Max(rest) \in Stats!Day /\ rest \in SUBSET Stats!Day
    BY <1>1, <2>1
  <2> QED BY <1>1, <1>2, <1>3, <1>5, <2>2, StartSettles
<1> QED BY <1>4, <1>5

LEMMA FailDaySettles ==
  ASSUME StatsTypes, Settled, Stats!FailDay PROVE Settled'
<1> DEFINE r == job["night"]
           rest == r.days \ {r.day}
<1>1. /\ r \in JobType /\ r.pc # "idle"
      /\ r.night \in Nat /\ r.night \in Stats!Day /\ r.days \subseteq {r.night, r.night - 1}
      /\ r.days \in SUBSET Stats!Day
  BY DEF StatsTypes, JobTypes, JobType, NightFits, ClockTypes, Stats!Job, Stats!FailDay
<1>2. /\ job'["night"] = IF rest = {} THEN Stats!Idle
                         ELSE Stats!Started(r.night, Stats!Max(rest), rest, Org)
      /\ UNCHANGED Stats!factVars /\ UNCHANGED Stats!rowVars
      /\ dirty' = (dirty \cup {r.day}) \ (IF rest = {} THEN {} ELSE {Stats!Max(rest)})
  BY DEF Stats!FailDay, StatsTypes, JobTypes, Stats!Job
<1>3. ASSUME NEW d \in Stats!Day \ dirty, d # r.day PROVE DayAgrees(d)
  BY <1>3 DEF Settled, SettledDay
<1>4. CASE rest = {}
  BY <1>2, <1>3, <1>4, EndSettles
<1>5. CASE rest # {}
  <2>1. Stats!Max(rest) \in rest
    BY <1>1, <1>5, MaxOfTwo
  <2>2. Stats!Max(rest) \in Stats!Day /\ rest \in SUBSET Stats!Day
    BY <1>1, <2>1
  <2> QED BY <1>1, <1>2, <1>3, <1>5, <2>2, StartSettles
<1> QED BY <1>4, <1>5

LEMMA RunTickSettles ==
  ASSUME StatsTypes, Settled, Stats!RunTick PROVE Settled'
<1>1. /\ today \in Stats!Day /\ {today, today - 1} \in SUBSET Stats!Day /\ today \in Nat
  BY StatsConstants DEF StatsTypes, ClockTypes, Stats!Day
<1>2. Stats!Max({today, today - 1}) = today
  BY <1>1, MaxOfTwo
<1>3. job'["night"] = Stats!Started(today, today, {today, today - 1}, Org)
  BY <1>2 DEF StatsTypes, JobTypes, Stats!RunTick, Stats!RecentDays, Stats!Job
<1>4. \A d \in Stats!Day \ dirty' : d # today => DayAgrees(d)
  BY DEF Settled, SettledDay, Stats!RunTick
<1>5. UNCHANGED Stats!factVars /\ UNCHANGED Stats!rowVars
  BY DEF Stats!RunTick
<1> QED BY <1>1, <1>3, <1>4, <1>5, StartSettles

LEMMA StopSettles ==
  ASSUME StatsTypes, Settled, Stats!Stop PROVE Settled'
<1>1. job'["night"] = Stats!Idle
  BY DEF Stats!Stop, Stats!Job
<1>2. \A d \in Stats!Day \ dirty' : DayAgrees(d)
  BY DEF Settled, SettledDay, Stats!Stop, StatsTypes, NightFits
<1> QED BY <1>1, <1>2, EndSettles DEF Stats!Stop

LEMMA SettledStep ==
  ASSUME StatsTypes, Settled, [Stats!Next]_(Stats!vars) PROVE Settled'
<1>1. CASE UNCHANGED Stats!vars
  BY <1>1, QuietSettles DEF Stats!vars, Stats!ghostVars
<1>2. ASSUME NEW d, NEW S, Stats!ReaggregateDay(d, S) PROVE Settled'
  BY <1>2, QuietSettles DEF Stats!ReaggregateDay, StatsTypes, JobTypes, Stats!Job,
                            Stats!ghostVars
<1>3. CASE Stats!Tick
  BY <1>3, QuietSettles DEF Stats!Tick
<1>4. CASE Stats!Start
  BY <1>4, QuietSettles DEF Stats!Start, Stats!ghostVars
<1>5. ASSUME NEW j \in Stats!Job,
             \/ \E o \in Org : Stats!ReadOrganization(j, o)
             \/ Stats!WriteOrganization(j) \/ Stats!ReadEmployees(j)
             \/ Stats!WriteEmployee(j) \/ Stats!EndDay(j)
      PROVE  Settled'
  <2>1. CASE j = "request"
    BY <1>5, <2>1, RequestSettles
  <2>2. CASE j = "night"
    BY <1>5, <2>2, NightReadSettles, NightWriteSettles, NightReadEmployeesSettles,
       NightWriteEmployeeSettles, NightEndDaySettles
  <2> QED BY <2>1, <2>2 DEF Stats!Job
<1> QED BY <1>1, <1>2, <1>3, <1>4, <1>5, IngestSettles, PeopleSettle, FailDaySettles,
           RunTickSettles, StopSettles DEF Stats!Next

-----------------------------------------------------------------------------
(* Nights *)

\* A night has failed, is through with both of its days, or is under way.
Handled(n) ==
    \/ n \in excused
    \/ {n, n - 1} \subseteq covered[n]
    \/ job["night"].pc # "idle" /\ job["night"].night = n

\* The scheduler remembers the night only once it runs; a process that is down in the
\* window was there when it opened, or not.
NightsHandled ==
    /\ \A n \in 1..today - 1 : Handled(n)
    /\ window = "after" => Handled(today)
    /\ lastRun = today => Handled(today)
    /\ window = "open" /\ ~ up => today \in excused

\* A night that is handled remains so: when the last of its days is done, both of them
\* are covered, and when it is cut short it is excused.
LEMMA HandledKept ==
  ASSUME StatsTypes, NEW n \in 1..today, Handled(n), Stats!Next PROVE Handled(n)'
<1>0. "night" \in Stats!Job /\ "request" \in Stats!Job /\ n \in Stats!Day
  BY StatsConstants DEF Stats!Job, StatsTypes, ClockTypes, Stats!Day
<1>1. ASSUME excused \subseteq excused', covered' = covered,
             \/ job'["night"] = job["night"]
             \/ /\ job'["night"].pc # "idle"
                /\ job'["night"].night = job["night"].night
             \/ job["night"].pc = "idle"
      PROVE  Handled(n)'
  BY <1>1 DEF Handled
<1>2. ASSUME NEW c \in Stats!Cell, NEW t, Stats!Ingest(c, t) PROVE Handled(n)'
  BY <1>1, <1>2 DEF Stats!Ingest
<1>3. ASSUME NEW e \in Employee, Stats!Remove(e) \/ \E o \in Org : Stats!Move(e, o)
      PROVE  Handled(n)'
  BY <1>1, <1>3 DEF Stats!Remove, Stats!Move
<1>4. ASSUME NEW d, NEW S, Stats!ReaggregateDay(d, S) PROVE Handled(n)'
  BY <1>0, <1>1, <1>4 DEF StatsTypes, JobTypes, Stats!ReaggregateDay, Stats!ghostVars
<1>5. ASSUME NEW j \in Stats!Job,
             \/ \E o \in Org : Stats!ReadOrganization(j, o)
             \/ Stats!WriteOrganization(j) \/ Stats!ReadEmployees(j)
             \/ Stats!WriteEmployee(j)
      PROVE  Handled(n)'
  <2>1. excused' = excused /\ covered' = covered
    BY Zenon, <1>5 DEF Stats!ReadOrganization, Stats!WriteOrganization, Stats!ReadEmployees,
                Stats!WriteEmployee, Stats!ghostVars
  <2>2. CASE j = "request"
    <3>1. job'["night"] = job["night"]
      BY Zenon, <1>0, <1>5, <2>2 DEF StatsTypes, JobTypes, Stats!ReadOrganization,
           Stats!WriteOrganization, Stats!ReadEmployees, Stats!WriteEmployee
    <3> QED BY <1>1, <2>1, <3>1
  <2>3. CASE j = "night"
    <3>1. job["night"] \in JobType
      BY <1>0 DEF StatsTypes, JobTypes
    <3> DEFINE Goes == /\ job'["night"].pc # "idle"
                       /\ job'["night"].night = job["night"].night
    <3>2. ASSUME NEW o \in Org, Stats!ReadOrganization(j, o) PROVE Goes
      BY <1>0, <2>3, <3>1, <3>2 DEF StatsTypes, JobTypes, JobType, Stats!ReadOrganization
    <3>3. ASSUME Stats!WriteOrganization(j) PROVE Goes
      BY <1>0, <2>3, <3>1, <3>3 DEF StatsTypes, JobTypes, JobType, Stats!WriteOrganization
    <3>4. ASSUME Stats!ReadEmployees(j) PROVE Goes
      BY <1>0, <2>3, <3>1, <3>4 DEF StatsTypes, JobTypes, JobType, Stats!ReadEmployees
    <3>5. ASSUME Stats!WriteEmployee(j) PROVE Goes
      BY <1>0, <2>3, <3>1, <3>5 DEF StatsTypes, JobTypes, JobType, Stats!WriteEmployee
    <3>6. job'["night"].pc # "idle" /\ job'["night"].night = job["night"].night
      BY <1>5, <3>2, <3>3, <3>4, <3>5
    <3> QED BY <1>1, <2>1, <3>6
  <2> QED BY <2>2, <2>3 DEF Stats!Job
<1>6. ASSUME Stats!EndDay("request") PROVE Handled(n)'
  BY <1>0, <1>1, <1>6 DEF StatsTypes, JobTypes, Stats!EndDay
<1>7. ASSUME Stats!EndDay("night") PROVE Handled(n)'
  <2> DEFINE r == job["night"]
             rest == r.days \ {r.day}
  <2>1. /\ r.pc = "employees" /\ r.night \in 1..today /\ r.night \in Nat
        /\ r.night \in Stats!Day /\ r.day \in r.days
        /\ r.days \subseteq {r.night, r.night - 1} /\ r.days \in SUBSET Stats!Day
        /\ \/ r.night \in excused
           \/ {r.night, r.night - 1} \ r.days \subseteq covered[r.night]
    BY <1>0, <1>7 DEF StatsTypes, JobTypes, JobType, ClockTypes, NightFits, Stats!EndDay
  <2>2. /\ job'["night"] = IF rest = {} THEN Stats!Idle
                           ELSE Stats!Started(r.night, Stats!Max(rest), rest, Org)
        /\ covered' = [covered EXCEPT ![r.night] = @ \cup {r.day}]
        /\ excused' = excused
    BY <1>0, <1>7 DEF Stats!EndDay, StatsTypes, JobTypes
  <2>3. covered[n] \subseteq covered'[n]
    BY <1>0, <2>1, <2>2 DEF StatsTypes, ClockTypes
  <2>4. CASE n \in excused \/ {n, n - 1} \subseteq covered[n]
    BY <2>2, <2>3, <2>4 DEF Handled
  <2>5. CASE r.night = n /\ rest = {}
    <3>1. {r.night, r.night - 1} \ {r.day} \subseteq {r.night, r.night - 1} \ r.days
      BY <2>5
    <3>2. \/ n \in excused
          \/ {n, n - 1} \subseteq covered'[n]
      BY <1>0, <2>1, <2>2, <2>5, <3>1 DEF StatsTypes, ClockTypes
    <3> QED BY <2>2, <3>2 DEF Handled
  <2>6. CASE r.night = n /\ rest # {}
    <3>1. Stats!Max(rest) \in rest
      BY <2>1, <2>6, MaxOfTwo
    <3>2. Stats!Max(rest) \in Stats!Day /\ rest \in SUBSET Stats!Day
      BY <2>1, <3>1
    <3> DEFINE q == Stats!Started(r.night, Stats!Max(rest), rest, Org)
    <3>3. q.pc = "orgs" /\ q.night = n
      BY <2>1, <2>6, <3>2, StartedTyped
    <3>4. job'["night"] = q
      BY <2>2, <2>6
    <3> HIDE DEF q
    <3> QED BY <3>3, <3>4 DEF Handled
  <2> QED BY <2>4, <2>5, <2>6 DEF Handled
<1>8. CASE Stats!RunTick
  BY <1>1, <1>8 DEF Stats!RunTick
<1>9. CASE Stats!Tick
  BY <1>1, <1>9 DEF Stats!Tick, Stats!Clock
<1>10. CASE Stats!FailDay
  <2>1. /\ excused' = excused \cup {job["night"].night} /\ covered' = covered
        /\ job["night"].pc # "idle"
    BY <1>10 DEF Stats!FailDay
  <2> QED BY <2>1 DEF Handled
<1>11. CASE Stats!Stop
  <2>1. /\ covered' = covered /\ excused \subseteq excused'
        /\ job["night"].pc # "idle" => job["night"].night \in excused'
    BY <1>11 DEF Stats!Stop
  <2> QED BY <2>1 DEF Handled
<1>12. CASE Stats!Start
  BY <1>1, <1>12 DEF Stats!Start, Stats!ghostVars
<1> QED BY <1>2, <1>3, <1>4, <1>5, <1>6, <1>7, <1>8, <1>9, <1>10, <1>11, <1>12
         DEF Stats!Next, Stats!Job

LEMMA NightsHandledStep ==
  ASSUME StatsTypes, NightsHandled, [Stats!Next]_(Stats!vars) PROVE NightsHandled'
<1>1. CASE UNCHANGED Stats!vars
  BY <1>1 DEF Stats!vars, Stats!clockVars, Stats!processVars, Stats!ghostVars,
              NightsHandled, Handled
<1>2. CASE Stats!RunTick
  <2>1. /\ today' = today /\ window' = "open" /\ up' = TRUE
    BY <1>2 DEF Stats!RunTick, Stats!InRunWindow, Stats!clockVars, StatsTypes, ClockTypes
  <2>2. \A n \in 1..today - 1 : Handled(n)'
    BY <1>2, HandledKept DEF NightsHandled, StatsTypes, ClockTypes, Stats!Next
  <2>3. Handled(today)'
    <3>1. /\ today \in Stats!Day /\ {today, today - 1} \in SUBSET Stats!Day /\ today \in Nat
      BY StatsConstants DEF StatsTypes, ClockTypes, Stats!Day
    <3>2. Stats!Max({today, today - 1}) = today
      BY <3>1, MaxOfTwo
    <3> DEFINE q == Stats!Started(today, today, {today, today - 1}, Org)
    <3>3. q.pc = "orgs" /\ q.night = today
      BY <3>1, StartedTyped
    <3>4. job'["night"] = q
      BY <1>2, <3>2 DEF StatsTypes, JobTypes, Stats!RunTick, Stats!RecentDays, Stats!Job
    <3> HIDE DEF q
    <3> QED BY <2>1, <3>3, <3>4 DEF Handled
  <2> QED BY <2>1, <2>2, <2>3 DEF NightsHandled
<1>3. CASE Stats!Tick
  <2>1. \A n \in 1..today : Handled(n) => Handled(n)'
    BY <1>3, HandledKept DEF Stats!Next
  <2>2. UNCHANGED <<up, lastRun, job, covered>> /\ excused \subseteq excused'
    BY <1>3 DEF Stats!Tick, Stats!Clock, Stats!processVars
  <2>3. CASE window = "before" /\ window' = "open"
    BY <1>3, <2>1, <2>2, <2>3 DEF NightsHandled, Stats!Tick, Stats!Clock, StatsTypes,
                                  ClockTypes, Handled
  <2>4. CASE window = "open" /\ window' = "after"
    <3>1. today' = today /\ today \in 1..today
      BY <1>3, <2>4 DEF Stats!Tick, Stats!Clock, StatsTypes, ClockTypes
    <3>2. CASE up /\ lastRun # today
      <4>1. today \in excused'
        BY <1>3, <2>4, <3>2 DEF Stats!Tick, Stats!Clock, Stats!InRunWindow
      <4> QED BY <2>1, <2>2, <2>4, <3>1, <4>1 DEF NightsHandled, Handled, StatsTypes, ClockTypes
    <3>3. CASE ~ up
      <4>1. today \in excused'
        BY <2>2, <2>4, <3>3 DEF NightsHandled
      <4> QED BY <2>1, <2>2, <2>4, <3>1, <4>1 DEF NightsHandled, Handled, StatsTypes, ClockTypes
    <3>4. CASE lastRun = today
      BY <2>1, <2>2, <2>4, <3>1, <3>4 DEF NightsHandled, Handled, StatsTypes, ClockTypes
    <3> QED BY <3>2, <3>3, <3>4
  <2>5. CASE window = "after" /\ window' = "before"
    <3>1. today' = today + 1 /\ today \in Nat /\ lastRun \in 0..today
      BY <1>3, <2>5 DEF Stats!Tick, Stats!Clock, StatsTypes, ClockTypes
    <3>2. \A n \in 1..today : Handled(n)
      BY <2>5, <3>1 DEF NightsHandled
    <3>3. \A n \in 1..today' - 1 : Handled(n)'
      BY <2>1, <3>1, <3>2
    <3>4. lastRun' # today'
      BY <2>2, <3>1
    <3> QED BY <2>5, <3>3, <3>4 DEF NightsHandled
  <2> QED BY <1>3, <2>3, <2>4, <2>5 DEF Stats!Tick, Stats!Clock
<1>4. CASE Stats!Stop
  <2>1. /\ today' = today /\ window' = window /\ lastRun' = 0
        /\ window = "open" => today \in excused'
    BY <1>4 DEF Stats!Stop, Stats!clockVars
  <2>2. \A n \in 1..today : Handled(n) => Handled(n)'
    BY <1>4, HandledKept DEF Stats!Next
  <2>3. today \in 1..today /\ today > 0
    BY DEF StatsTypes, ClockTypes
  <2>4. /\ \A n \in 1..today' - 1 : Handled(n)'
        /\ window' = "after" => Handled(today)'
    BY <2>1, <2>2, <2>3 DEF NightsHandled, Handled
  <2> QED BY <2>1, <2>3, <2>4 DEF NightsHandled
<1>5. ASSUME Stats!Next, today' = today, window' = window, lastRun' = lastRun,
             up => up', excused \subseteq excused'
      PROVE  NightsHandled'
  <2>1. \A n \in 1..today : Handled(n) => Handled(n)'
    BY <1>5, HandledKept
  <2>2. today \in 1..today /\ up \in BOOLEAN
    BY DEF StatsTypes, ClockTypes
  <2> QED BY <1>5, <2>1, <2>2 DEF NightsHandled, Handled
<1>6. ASSUME NEW c \in Stats!Cell, NEW t \in {{}, {"org", "hour", "employee"}},
             Stats!Ingest(c, t)
      PROVE  NightsHandled'
  BY Zenon, <1>5, <1>6 DEF Stats!Next, Stats!Ingest, Stats!clockVars, Stats!processVars
<1>7. ASSUME NEW e \in Employee, Stats!Remove(e) \/ \E o \in Org : Stats!Move(e, o)
      PROVE  NightsHandled'
  BY <1>5, <1>7 DEF Stats!Next, Stats!Remove, Stats!Move, Stats!clockVars, Stats!processVars
<1>8. ASSUME NEW d \in {today, today - 1} \ {0}, NEW S \in SUBSET Org \ {{}},
             Stats!ReaggregateDay(d, S)
      PROVE  NightsHandled'
  BY Zenon, <1>5, <1>8 DEF Stats!Next, Stats!ReaggregateDay, Stats!clockVars, Stats!processVars,
                    Stats!ghostVars
<1>9. ASSUME NEW j \in Stats!Job, NEW o \in Org, Stats!ReadOrganization(j, o)
      PROVE  NightsHandled'
  BY Zenon, <1>5, <1>9 DEF Stats!Next, Stats!ReadOrganization, Stats!clockVars,
                    Stats!processVars, Stats!ghostVars
<1>10. ASSUME NEW j \in Stats!Job,
              \/ Stats!WriteOrganization(j) \/ Stats!ReadEmployees(j)
              \/ Stats!WriteEmployee(j) \/ Stats!EndDay(j)
       PROVE  NightsHandled'
  <2>1. Stats!Next
    BY <1>10 DEF Stats!Next
  <2>2. UNCHANGED <<today, window, lastRun, up, excused>>
    BY <1>10 DEF Stats!WriteOrganization, Stats!ReadEmployees, Stats!WriteEmployee,
         Stats!EndDay, Stats!clockVars, Stats!processVars, Stats!ghostVars
  <2> QED BY <1>5, <2>1, <2>2
<1>11. CASE Stats!FailDay
  BY <1>5, <1>11 DEF Stats!Next, Stats!FailDay, Stats!clockVars, Stats!processVars
<1>12. CASE Stats!Start
  BY <1>5, <1>12 DEF Stats!Next, Stats!Start, Stats!clockVars, Stats!ghostVars
<1> QED BY <1>1, <1>2, <1>3, <1>4, <1>6, <1>7, <1>8, <1>9, <1>10, <1>11, <1>12
         DEF Stats!Next

-----------------------------------------------------------------------------
(* The statistics, always *)

StatsInv == StatsTypes /\ Settled /\ NightsHandled

LEMMA StatsStart == Stats!Init => StatsInv
<1> SUFFICES ASSUME Stats!Init PROVE StatsInv
  OBVIOUS
<1>1. IsFiniteSet({})
  BY FS_EmptySet
<1>2. FactTypes
  BY <1>1 DEF Stats!Init, FactTypes
<1>3. RowTypes
  BY DEF Stats!Init, RowTypes, EmployeeRowType, RowValue, Stats!None
<1>4. Stats!Idle \in JobType /\ Stats!Idle.left = {} /\ Stats!Idle.pc = "idle"
      /\ Stats!Idle.days = {}
  BY IdleTyped DEF Stats!Idle
<1>5. JobTypes /\ NightFits
  BY <1>4 DEF Stats!Init, JobTypes, NightFits, Stats!Job
<1>6. ClockTypes
  BY StatsConstants DEF Stats!Init, ClockTypes
<1>7. Settled
  BY DEF Stats!Init, Settled
<1>8. NightsHandled
  BY DEF Stats!Init, NightsHandled
<1> QED BY <1>2, <1>3, <1>5, <1>6, <1>7, <1>8 DEF StatsInv, StatsTypes

LEMMA StatsStep ==
  StatsInv /\ [Stats!Next]_(Stats!vars) => StatsInv'
<1> SUFFICES ASSUME StatsInv, [Stats!Next]_(Stats!vars) PROVE StatsInv'
  OBVIOUS
<1>1. StatsTypes'
  <2>1. CASE Stats!Next
    BY <2>1, FactsKept, RowsKept, JobsKept, ClockKept, NightKept DEF StatsInv, StatsTypes
  <2>2. CASE UNCHANGED Stats!vars
    BY <2>2 DEF StatsInv, StatsTypes, FactTypes, RowTypes, JobTypes, ClockTypes, NightFits,
         Stats!vars, Stats!clockVars, Stats!processVars, Stats!factVars, Stats!rowVars,
         Stats!ghostVars
  <2> QED BY <2>1, <2>2
<1> QED BY <1>1, SettledStep, NightsHandledStep DEF StatsInv

LEMMA StatsAlways == Stats!Spec => []StatsInv
BY StatsStart, StatsStep, PTL DEF Stats!Spec

\* Days, rows and jobs are of their types, and an organization's hours appear with its
\* day.
THEOREM StatsTyped == Stats!Spec => []Stats!TypeOK
<1>1. StatsInv => Stats!TypeOK
  BY DEF StatsInv, StatsTypes, FactTypes, RowTypes, JobTypes, ClockTypes, Stats!TypeOK,
         Stats!None
<1> QED BY <1>1, StatsAlways, PTL

\* getHourlyData: whatever the hour rows hold, the chart adds up to the logs.
LEMMA HoursAddUp ==
  ASSUME StatsTypes, NEW S, NEW d
  PROVE  Stats!SumOver(Stats!HourlyData(S, d), Hour) = Cardinality(Stats!BlocksOf(S, d))
<1> DEFINE L == Stats!BlocksOf(S, d)
           counts == [h \in Hour |-> Stats!AtHour(L, h)]
           rows == [h \in Hour |->
                      Stats!SumOver([o \in S |-> Stats!Value(hourRow[o][d][h])], S)]
           parts == [h \in Hour |-> {l \in L : l.cell.hour = h}]
<1>1. IsFiniteSet(L) /\ L \in SUBSET logs
  BY BlocksFinite DEF StatsTypes
<1>2. \A h \in Hour : counts[h] = Cardinality(parts[h])
  BY StatsCounts DEF Stats!AtHour
<1>3. /\ parts \in [Hour -> SUBSET L]
      /\ \A j \in Hour : \A k \in Hour : j # k => parts[j] \cap parts[k] = {}
      /\ \A l \in L : \E h \in Hour : l \in parts[h]
  BY <1>1 DEF StatsTypes, FactTypes, Stats!Cell
<1>6. IsFiniteSet(Hour)
  BY StatsConstants
<1> HIDE DEF L, counts, parts
<1>4. Stats!SumOver(counts, Hour) = Cardinality(L)
  BY <1>1, <1>2, <1>3, <1>6, SumOfParts
<1>5. \/ Stats!HourlyData(S, d) = counts
      \/ /\ Stats!HourlyData(S, d) = rows
         /\ Stats!SumOver(rows, Hour) = Cardinality(L)
  BY StatsCounts DEF Stats!HourlyData, L, counts
<1> HIDE DEF rows
<1> QED BY <1>4, <1>5 DEF L

\* reaggregateDay, DashboardReaggregateScheduler: a day that nothing has changed since
\* its night began agrees with its logs, organization by organization, hour by hour and
\* employee by employee, as soon as the night is through with it, whatever was counted
\* wrong before and whatever failed, stopped or overtook; and every night is through
\* with its two days unless it failed or the process was not there.
THEOREM NightsSettle == Stats!Spec => []Stats!NightSettles
<1>1. StatsInv => Stats!NightSettles
  <2> SUFFICES ASSUME StatsInv PROVE Stats!NightSettles
    OBVIOUS
  <2>1. ASSUME NEW d \in Stats!Day, DayAgrees(d) PROVE Stats!Agrees(d)
    <3>1. ASSUME NEW o \in Org
          PROVE  /\ Stats!OrganizationSeries({o})[d] = Stats!Cardinality(Stats!BlocksOf({o}, d))
                 /\ Stats!SumOver(Stats!HourlyData({o}, d), Hour)
                      = Stats!OrganizationSeries({o})[d]
                 /\ \A h \in Hour : Stats!Value(hourRow[o][d][h])
                                      = Stats!AtHour(Stats!BlocksOf({o}, d), h)
      <4> DEFINE f == [p \in {o} |-> Stats!Value(orgRow[p][d])]
      <4>1. Stats!OrganizationSeries({o})[d] = Stats!SumOver(f, {o})
        BY <2>1 DEF Stats!OrganizationSeries
      <4>2. f[o] = Cardinality(Stats!BlocksOf({o}, d))
        BY <2>1 DEF DayAgrees, OrgAgrees
      <4>3. Cardinality(Stats!BlocksOf({o}, d)) \in Nat
        BY BlocksFinite DEF StatsInv, StatsTypes
      <4> HIDE DEF f
      <4>4. Stats!SumOver(f, {o}) = f[o]
        BY <4>2, <4>3, SumOfOne
      <4>5. Stats!SumOver(Stats!HourlyData({o}, d), Hour) = Cardinality(Stats!BlocksOf({o}, d))
        BY HoursAddUp DEF StatsInv
      <4>6. \A h \in Hour : Stats!Value(hourRow[o][d][h])
                              = Stats!AtHour(Stats!BlocksOf({o}, d), h)
        BY <2>1 DEF DayAgrees, OrgAgrees
      <4> QED BY <4>1, <4>2, <4>4, <4>5, <4>6, StatsCounts
    <3>2. ASSUME NEW e \in Employee
          PROVE  Stats!EmployeeBlocks(e, d)
                   = Stats!Cardinality(Stats!OfEmployee(Stats!BlocksOf(Org, d), e))
      BY <2>1, StatsCounts DEF DayAgrees, EmployeeAgrees, Stats!EmployeeBlocks
    <3> QED BY <3>1, <3>2 DEF Stats!Agrees
  <2>2. ASSUME NEW d \in Stats!Day \ dirty PROVE d \in job["night"].days \/ Stats!Agrees(d)
    <3>1. CASE job["night"].pc # "idle" /\ d = job["night"].day
      BY <3>1 DEF StatsInv, StatsTypes, NightFits
    <3>2. CASE ~ (job["night"].pc # "idle" /\ d = job["night"].day)
      BY <2>1, <2>2, <3>2 DEF StatsInv, Settled, SettledDay
    <3> QED BY <3>1, <3>2
  <2> QED BY <2>2 DEF StatsInv, NightsHandled, Handled, Stats!NightSettles
<1> QED BY <1>1, StatsAlways, PTL

\* getStats, getHourlyData, getSiteReports: the card, the chart and the site reports of
\* today are made of the logs and agree, whatever the tables hold.
THEOREM ScreensShowTheSame == Stats!Spec => []Stats!ScreensAgree
<1>1. StatsInv => Stats!ScreensAgree
  <2> SUFFICES ASSUME StatsInv, NEW S \in SUBSET Org \ {{}}
               PROVE  /\ Stats!SumOver(Stats!HourlyData(S, today), Hour)
                           = Stats!TodayViolations(S)
                      /\ \A o \in S : Stats!SiteViolations(o, S) >= Stats!TodayViolations({o})
                      /\ (\A e \in Employee : ~ gone[e]) =>
                           Stats!TodayViolations(Org)
                             = Stats!SumOver([o \in Org |-> Stats!SiteViolations(o, Org)], Org)
    BY DEF Stats!ScreensAgree
  <2>1. /\ IsFiniteSet(logs) /\ at \in [Employee -> Org]
        /\ \A l \in logs : l.cell.employee \in Employee /\ l.cell.org \in Org \cup {NoOrg}
        /\ NoOrg \notin Org
    BY StatsConstants DEF StatsInv, StatsTypes, FactTypes, Stats!Cell
  <2>2. Stats!SumOver(Stats!HourlyData(S, today), Hour) = Stats!TodayViolations(S)
    BY HoursAddUp, StatsCounts DEF StatsInv, Stats!TodayViolations
  <2>3. ASSUME NEW o \in S PROVE Stats!SiteViolations(o, S) >= Stats!TodayViolations({o})
    <3> DEFINE site == {l \in logs : /\ l.cell.day = today /\ Stats!Blocked(l)
                                     /\ Stats!EffectiveOrganization(l, S) = o}
    <3>1. Stats!BlocksOf({o}, today) \in SUBSET site
      BY <2>1 DEF Stats!BlocksOf, Stats!LogsOf, Stats!InOrganizations,
                  Stats!EffectiveOrganization
    <3>2. IsFiniteSet(site)
      BY <2>1, FS_Subset
    <3> HIDE DEF site
    <3>3. /\ Cardinality(Stats!BlocksOf({o}, today)) <= Cardinality(site)
      BY <3>1, <3>2, FS_Subset
    <3>4. Cardinality(site) \in Nat /\ Cardinality(Stats!BlocksOf({o}, today)) \in Nat
      BY <3>1, <3>2, FS_CardinalityType, FS_Subset
    <3>5. Stats!SiteViolations(o, S) = Cardinality(site)
      BY StatsCounts DEF Stats!SiteViolations, site
    <3>6. Stats!TodayViolations({o}) = Cardinality(Stats!BlocksOf({o}, today))
      BY StatsCounts DEF Stats!TodayViolations
    <3> QED BY <3>3, <3>4, <3>5, <3>6
  <2>4. ASSUME \A e \in Employee : ~ gone[e]
        PROVE  Stats!TodayViolations(Org)
                 = Stats!SumOver([o \in Org |-> Stats!SiteViolations(o, Org)], Org)
    <3> DEFINE L == {l \in logs : l.cell.day = today /\ Stats!Blocked(l)}
               f == [o \in Org |-> Stats!SiteViolations(o, Org)]
               parts == [o \in Org |-> {l \in L : Stats!EffectiveOrganization(l, Org) = o}]
    <3>1. IsFiniteSet(L) /\ IsFiniteSet(Org)
      BY <2>1, FS_Subset, StatsConstants
    <3>2. Stats!BlocksOf(Org, today) = L
      BY <2>1, <2>4 DEF Stats!BlocksOf, Stats!LogsOf, Stats!InOrganizations
    <3>3. /\ parts \in [Org -> SUBSET L]
          /\ \A j \in Org : \A k \in Org : j # k => parts[j] \cap parts[k] = {}
          /\ \A l \in L : \E o \in Org : l \in parts[o]
      BY <2>1 DEF Stats!EffectiveOrganization
    <3>4. ASSUME NEW o \in Org PROVE f[o] = Cardinality(parts[o])
      <4>1. parts[o]
              = {l \in logs : /\ l.cell.day = today /\ Stats!Blocked(l)
                              /\ Stats!EffectiveOrganization(l, Org) = o}
        OBVIOUS
      <4> QED BY <4>1, StatsCounts DEF Stats!SiteViolations
    <3> HIDE DEF L, parts, f
    <3>5. Stats!SumOver(f, Org) = Cardinality(L)
      BY <3>1, <3>3, <3>4, SumOfParts
    <3> QED BY <3>2, <3>5, StatsCounts DEF Stats!TodayViolations, f
  <2> QED BY <2>2, <2>3, <2>4
<1> QED BY <1>1, StatsAlways, PTL

-----------------------------------------------------------------------------
(* The catalogue of apps. *)

\* The module has library operators of its own.
LEMMA AppsCounts == \A S : Apps!Cardinality(S) = Cardinality(S)
BY DEF Apps!Cardinality, Cardinality

LEMMA AppsFinite == \A S : Apps!IsFiniteSet(S) <=> IsFiniteSet(S)
BY DEF Apps!IsFiniteSet, IsFiniteSet

LEMMA AppsConstants ==
  /\ Folded \in [Package -> Package] /\ NoPackage \notin Package
  /\ NoIcon \notin Icon /\ IsFiniteSet(App)
<1>1. Apps!CatalogueAssumption
  BY AdministrationAssumption
<1> QED BY <1>1, AppsFinite DEF Apps!CatalogueAssumption

LEMMA AppsInOrder ==
  ASSUME NEW S, IsFiniteSet(S)
  PROVE  /\ Apps!Cardinality(S) \in Nat
         /\ Apps!SetToSeq(S) \in [1..Apps!Cardinality(S) -> S]
<1>1. Cardinality(S) \in Nat /\ ExistsBijection(1..Cardinality(S), S)
  BY FS_CardinalityType
<1>2. PICK f \in [1..Cardinality(S) -> S] : \A a, b \in 1..Cardinality(S) : f[a] = f[b] => a = b
  BY <1>1, Zenon DEF ExistsBijection, Bijection, Injection, Surjection, IsInjective
<1>3. Apps!IsInjective(f)
  BY <1>2 DEF Apps!IsInjective
<1>4. \E g \in [1..Apps!Cardinality(S) -> S] : Apps!IsInjective(g)
  BY <1>2, <1>3, AppsCounts
<1> QED BY <1>1, <1>4, AppsCounts DEF Apps!SetToSeq

AppTask == {"create", "update", "remove", "bundle", "unbundle", "refresh"}
AppService == {"apps", "presets"}
AppPlatform == {"android", "ios", "other"}
AppRow == [package : Package \cup {NoPackage}, platform : AppPlatform,
           icon : Icon \cup {NoIcon}]
PresetRow == [state : {"none", "live", "removed"}, platform : AppPlatform,
              items : SUBSET App]
AppHand == [index : Nat, icon : Icon \cup {NoIcon}]
AppResult == [id : App, status : {"missing", "failed", "unchanged", "updated"}]
AppIcon == [id : App, icon : Icon \cup {NoIcon}]
RefreshRow == [at : {"refreshing"}, cursor : Nat, hands : [Worker -> AppHand],
               results : Seq(AppResult), apps : Seq(AppIcon)]
WriteRow == [at : {"write"}, task : {"create", "update"}, app : App, package : Package,
             late : BOOLEAN]
ConnectRow == [at : {"connect"}, preset : Preset, items : SUBSET App]
ClerkRow ==
    [at : {"idle"} \cup AppTask] \cup [at : {"arrived"}, task : AppTask, service : AppService]
      \cup WriteRow \cup [at : {"delete"}, app : App] \cup ConnectRow \cup RefreshRow

CatalogueTypes ==
    /\ listing \in [App -> AppRow] /\ bundle \in [Preset -> PresetRow]
    /\ normalized \in SUBSET AppService /\ outrun \in SUBSET App
    /\ clerk \in [Client -> ClerkRow]

\* A platform of an earlier release is that of an app, and of none once a service has
\* made the platforms valid.
PlatformsFit ==
    /\ \A a \in App : Apps!Exists(a) \/ listing[a].platform \in Apps!Valid
    /\ normalized # {} => \A a \in App : listing[a].platform \in Apps!Valid

ItemsExist == \A s \in Preset : \A a \in bundle[s].items : Apps!Exists(a)

\* Two apps with one package are both there because one was written late.
OwnersUnique ==
    \A a, b \in App :
        /\ Apps!Exists(a) /\ Apps!Exists(b) /\ a \notin outrun /\ b \notin outrun
        /\ Folded[listing[a].package] = Folded[listing[b].package]
        => a = b

\* What a request found is so until another one writes the package.
ChecksHold ==
    \A c \in Client : clerk[c].at = "write" /\ ~ clerk[c].late =>
        \A b \in App : Apps!Exists(b) /\ b # clerk[c].app =>
            Folded[listing[b].package] # Folded[clerk[c].package]

\* The indexes that the workers have in their hands.
Busy(q) == {i \in 1..q.cursor : \E w \in Worker : q.hands[w].index = i}

\* Every app before the cursor is in the hands of one worker or has been reported.
RefreshFits(q) ==
    /\ q.cursor <= Len(q.apps)
    /\ \A w \in Worker : /\ q.hands[w].index <= q.cursor
                         /\ q.hands[w].icon # NoIcon => q.hands[w].index # 0
    /\ \A v, w \in Worker :
          q.hands[v].index = q.hands[w].index /\ q.hands[v].index # 0 => v = w
    /\ Len(q.results) + Cardinality(Busy(q)) = q.cursor
    /\ \A i \in 1..q.cursor \ Busy(q) :
          \E n \in 1..Len(q.results) : q.results[n].id = q.apps[i].id
    /\ \A n \in 1..Len(q.results) :
          \E i \in 1..q.cursor : q.results[n].id = q.apps[i].id

RefreshesFit == \A c \in Client : clerk[c].at = "refreshing" => RefreshFits(clerk[c])

CatalogueInv ==
    /\ CatalogueTypes /\ PlatformsFit /\ ItemsExist /\ OwnersUnique /\ ChecksHold
    /\ RefreshesFit

LEMMA IdleRow == Apps!Idle \in ClerkRow /\ Apps!Idle.at = "idle"
BY DEF Apps!Idle, ClerkRow

\* A step that leaves the catalogue alone and moves one request on.
LEMMA ClerkMoves ==
  ASSUME CatalogueInv, NEW c \in Client, NEW q \in ClerkRow, Apps!To(c, q),
         UNCHANGED <<listing, bundle, normalized, outrun>>,
         q.at = "refreshing" => RefreshFits(q),
         q.at = "write" /\ ~ q.late =>
             \A b \in App : Apps!Exists(b) /\ b # q.app =>
                 Folded[listing[b].package] # Folded[q.package]
  PROVE  CatalogueInv'
<1>1. /\ clerk' \in [Client -> ClerkRow] /\ clerk'[c] = q
      /\ \A d \in Client \ {c} : clerk'[d] = clerk[d]
  BY DEF CatalogueInv, CatalogueTypes, Apps!To
<1>2. CatalogueTypes' /\ PlatformsFit' /\ ItemsExist' /\ OwnersUnique'
  BY <1>1 DEF CatalogueInv, CatalogueTypes, PlatformsFit, ItemsExist, OwnersUnique,
              Apps!Exists
<1>3. ChecksHold'
  BY <1>1 DEF CatalogueInv, ChecksHold, Apps!Exists
<1>4. RefreshesFit'
  BY <1>1 DEF CatalogueInv, RefreshesFit
<1> QED BY <1>2, <1>3, <1>4 DEF CatalogueInv

\* A step that also changes rows, and that ends a request or sends it on its way.
LEMMA RowsChange ==
  ASSUME CatalogueInv, NEW c \in Client, NEW q \in ClerkRow, Apps!To(c, q),
         q.at \notin {"refreshing", "write"},
         listing' \in [App -> AppRow], bundle' \in [Preset -> PresetRow],
         normalized' \in SUBSET AppService, outrun' \in SUBSET App,
         PlatformsFit', ItemsExist', OwnersUnique',
         \A a \in App : Apps!Exists(a)' => Apps!Exists(a) /\ listing'[a].package = listing[a].package
  PROVE  CatalogueInv'
<1>1. /\ clerk' \in [Client -> ClerkRow] /\ clerk'[c] = q
      /\ \A d \in Client \ {c} : clerk'[d] = clerk[d]
  BY DEF CatalogueInv, CatalogueTypes, Apps!To
<1>2. ChecksHold'
  BY <1>1 DEF CatalogueInv, ChecksHold
<1>3. RefreshesFit'
  BY <1>1 DEF CatalogueInv, RefreshesFit
<1> QED BY <1>1, <1>2, <1>3 DEF CatalogueInv, CatalogueTypes

LEMMA ArrivesHere ==
  ASSUME CatalogueInv, NEW c \in Client, NEW asks \in AppTask, Apps!Arrive(c, asks)
  PROVE  CatalogueInv'
<1> DEFINE q == [at |-> "arrived", task |-> asks,
                 service |-> IF asks \in {"bundle", "unbundle"} THEN "presets" ELSE "apps"]
<1>1. q \in ClerkRow /\ q.at = "arrived"
  BY DEF ClerkRow, AppService
<1>2. Apps!To(c, q) /\ UNCHANGED <<listing, bundle, normalized, outrun>>
  BY DEF Apps!Arrive
<1> HIDE DEF q
<1> QED BY <1>1, <1>2, ClerkMoves

\* What both updates write.
LEMMA PlatformsMadeValid ==
  ASSUME CatalogueInv, NEW service \in AppService
  PROVE  /\ Apps!ValidApps \in [App -> AppRow]
         /\ \A a \in App : /\ Apps!ValidApps[a].platform \in Apps!Valid
                           /\ Apps!ValidApps[a].package = listing[a].package
         /\ Apps!ValidPresets(service) \in [Preset -> PresetRow]
         /\ \A s \in Preset : Apps!ValidPresets(service)[s].items = bundle[s].items
BY DEF CatalogueInv, CatalogueTypes, Apps!ValidApps, Apps!ValidPresets, AppRow, PresetRow,
       AppPlatform, Apps!Valid

LEMMA PlatformsWritten ==
  ASSUME CatalogueInv, NEW c \in Client, NEW q \in ClerkRow, Apps!To(c, q),
         q.at \notin {"refreshing", "write"}, NEW service \in AppService,
         listing' \in {listing, Apps!ValidApps},
         bundle' \in {bundle, Apps!ValidPresets(service)},
         normalized' \in SUBSET AppService,
         normalized' # {} => normalized # {} \/ listing' = Apps!ValidApps,
         UNCHANGED outrun
  PROVE  CatalogueInv'
<1>1. /\ listing' \in [App -> AppRow] /\ bundle' \in [Preset -> PresetRow]
      /\ \A a \in App : /\ listing'[a].package = listing[a].package
                        /\ listing'[a].platform \in {listing[a].platform} \cup Apps!Valid
      /\ \A s \in Preset : bundle'[s].items = bundle[s].items
  BY PlatformsMadeValid DEF CatalogueInv, CatalogueTypes
<1>2. PlatformsFit'
  BY <1>1, PlatformsMadeValid DEF CatalogueInv, PlatformsFit, Apps!Exists
<1>3. ItemsExist' /\ OwnersUnique'
  BY <1>1 DEF CatalogueInv, CatalogueTypes, PresetRow, ItemsExist, OwnersUnique, Apps!Exists
<1>4. \A a \in App : Apps!Exists(a)' => Apps!Exists(a)
  BY <1>1 DEF Apps!Exists
<1> QED BY <1>1, <1>2, <1>3, <1>4, RowsChange DEF CatalogueInv, CatalogueTypes

LEMMA EnsureFailsHere ==
  ASSUME CatalogueInv, NEW c \in Client, Apps!EnsureFails(c) PROVE CatalogueInv'
<1>1. clerk[c].service \in AppService /\ normalized' = normalized
  BY DEF CatalogueInv, CatalogueTypes, ClerkRow, WriteRow, ConnectRow, RefreshRow, AppTask,
         Apps!EnsureFails
<1> DEFINE service == clerk[c].service
<1>2. /\ Apps!To(c, Apps!Idle) /\ UNCHANGED outrun
      /\ listing' \in {listing, Apps!ValidApps}
      /\ bundle' \in {bundle, Apps!ValidPresets(service)}
  BY DEF Apps!EnsureFails
<1> HIDE DEF service
<1>3. service \in AppService
  BY <1>1 DEF service
<1> QED BY <1>1, <1>2, <1>3, IdleRow, PlatformsWritten DEF CatalogueInv, CatalogueTypes

LEMMA EnsureValidHere ==
  ASSUME CatalogueInv, NEW c \in Client, Apps!EnsureValid(c) PROVE CatalogueInv'
<1> DEFINE service == clerk[c].service
           q == [at |-> clerk[c].task]
<1>1. service \in AppService /\ clerk[c].task \in AppTask
  BY DEF CatalogueInv, CatalogueTypes, ClerkRow, WriteRow, ConnectRow, RefreshRow, AppTask,
         Apps!EnsureValid
<1>2. q \in ClerkRow /\ q.at \notin {"refreshing", "write"}
  BY <1>1 DEF ClerkRow, AppTask
<1>3. /\ Apps!To(c, q) /\ UNCHANGED outrun
      /\ \/ UNCHANGED <<listing, bundle, normalized>>
         \/ /\ listing' = Apps!ValidApps /\ bundle' = Apps!ValidPresets(service)
            /\ normalized' = normalized \cup {service}
  BY DEF Apps!EnsureValid
<1> HIDE DEF service, q
<1>4. CASE UNCHANGED <<listing, bundle, normalized>>
  BY <1>1, <1>2, <1>3, <1>4, PlatformsWritten DEF CatalogueInv, CatalogueTypes
<1>5. CASE /\ listing' = Apps!ValidApps /\ bundle' = Apps!ValidPresets(service)
           /\ normalized' = normalized \cup {service}
  BY <1>1, <1>2, <1>3, <1>5, PlatformsWritten DEF CatalogueInv, CatalogueTypes
<1> QED BY <1>3, <1>4, <1>5

LEMMA CheckPackageHere ==
  ASSUME CatalogueInv, NEW c \in Client, NEW a \in App, NEW p \in Package,
         Apps!CheckPackage(c, a, p)
  PROVE  CatalogueInv'
<1>1. CASE Apps!To(c, Apps!Idle)
  BY <1>1, IdleRow, ClerkMoves DEF Apps!CheckPackage
<1>2. CASE ~ Apps!To(c, Apps!Idle)
  <2> DEFINE q == [at |-> "write", task |-> clerk[c].at, app |-> a, package |-> p,
                   late |-> FALSE]
  <2>1. q \in ClerkRow /\ q.at = "write" /\ q.app = a /\ q.package = p
    BY DEF Apps!CheckPackage, ClerkRow, WriteRow
  <2>2. Apps!To(c, q) /\ Apps!Taken(p, a) = {}
        /\ UNCHANGED <<listing, bundle, normalized, outrun>>
    BY <1>2 DEF Apps!CheckPackage
  <2>3. \A b \in App : Apps!Exists(b) /\ b # a => Folded[listing[b].package] # Folded[p]
    BY <2>2 DEF Apps!Taken
  <2> HIDE DEF q
  <2> QED BY <2>1, <2>2, <2>3, ClerkMoves
<1> QED BY <1>1, <1>2

LEMMA RefuseHere ==
  ASSUME CatalogueInv, NEW c \in Client, Apps!Refuse(c) \/ Apps!AnswerRefresh(c)
  PROVE  CatalogueInv'
BY IdleRow, ClerkMoves DEF Apps!Refuse, Apps!AnswerRefresh

LEMMA CheckUnusedHere ==
  ASSUME CatalogueInv, NEW c \in Client, NEW a \in App, Apps!CheckUnused(c, a)
  PROVE  CatalogueInv'
<1> DEFINE q == [at |-> "delete", app |-> a]
<1>1. q \in ClerkRow /\ q.at = "delete"
  BY DEF ClerkRow
<1>2. /\ Apps!To(c, Apps!Idle) \/ Apps!To(c, q)
      /\ UNCHANGED <<listing, bundle, normalized, outrun>>
  BY DEF Apps!CheckUnused
<1> HIDE DEF q
<1> QED BY <1>1, <1>2, IdleRow, ClerkMoves

LEMMA CheckAppsHere ==
  ASSUME CatalogueInv, NEW c \in Client, NEW s \in Preset, NEW items \in SUBSET App,
         Apps!CheckApps(c, s, items)
  PROVE  CatalogueInv'
<1> DEFINE q == [at |-> "connect", preset |-> s, items |-> items]
<1>1. q \in ClerkRow /\ q.at = "connect"
  BY DEF ClerkRow, ConnectRow
<1>2. /\ Apps!To(c, Apps!Idle) \/ Apps!To(c, q)
      /\ UNCHANGED <<listing, bundle, normalized, outrun>>
  BY DEF Apps!CheckApps
<1> HIDE DEF q
<1> QED BY <1>1, <1>2, IdleRow, ClerkMoves

LEMMA UpdateAppHere ==
  ASSUME CatalogueInv, NEW c \in Client, NEW a \in App, Apps!UpdateApp(c, a)
  PROVE  CatalogueInv'
<1>1. PICK icon \in Icon : listing' = [listing EXCEPT ![a].icon = icon]
  BY DEF Apps!UpdateApp
<1>2. /\ listing' \in [App -> AppRow]
      /\ \A b \in App : /\ listing'[b].package = listing[b].package
                        /\ listing'[b].platform = listing[b].platform
  BY <1>1 DEF CatalogueInv, CatalogueTypes, AppRow
<1>3. UNCHANGED <<bundle, normalized, outrun>> /\ Apps!To(c, Apps!Idle)
  BY DEF Apps!UpdateApp
<1>4. PlatformsFit' /\ ItemsExist' /\ OwnersUnique'
  BY <1>2, <1>3 DEF CatalogueInv, CatalogueTypes, PresetRow, PlatformsFit, ItemsExist,
                    OwnersUnique, Apps!Exists
<1> QED BY <1>2, <1>3, <1>4, IdleRow, RowsChange
        DEF CatalogueInv, CatalogueTypes, Apps!Exists

LEMMA DeleteAppHere ==
  ASSUME CatalogueInv, NEW c \in Client, Apps!DeleteApp(c) PROVE CatalogueInv'
<1> DEFINE a == clerk[c].app
<1>1. a \in App
  BY DEF CatalogueInv, CatalogueTypes, ClerkRow, WriteRow, ConnectRow, RefreshRow, AppTask,
         Apps!DeleteApp
<1>2. Apps!To(c, Apps!Idle) /\ UNCHANGED normalized
  BY DEF Apps!DeleteApp
<1>3. CASE UNCHANGED <<listing, bundle, outrun>>
  BY <1>2, <1>3, IdleRow, ClerkMoves
<1>4. CASE /\ listing' = [listing EXCEPT ![a] = Apps!NoApp]
           /\ bundle' = [s \in Preset |-> [bundle[s] EXCEPT !.items = @ \ {a}]]
           /\ outrun' = outrun \ {a}
  <2> HIDE DEF a
  <2>1. /\ Apps!NoApp \in AppRow /\ Apps!NoApp.package = NoPackage
        /\ Apps!NoApp.platform \in Apps!Valid
    BY DEF Apps!NoApp, AppRow, AppPlatform, Apps!Valid
  <2>2. /\ listing' \in [App -> AppRow] /\ listing'[a] = Apps!NoApp
        /\ \A b \in App \ {a} : listing'[b] = listing[b]
    BY <1>1, <1>4, <2>1 DEF CatalogueInv, CatalogueTypes
  <2>3. /\ bundle' \in [Preset -> PresetRow]
        /\ \A s \in Preset : bundle'[s].items = bundle[s].items \ {a}
    BY <1>4 DEF CatalogueInv, CatalogueTypes, PresetRow
  <2>4. PlatformsFit'
    BY <1>2, <2>1, <2>2 DEF CatalogueInv, PlatformsFit, Apps!Exists
  <2>5. ItemsExist'
    BY <2>2, <2>3 DEF CatalogueInv, CatalogueTypes, PresetRow, ItemsExist, Apps!Exists
  <2>6. OwnersUnique'
    BY <1>4, <2>1, <2>2 DEF CatalogueInv, OwnersUnique, Apps!Exists
  <2>7. \A b \in App : Apps!Exists(b)' =>
            Apps!Exists(b) /\ listing'[b].package = listing[b].package
    BY <2>1, <2>2 DEF Apps!Exists
  <2> QED BY <1>2, <1>4, <2>2, <2>3, <2>4, <2>5, <2>6, <2>7, IdleRow, RowsChange
          DEF CatalogueInv, CatalogueTypes
<1> QED BY <1>3, <1>4 DEF Apps!DeleteApp

LEMMA PresetsHere ==
  ASSUME CatalogueInv, NEW c \in Client,
         Apps!CreatePreset(c) \/ \E s \in Preset : Apps!RemovePreset(c, s)
  PROVE  CatalogueInv'
<1>1. Apps!To(c, Apps!Idle) /\ UNCHANGED <<listing, normalized, outrun>>
  BY DEF Apps!CreatePreset, Apps!RemovePreset
<1>2. bundle' \in [Preset -> PresetRow] /\ ItemsExist'
  <2>1. CASE Apps!CreatePreset(c)
    <3> DEFINE q == clerk[c]
    <3>1. q.preset \in Preset /\ q.items \in SUBSET App
      BY <2>1 DEF CatalogueInv, CatalogueTypes, ClerkRow, WriteRow, ConnectRow, RefreshRow,
                  AppTask, Apps!CreatePreset
    <3>2. CASE UNCHANGED bundle
      BY <1>1, <3>2 DEF CatalogueInv, CatalogueTypes, ItemsExist, Apps!Exists
    <3>3. CASE /\ \A a \in q.items : Apps!Exists(a)
               /\ \E platform \in Apps!Valid :
                     bundle' = [bundle EXCEPT ![q.preset] =
                       [state |-> "live", platform |-> platform, items |-> q.items]]
      <4> HIDE DEF q
      <4>1. /\ bundle' \in [Preset -> PresetRow]
            /\ \A s \in Preset : bundle'[s].items \in {q.items, bundle[s].items}
        BY <3>1, <3>3 DEF CatalogueInv, CatalogueTypes, PresetRow, AppPlatform, Apps!Valid
      <4>2. ItemsExist'
        BY <1>1, <3>3, <4>1 DEF CatalogueInv, ItemsExist, Apps!Exists
      <4> QED BY <4>1, <4>2
    <3> QED BY <2>1, <3>2, <3>3 DEF Apps!CreatePreset
  <2>2. ASSUME NEW s \in Preset, Apps!RemovePreset(c, s)
        PROVE  bundle' \in [Preset -> PresetRow] /\ ItemsExist'
    <3>1. /\ bundle' \in [Preset -> PresetRow]
          /\ \A t \in Preset : bundle'[t].items = bundle[t].items
      BY <2>2 DEF CatalogueInv, CatalogueTypes, PresetRow, Apps!RemovePreset
    <3> QED BY <1>1, <3>1 DEF CatalogueInv, ItemsExist, Apps!Exists
  <2> QED BY <2>1, <2>2
<1>3. PlatformsFit' /\ OwnersUnique'
  BY <1>1 DEF CatalogueInv, PlatformsFit, OwnersUnique, Apps!Exists
<1> QED BY <1>1, <1>2, <1>3, IdleRow, RowsChange DEF CatalogueInv, CatalogueTypes, Apps!Exists

\* A written package: whoever checked the same one before is late from now on.
LEMMA WritePackageHere ==
  ASSUME CatalogueInv, NEW c \in Client, Apps!WritePackage(c) PROVE CatalogueInv'
<1> DEFINE q == clerk[c]
<1>1. q \in WriteRow
  BY DEF CatalogueInv, CatalogueTypes, ClerkRow, ConnectRow, RefreshRow, AppTask,
         Apps!WritePackage
<1>2. CASE Apps!To(c, Apps!Idle) /\ UNCHANGED <<listing, outrun>>
  BY <1>2, IdleRow, ClerkMoves DEF Apps!WritePackage
<1>3. CASE \E platform \in Apps!Valid :
             /\ listing' = [listing EXCEPT ![q.app] =
                  [package |-> q.package, platform |-> platform, icon |-> @.icon]]
             /\ outrun' = IF q.late THEN outrun \cup {q.app} ELSE outrun \ {q.app}
             /\ clerk' = [d \in Client |->
                  IF d = c THEN Apps!Idle
                  ELSE IF clerk[d].at = "write"
                          /\ Folded[clerk[d].package] = Folded[q.package]
                       THEN [clerk[d] EXCEPT !.late = TRUE] ELSE clerk[d]]
  <2>1. q.at = "write" /\ q.app \in App /\ q.package \in Package /\ q.late \in BOOLEAN
    BY <1>1 DEF WriteRow
  <2>2. ~ q.late => \A b \in App : Apps!Exists(b) /\ b # q.app =>
                       Folded[listing[b].package] # Folded[q.package]
    BY <2>1 DEF CatalogueInv, ChecksHold
  <2> HIDE DEF q
  <2>3. /\ listing' \in [App -> AppRow]
        /\ listing'[q.app].package = q.package
        /\ listing'[q.app].platform \in Apps!Valid
        /\ \A b \in App \ {q.app} : listing'[b] = listing[b]
        /\ UNCHANGED <<bundle, normalized>>
    BY <1>3, <2>1 DEF CatalogueInv, CatalogueTypes, AppRow, AppPlatform, Apps!Valid,
                      Apps!WritePackage
  <2>4. /\ \A b \in App \ {q.app} : Apps!Exists(b)' <=> Apps!Exists(b)
        /\ \A b \in App : b = q.app => Apps!Exists(b)'
    BY <2>1, <2>3, AppsConstants DEF Apps!Exists
  <2>5. PlatformsFit'
    BY <2>1, <2>3 DEF CatalogueInv, PlatformsFit, Apps!Exists
  <2>6. ItemsExist'
    <3>1. \A s \in Preset : bundle[s].items \subseteq App
      BY DEF CatalogueInv, CatalogueTypes, PresetRow
    <3> QED BY <2>3, <2>4, <3>1 DEF CatalogueInv, ItemsExist
  <2>7. OwnersUnique'
    BY <1>3, <2>1, <2>2, <2>3, <2>4 DEF CatalogueInv, OwnersUnique
  <2>8. ASSUME NEW d \in Client
        PROVE  /\ clerk'[d] \in ClerkRow
               /\ clerk'[d].at = "refreshing" => clerk'[d] = clerk[d]
               /\ clerk'[d].at = "write" /\ ~ clerk'[d].late =>
                    /\ clerk'[d] = clerk[d]
                    /\ Folded[clerk[d].package] # Folded[q.package]
    <3>1. CASE d = c
      BY <1>3, <3>1, IdleRow
    <3>2. CASE d # c /\ clerk[d].at = "write" /\ Folded[clerk[d].package] = Folded[q.package]
      <4>1. clerk[d] \in WriteRow
        BY <3>2 DEF CatalogueInv, CatalogueTypes, ClerkRow, ConnectRow, RefreshRow, AppTask
      <4>2. clerk'[d] = [clerk[d] EXCEPT !.late = TRUE]
        BY <1>3, <3>2
      <4>3. clerk'[d] \in WriteRow /\ clerk'[d].at = "write" /\ clerk'[d].late
        BY <4>1, <4>2 DEF WriteRow
      <4> QED BY <4>3 DEF ClerkRow
    <3>3. CASE d # c /\ ~ (clerk[d].at = "write" /\ Folded[clerk[d].package] = Folded[q.package])
      BY <1>3, <3>3 DEF CatalogueInv, CatalogueTypes
    <3> QED BY <3>1, <3>2, <3>3
  <2>9. ChecksHold'
    <3> SUFFICES ASSUME NEW d \in Client, clerk'[d].at = "write", ~ clerk'[d].late,
                        NEW b \in App, Apps!Exists(b)', b # clerk'[d].app
                 PROVE  Folded[listing'[b].package] # Folded[clerk'[d].package]
      BY DEF ChecksHold
    <3>1. clerk'[d] = clerk[d] /\ Folded[clerk[d].package] # Folded[q.package]
      BY <2>8
    <3>2. CASE b = q.app
      BY <2>3, <3>1, <3>2
    <3>3. CASE b # q.app
      BY <2>3, <2>4, <3>1, <3>3 DEF CatalogueInv, ChecksHold
    <3> QED BY <3>2, <3>3
  <2>10. RefreshesFit'
    BY <2>8 DEF CatalogueInv, RefreshesFit
  <2>11. CatalogueTypes'
    <3>1. clerk' \in [Client -> ClerkRow]
      BY <1>3, <2>8
    <3>2. outrun' \in SUBSET App
      BY <1>3, <2>1 DEF CatalogueInv, CatalogueTypes
    <3> QED BY <2>3, <3>1, <3>2 DEF CatalogueInv, CatalogueTypes
  <2> QED BY <2>5, <2>6, <2>7, <2>9, <2>10, <2>11 DEF CatalogueInv
<1> QED BY <1>2, <1>3 DEF Apps!WritePackage

-----------------------------------------------------------------------------
(* The refresh of the icons. *)

LEMMA RefreshIconsHere ==
  ASSUME CatalogueInv, NEW c \in Client, Apps!RefreshIcons(c) PROVE CatalogueInv'
<1> DEFINE S == {a \in App : Apps!Exists(a)}
           all == Apps!SetToSeq(S)
           list == [i \in 1..Apps!Cardinality(S) |->
                      [id |-> all[i], icon |-> listing[all[i]].icon]]
           q == [at |-> "refreshing", cursor |-> 0, hands |-> Apps!Unbusy, results |-> <<>>,
                 apps |-> list]
<1>1. IsFiniteSet(S)
  BY AppsConstants, FS_Subset
<1>2. Apps!Cardinality(S) \in Nat /\ all \in [1..Apps!Cardinality(S) -> S]
  BY <1>1, AppsInOrder
<1>3. ASSUME NEW i \in 1..Apps!Cardinality(S)
      PROVE  [id |-> all[i], icon |-> listing[all[i]].icon] \in AppIcon
  <2>1. all[i] \in App
    BY <1>2
  <2>2. listing[all[i]].icon \in Icon \cup {NoIcon}
    BY <2>1 DEF CatalogueInv, CatalogueTypes, AppRow
  <2> QED BY <2>1, <2>2 DEF AppIcon
<1>4. list \in Seq(AppIcon) /\ Len(list) \in Nat
  BY <1>2, <1>3
<1>5. Apps!To(c, q) /\ UNCHANGED <<listing, bundle, normalized, outrun>>
  BY DEF Apps!RefreshIcons
<1> HIDE DEF list
<1>6. /\ Apps!Unbusy \in [Worker -> AppHand]
      /\ \A w \in Worker : Apps!Unbusy[w].index = 0 /\ Apps!Unbusy[w].icon = NoIcon
  BY DEF Apps!Unbusy, AppHand
<1>7. q \in RefreshRow
  BY <1>4, <1>6 DEF RefreshRow
<1>8. Busy(q) = {} /\ Cardinality(Busy(q)) = 0
  BY FS_EmptySet DEF Busy
<1>9. RefreshFits(q)
  BY <1>4, <1>6, <1>8 DEF RefreshFits
<1>10. q \in ClerkRow /\ q.at = "refreshing"
  BY <1>7 DEF ClerkRow
<1> HIDE DEF q
<1> QED BY <1>5, <1>9, <1>10, ClerkMoves

LEMMA RefreshingRow ==
  ASSUME CatalogueInv, NEW c \in Client, clerk[c].at = "refreshing"
  PROVE  clerk[c] \in RefreshRow /\ RefreshFits(clerk[c])
BY DEF CatalogueInv, CatalogueTypes, RefreshesFit, ClerkRow, WriteRow, ConnectRow, AppTask

LEMMA ClaimHere ==
  ASSUME CatalogueInv, NEW c \in Client, NEW w \in Worker, Apps!Claim(c, w)
  PROVE  CatalogueInv'
<1> DEFINE q == clerk[c]
           r == Apps!ClaimNext(q, w)
<1>1. q \in RefreshRow /\ RefreshFits(q)
  BY RefreshingRow DEF Apps!Claim
<1>2. /\ q.hands[w].index = 0 /\ q.cursor < Len(q.apps)
      /\ Apps!To(c, r) /\ UNCHANGED <<listing, bundle, normalized, outrun>>
  BY DEF Apps!Claim
<1> HIDE DEF q
<1>2a. /\ q.cursor \in Nat /\ q.hands \in [Worker -> AppHand]
       /\ \A v \in Worker : q.hands[v].index \in Nat
       /\ r = [q EXCEPT !.hands = [q.hands EXCEPT ![w] =
                  [q.hands[w] EXCEPT !.index = q.cursor + 1]],
                         !.cursor = q.cursor + 1]
  BY <1>1 DEF RefreshRow, AppHand, Apps!ClaimNext
<1>2b. [q.hands[w] EXCEPT !.index = q.cursor + 1] \in AppHand
  BY <1>2a DEF AppHand
<1>3. /\ r \in RefreshRow /\ r.apps = q.apps /\ r.results = q.results
      /\ r.cursor = q.cursor + 1 /\ r.hands[w].index = q.cursor + 1
      /\ r.hands[w].icon = q.hands[w].icon
      /\ \A v \in Worker \ {w} : r.hands[v] = q.hands[v]
  <2> HIDE DEF r
  <2>1. r.hands = [q.hands EXCEPT ![w] = [q.hands[w] EXCEPT !.index = q.cursor + 1]]
    BY <1>1, <1>2a DEF RefreshRow
  <2>2. r.hands \in [Worker -> AppHand] /\ r.hands[w].index = q.cursor + 1
        /\ r.hands[w].icon = q.hands[w].icon
        /\ \A v \in Worker \ {w} : r.hands[v] = q.hands[v]
    BY <1>2a, <1>2b, <2>1 DEF AppHand
  <2>3. /\ r.apps = q.apps /\ r.results = q.results /\ r.cursor = q.cursor + 1
        /\ r.at = "refreshing"
    BY <1>1, <1>2a DEF RefreshRow
  <2>4. r = [at |-> r.at, cursor |-> r.cursor, hands |-> r.hands, results |-> r.results,
             apps |-> r.apps]
    BY <1>1, <1>2a DEF RefreshRow
  <2>5. r \in RefreshRow
    <3>1. /\ q.results \in Seq(AppResult) /\ q.apps \in Seq(AppIcon)
          /\ q.cursor + 1 \in Nat
      BY <1>1, <1>2a DEF RefreshRow
    <3> QED BY <2>2, <2>3, <2>4, <3>1 DEF RefreshRow
  <2> QED BY <2>2, <2>3, <2>5
<1> HIDE DEF r
<1>4. /\ q.cursor \in Nat /\ Len(q.apps) \in Nat /\ Len(q.results) \in Nat
      /\ \A v \in Worker : q.hands[v].index \in Nat
  BY <1>1 DEF RefreshRow, AppHand
<1>4a. 1 \in Int /\ q.cursor \in Int
  BY <1>4
<1>5. Busy(r) = Busy(q) \cup {q.cursor + 1} /\ q.cursor + 1 \notin Busy(q)
  BY <1>1, <1>2, <1>3, <1>4 DEF Busy, RefreshFits
<1>6. IsFiniteSet(Busy(q)) /\ Cardinality(Busy(q)) \in Nat
  <2>1. IsFiniteSet(1..q.cursor)
    BY <1>4, <1>4a, FS_Interval
  <2>2. Busy(q) \in SUBSET (1..q.cursor)
    BY DEF Busy
  <2> QED BY <2>1, <2>2, FS_Subset, FS_CardinalityType
<1>7. Cardinality(Busy(r)) = Cardinality(Busy(q)) + 1
  BY <1>5, <1>6, FS_AddElement
<1>8. RefreshFits(r)
  <2>1. r.cursor <= Len(r.apps)
    BY <1>2, <1>3, <1>4
  <2>2. \A v \in Worker : /\ r.hands[v].index <= r.cursor
                          /\ r.hands[v].icon # NoIcon => r.hands[v].index # 0
    BY <1>1, <1>3, <1>4 DEF RefreshFits
  <2>3. \A u, v \in Worker :
          r.hands[u].index = r.hands[v].index /\ r.hands[u].index # 0 => u = v
    BY SMTT(30), <1>1, <1>3, <1>4 DEF RefreshFits
  <2>4. Len(r.results) + Cardinality(Busy(r)) = r.cursor
    <3>1. Len(q.results) + Cardinality(Busy(q)) = q.cursor
      BY <1>1 DEF RefreshFits
    <3> QED BY SMTT(20), <1>3, <1>4, <1>6, <1>7, <3>1
  <2>5. \A i \in 1..r.cursor \ Busy(r) :
          \E n \in 1..Len(r.results) : r.results[n].id = r.apps[i].id
    BY <1>1, <1>3, <1>4, <1>5 DEF RefreshFits
  <2>6. \A n \in 1..Len(r.results) : \E i \in 1..r.cursor : r.results[n].id = r.apps[i].id
    BY <1>1, <1>3, <1>4 DEF RefreshFits
  <2> QED BY <2>1, <2>2, <2>3, <2>4, <2>5, <2>6 DEF RefreshFits
<1>9. r \in ClerkRow /\ r.at = "refreshing"
  BY <1>3 DEF ClerkRow, RefreshRow
<1> QED BY <1>2, <1>8, <1>9, ClerkMoves

\* A worker lets go of its app and reports it.
LEMMA ResultFits ==
  ASSUME NEW q \in RefreshRow, RefreshFits(q), NEW w \in Worker, q.hands[w].index # 0,
         NEW e \in AppResult, e.id = q.apps[q.hands[w].index].id,
         NEW r \in RefreshRow, r.cursor = q.cursor, r.apps = q.apps,
         r.results = Append(q.results, e), r.hands[w].index = 0, r.hands[w].icon = NoIcon,
         \A v \in Worker \ {w} : r.hands[v] = q.hands[v]
  PROVE  RefreshFits(r)
<1> DEFINE i0 == q.hands[w].index
<1>1. /\ q.cursor \in Nat /\ Len(q.apps) \in Nat /\ q.results \in Seq(AppResult)
      /\ Len(q.results) \in Nat
      /\ q.hands \in [Worker -> AppHand] /\ q.apps \in Seq(AppIcon)
      /\ \A v \in Worker : q.hands[v].index \in Nat
  BY DEF RefreshRow, AppHand
<1>2. 1 \in Int /\ q.cursor \in Int
  BY <1>1
<1>3. i0 \in 1..q.cursor /\ i0 \in 1..Len(q.apps)
  BY <1>1 DEF RefreshFits
<1>4. /\ Len(r.results) = Len(q.results) + 1
      /\ r.results[Len(q.results) + 1] = e
      /\ \A n \in 1..Len(q.results) : r.results[n] = q.results[n]
  BY <1>1
<1>5. i0 \in Busy(q) /\ Busy(r) = Busy(q) \ {i0}
  <2>1. \A v \in Worker \ {w} : q.hands[v].index # i0
    BY <1>1, <1>3 DEF RefreshFits
  <2> QED BY <1>3, <2>1 DEF Busy
<1>6. IsFiniteSet(Busy(q)) /\ Cardinality(Busy(q)) \in Nat
  <2>1. IsFiniteSet(1..q.cursor)
    BY <1>1, <1>2, FS_Interval
  <2>2. Busy(q) \in SUBSET (1..q.cursor)
    BY DEF Busy
  <2> QED BY <2>1, <2>2, FS_Subset, FS_CardinalityType
<1>7. r.results[Len(q.results) + 1].id = r.apps[i0].id
  BY <1>4
<1> HIDE DEF i0
<1>8. Cardinality(Busy(r)) = Cardinality(Busy(q)) - 1
  <2>1. Cardinality(Busy(q) \ {i0}) = Cardinality(Busy(q)) - 1
    BY <1>5, <1>6, FS_RemoveElement
  <2> QED BY <1>5, <2>1
<1>9. /\ Len(q.results) + 1 \in 1..Len(r.results)
      /\ \A n \in 1..Len(q.results) : n \in 1..Len(r.results)
      /\ \A n \in 1..Len(r.results) : n \in 1..Len(q.results) \/ n = Len(q.results) + 1
  BY <1>1, <1>4
<1>10. Len(r.results) + Cardinality(Busy(r)) = r.cursor
  <2> DEFINE m == Len(q.results)
             n == Cardinality(Busy(q))
             x == Len(r.results)
             y == Cardinality(Busy(r))
  <2>1. m + n = r.cursor /\ r.cursor \in Nat
    BY <1>1 DEF RefreshFits
  <2>2. m \in Nat /\ n \in Nat /\ x = m + 1 /\ y = n - 1
    BY <1>1, <1>4, <1>6, <1>8
  <2> HIDE DEF m, n, x, y
  <2>3. x + y = r.cursor
    BY <2>1, <2>2
  <2> QED BY <2>3 DEF x, y
<1>11. \A v \in Worker : /\ r.hands[v].index <= r.cursor
                         /\ r.hands[v].icon # NoIcon => r.hands[v].index # 0
  BY <1>1 DEF RefreshFits
<1>12. \A u, v \in Worker :
         r.hands[u].index = r.hands[v].index /\ r.hands[u].index # 0 => u = v
  BY DEF RefreshFits
<1>13. ASSUME NEW i \in 1..r.cursor \ Busy(r)
       PROVE  \E n \in 1..Len(r.results) : r.results[n].id = r.apps[i].id
  <2>1. CASE i = i0
    BY <1>7, <1>9, <2>1
  <2>2. CASE i # i0
    <3>1. \E n \in 1..Len(q.results) : q.results[n].id = q.apps[i].id
      BY <1>5, <2>2 DEF RefreshFits
    <3> QED BY <1>4, <1>9, <3>1
  <2> QED BY <2>1, <2>2
<1>14. ASSUME NEW n \in 1..Len(r.results)
       PROVE  \E i \in 1..r.cursor : r.results[n].id = r.apps[i].id
  <2>1. CASE n \in 1..Len(q.results)
    <3>1. \E i \in 1..q.cursor : q.results[n].id = q.apps[i].id
      BY <2>1 DEF RefreshFits
    <3> QED BY <1>4, <2>1, <3>1
  <2>2. CASE n = Len(q.results) + 1
    BY <1>3, <1>7, <2>2
  <2> QED BY <1>9, <2>1, <2>2
<1>15. r.cursor <= Len(r.apps)
  BY SMTT(30) DEF RefreshFits
<1> QED BY Zenon, <1>10, <1>11, <1>12, <1>13, <1>14, <1>15 DEF RefreshFits

LEMMA ReportFits ==
  ASSUME NEW q \in RefreshRow, RefreshFits(q), NEW w \in Worker, q.hands[w].index # 0,
         NEW status \in {"missing", "failed", "unchanged", "updated"},
         NEW r, r = [q EXCEPT !.hands[w] = [index |-> 0, icon |-> NoIcon],
                     !.results = Append(@, [id |-> q.apps[q.hands[w].index].id,
                                            status |-> status])]
  PROVE  r \in RefreshRow /\ RefreshFits(r)
<1> DEFINE e == [id |-> q.apps[q.hands[w].index].id, status |-> status]
<1>1. /\ q.cursor \in Nat /\ Len(q.apps) \in Nat /\ q.results \in Seq(AppResult)
      /\ q.hands \in [Worker -> AppHand] /\ q.apps \in Seq(AppIcon)
      /\ q.hands[w].index \in Nat
  BY DEF RefreshRow, AppHand
<1>2. q.apps[q.hands[w].index] \in AppIcon
  BY <1>1 DEF RefreshFits
<1>3. e \in AppResult /\ e.id = q.apps[q.hands[w].index].id
  BY <1>2 DEF AppIcon, AppResult
<1>4. /\ r.at = "refreshing" /\ r.cursor = q.cursor /\ r.apps = q.apps
      /\ r.results = Append(q.results, e)
      /\ r.hands = [q.hands EXCEPT ![w] = [index |-> 0, icon |-> NoIcon]]
      /\ r = [at |-> r.at, cursor |-> r.cursor, hands |-> r.hands, results |-> r.results,
              apps |-> r.apps]
  BY DEF RefreshRow
<1> HIDE DEF e
<1>5. r.results \in Seq(AppResult)
  BY <1>1, <1>3, <1>4
<1>6. /\ r.hands \in [Worker -> AppHand] /\ r.hands[w].index = 0 /\ r.hands[w].icon = NoIcon
      /\ \A v \in Worker \ {w} : r.hands[v] = q.hands[v]
  BY <1>1, <1>4 DEF AppHand
<1>7. r \in RefreshRow
  BY <1>1, <1>4, <1>5, <1>6 DEF RefreshRow
<1> QED BY <1>3, <1>4, <1>6, <1>7, ResultFits

LEMMA ReportRow ==
  ASSUME CatalogueInv, NEW c \in Client, NEW w \in Worker, clerk[c].at = "refreshing",
         clerk[c].hands[w].index # 0,
         NEW status \in {"missing", "failed", "unchanged", "updated"},
         Apps!Report(c, w, status)
  PROVE  \E r \in ClerkRow : r.at = "refreshing" /\ RefreshFits(r) /\ Apps!To(c, r)
<1> DEFINE q == clerk[c]
           r == [q EXCEPT !.hands[w] = [index |-> 0, icon |-> NoIcon],
                          !.results = Append(@, [id |-> q.apps[q.hands[w].index].id,
                                                 status |-> status])]
<1>1. q \in RefreshRow /\ RefreshFits(q)
  BY RefreshingRow
<1>2. Apps!To(c, r)
  BY DEF Apps!Report
<1>3. r \in RefreshRow /\ RefreshFits(r)
  <2> HIDE DEF q
  <2>1. q.hands[w].index # 0
    BY DEF q
  <2> QED BY Zenon, <1>1, <2>1, ReportFits
<1> HIDE DEF r
<1>4. r \in ClerkRow /\ r.at = "refreshing"
  BY <1>3 DEF ClerkRow, RefreshRow
<1> QED BY <1>2, <1>3, <1>4

LEMMA AnswerHere ==
  ASSUME CatalogueInv, NEW c \in Client, NEW w \in Worker, Apps!Answer(c, w)
  PROVE  CatalogueInv'
<1>1. /\ clerk[c].at = "refreshing" /\ clerk[c].hands[w].index # 0
      /\ UNCHANGED <<listing, bundle, normalized, outrun>>
  BY DEF Apps!Answer
<1>2. ASSUME NEW status \in {"missing", "failed", "unchanged"}, Apps!Report(c, w, status)
      PROVE  CatalogueInv'
  BY <1>1, <1>2, ReportRow, ClerkMoves
<1>3. ASSUME NEW icon \in Icon,
             Apps!To(c, [clerk[c] EXCEPT !.hands[w].icon = icon])
      PROVE  CatalogueInv'
  <2> DEFINE q == clerk[c]
             r == [q EXCEPT !.hands[w].icon = icon]
  <2>1. q \in RefreshRow /\ RefreshFits(q) /\ q.hands[w].index # 0 /\ Apps!To(c, r)
    BY <1>1, <1>3, RefreshingRow
  <2> HIDE DEF q
  <2>2. /\ q.hands \in [Worker -> AppHand]
        /\ r = [q EXCEPT !.hands = [q.hands EXCEPT ![w] = [q.hands[w] EXCEPT !.icon = icon]]]
    BY <2>1 DEF RefreshRow
  <2>3. [q.hands[w] EXCEPT !.icon = icon] \in AppHand
    BY <2>2 DEF AppHand
  <2>4. /\ r \in RefreshRow /\ r.apps = q.apps /\ r.results = q.results
        /\ r.cursor = q.cursor
    BY <2>1, <2>2, <2>3 DEF RefreshRow
  <2>5. \A v \in Worker : /\ r.hands[v].index = q.hands[v].index
                          /\ v # w => r.hands[v] = q.hands[v]
    BY <2>1, <2>2 DEF RefreshRow, AppHand
  <2> HIDE DEF r
  <2>6. Busy(r) = Busy(q)
    BY <2>4, <2>5 DEF Busy
  <2>7. RefreshFits(r)
    BY SMTT(30), <2>1, <2>4, <2>5, <2>6 DEF RefreshFits
  <2>8. r \in ClerkRow /\ r.at = "refreshing"
    BY <2>4 DEF ClerkRow, RefreshRow
  <2> QED BY <1>1, <2>1, <2>7, <2>8, ClerkMoves
<1>4. \/ \E status \in {"missing", "failed", "unchanged"} : Apps!Report(c, w, status)
      \/ \E icon \in Icon : Apps!To(c, [clerk[c] EXCEPT !.hands[w].icon = icon])
  <2>1. PICK play, galaxy \in Apps!StoreAnswer, samsung \in BOOLEAN, icon \in Icon :
               LET answer == Apps!FetchIcon(play, samsung, galaxy)
                   hand == clerk[c].hands[w]
                IN  CASE answer \in {"none", "gone"} -> Apps!Report(c, w, "missing")
                      [] answer = "failed" -> Apps!Report(c, w, "failed")
                      [] OTHER ->
                           IF icon = clerk[c].apps[hand.index].icon
                           THEN Apps!Report(c, w, "unchanged")
                           ELSE Apps!To(c, [clerk[c] EXCEPT !.hands[w].icon = icon])
    BY DEF Apps!Answer
  <2> QED BY <2>1
<1> QED BY <1>2, <1>3, <1>4

LEMMA StoreIconHere ==
  ASSUME CatalogueInv, NEW c \in Client, NEW w \in Worker, Apps!StoreIcon(c, w)
  PROVE  CatalogueInv'
<1> DEFINE q == clerk[c]
           hand == q.hands[w]
           a == q.apps[hand.index].id
<1>1. q \in RefreshRow /\ RefreshFits(q) /\ hand.icon # NoIcon /\ q.at = "refreshing"
  BY Zenon, RefreshingRow DEF Apps!StoreIcon
<1>2. hand.index # 0 /\ hand.icon \in Icon
  BY <1>1 DEF RefreshFits, RefreshRow, AppHand
<1>3. UNCHANGED <<bundle, normalized, outrun>>
  BY Zenon DEF Apps!StoreIcon
<1>4. CASE Apps!Report(c, w, "failed") /\ UNCHANGED listing
  BY <1>1, <1>2, <1>3, <1>4, ReportRow, ClerkMoves
<1>5. CASE /\ listing' = [listing EXCEPT ![a].icon = hand.icon]
           /\ Apps!Report(c, w, "updated")
  <2>1. PICK r \in ClerkRow : r.at = "refreshing" /\ RefreshFits(r) /\ Apps!To(c, r)
    BY Zenon, <1>1, <1>2, <1>5, ReportRow
  <2> HIDE DEF a, q, hand
  <2>2. /\ listing' \in [App -> AppRow]
        /\ \A b \in App : /\ listing'[b].package = listing[b].package
                          /\ listing'[b].platform = listing[b].platform
    BY <1>2, <1>5 DEF CatalogueInv, CatalogueTypes, AppRow
  <2>3. PlatformsFit' /\ OwnersUnique'
    BY <1>3, <2>2 DEF CatalogueInv, PlatformsFit, OwnersUnique, Apps!Exists
  <2>4. ItemsExist'
    BY <1>3, <2>2 DEF CatalogueInv, CatalogueTypes, PresetRow, ItemsExist, Apps!Exists
  <2>5. /\ clerk' \in [Client -> ClerkRow] /\ clerk'[c] = r
        /\ \A d \in Client \ {c} : clerk'[d] = clerk[d]
    BY <2>1 DEF CatalogueInv, CatalogueTypes, Apps!To
  <2>6. ChecksHold'
    BY <2>1, <2>2, <2>5 DEF CatalogueInv, ChecksHold, Apps!Exists
  <2>7. RefreshesFit'
    BY <2>1, <2>5 DEF CatalogueInv, RefreshesFit
  <2> QED BY <1>3, <2>2, <2>3, <2>4, <2>5, <2>6, <2>7 DEF CatalogueInv, CatalogueTypes
<1> QED BY Zenon, <1>4, <1>5 DEF Apps!StoreIcon

LEMMA RestartHere == ASSUME CatalogueInv, Apps!Restart PROVE CatalogueInv'
<1>1. /\ UNCHANGED <<listing, bundle, outrun>> /\ normalized' = {}
      /\ clerk' \in [Client -> ClerkRow]
      /\ \A c \in Client : clerk'[c].at = "idle"
  BY IdleRow DEF Apps!Restart
<1>2. ChecksHold' /\ RefreshesFit'
  BY <1>1 DEF ChecksHold, RefreshesFit
<1>3. CatalogueTypes' /\ PlatformsFit' /\ ItemsExist' /\ OwnersUnique'
  BY <1>1 DEF CatalogueInv, CatalogueTypes, PlatformsFit, ItemsExist, OwnersUnique,
              Apps!Exists
<1> QED BY <1>2, <1>3 DEF CatalogueInv

LEMMA CatalogueStart == Apps!Init => CatalogueInv
<1> SUFFICES ASSUME Apps!Init PROVE CatalogueInv
  OBVIOUS
<1>1. /\ Apps!NoApp \in AppRow /\ Apps!NoApp.package = NoPackage
      /\ Apps!NoApp.platform \in Apps!Valid
  BY DEF Apps!NoApp, AppRow, AppPlatform, Apps!Valid
<1>2. listing \in [App -> AppRow]
  BY <1>1 DEF Apps!Init, AppRow, AppPlatform
<1>3. PlatformsFit
  BY <1>1, AppsConstants DEF Apps!Init, PlatformsFit, Apps!Exists
<1>4. bundle \in [Preset -> PresetRow] /\ ItemsExist
  BY DEF Apps!Init, PresetRow, AppPlatform, ItemsExist
<1>5. OwnersUnique
  BY DEF Apps!Init, OwnersUnique
<1>6. /\ clerk \in [Client -> ClerkRow] /\ \A c \in Client : clerk[c].at = "idle"
      /\ normalized = {} /\ outrun = {}
  BY IdleRow DEF Apps!Init
<1>7. ChecksHold /\ RefreshesFit
  BY <1>6 DEF ChecksHold, RefreshesFit
<1> QED BY <1>2, <1>3, <1>4, <1>5, <1>6, <1>7 DEF CatalogueInv, CatalogueTypes

LEMMA CatalogueStep ==
  ASSUME CatalogueInv, [Apps!Next]_(Apps!catalogueVars) PROVE CatalogueInv'
<1>1. CASE UNCHANGED Apps!catalogueVars
  BY <1>1 DEF Apps!catalogueVars, CatalogueInv, CatalogueTypes, PlatformsFit, ItemsExist,
              OwnersUnique, ChecksHold, RefreshesFit, Apps!Exists
<1>2. CASE Apps!Restart
  BY <1>2, RestartHere
<1>3. ASSUME NEW c \in Client, NEW asks \in AppTask, Apps!Arrive(c, asks)
      PROVE  CatalogueInv'
  BY <1>3, ArrivesHere
<1>4. ASSUME NEW c \in Client,
             \/ Apps!EnsureFails(c) \/ Apps!EnsureValid(c)
             \/ \E a \in App, p \in Package : Apps!CheckPackage(c, a, p)
             \/ Apps!WritePackage(c) \/ Apps!DeleteApp(c)
             \/ \E a \in App : Apps!UpdateApp(c, a) \/ Apps!CheckUnused(c, a)
      PROVE  CatalogueInv'
  BY <1>4, EnsureFailsHere, EnsureValidHere, CheckPackageHere, WritePackageHere,
     DeleteAppHere, UpdateAppHere, CheckUnusedHere
<1>5. ASSUME NEW c \in Client,
             \/ \E s \in Preset, items \in SUBSET App : Apps!CheckApps(c, s, items)
             \/ \E s \in Preset : Apps!RemovePreset(c, s)
             \/ Apps!CreatePreset(c) \/ Apps!RefreshIcons(c) \/ Apps!AnswerRefresh(c)
             \/ Apps!Refuse(c)
             \/ \E w \in Worker : Apps!Claim(c, w) \/ Apps!Answer(c, w) \/ Apps!StoreIcon(c, w)
      PROVE  CatalogueInv'
  BY <1>5, CheckAppsHere, PresetsHere, RefreshIconsHere, RefuseHere, ClaimHere, AnswerHere,
     StoreIconHere
<1> QED BY <1>1, <1>2, <1>3, <1>4, <1>5 DEF Apps!Next, AppTask

LEMMA CatalogueAlways == Apps!Spec => []CatalogueInv
BY CatalogueStart, CatalogueStep, PTL DEF Apps!Spec

\* modules/allowed-apps: what a preset has exists, whatever is removed meanwhile.
THEOREM CatalogueTyped == Apps!Spec => []Apps!TypeOK
<1>1. CatalogueInv => Apps!TypeOK
  BY DEF CatalogueInv, CatalogueTypes, PlatformsFit, ItemsExist, AppRow, AppService,
         Apps!TypeOK
<1> QED BY <1>1, CatalogueAlways, PTL

\* create, update: two apps have one package, in whatever letters, only if it was
\* written by two requests that overlap, and findByPackageName finds what there is.
THEOREM PackagesOnce == Apps!Spec => []Apps!PackagesUnique
<1>1. CatalogueInv => Apps!PackagesUnique
  <2> SUFFICES ASSUME CatalogueInv, NEW p \in Package
               PROVE  LET all == {a \in App : /\ Apps!Exists(a)
                                              /\ Folded[listing[a].package] = Folded[p]}
                      IN  /\ Apps!Cardinality(all \ outrun) <= 1
                          /\ (all = {}) = (Apps!Found(p) = {})
    BY DEF Apps!PackagesUnique
  <2> DEFINE all == {a \in App : Apps!Exists(a) /\ Folded[listing[a].package] = Folded[p]}
             rest == all \ outrun
  <2>1. \A a, b \in rest : a = b
    BY DEF CatalogueInv, OwnersUnique
  <2>2. Cardinality(rest) <= 1
    <3> HIDE DEF rest
    <3>1. CASE rest = {}
      BY <3>1, FS_EmptySet
    <3>2. CASE rest # {}
      <4>1. PICK a : rest = {a}
        BY <2>1, <3>2
      <4>2. Cardinality({a}) = 1
        BY FS_Singleton
      <4> QED BY <4>1, <4>2
    <3> QED BY <3>1, <3>2
  <2>3. Apps!Cardinality(rest) <= 1
    BY <2>2, AppsCounts
  <2>4. (all = {}) = (Apps!Found(p) = {})
    BY AppsConstants DEF Apps!Found, Apps!Exists
  <2> QED BY <2>3, <2>4
<1> QED BY <1>1, CatalogueAlways, PTL

\* ensureValidPlatformData: once a service has run it, findAll with a platform finds
\* what is shown as of the platform.
THEOREM FiltersShow == Apps!Spec => []Apps!FiltersAgree
<1>1. CatalogueInv => Apps!FiltersAgree
  BY DEF CatalogueInv, PlatformsFit, Apps!FiltersAgree, Apps!FindAll, Apps!Shown,
         Apps!NormalizePlatform, Apps!Valid
<1> QED BY <1>1, CatalogueAlways, PTL

\* refreshIcons: when no worker is busy and no app is left, every app has been reported
\* once, however many workers there are.
THEOREM AppsReported == Apps!Spec => []Apps!ReportedOnce
<1>1. CatalogueInv => Apps!ReportedOnce
  <2> SUFFICES ASSUME CatalogueInv, NEW c \in Client, Apps!Refreshed(c)
               PROVE  LET q == clerk[c]
                      IN  /\ Len(q.results) = Len(q.apps)
                          /\ Apps!ToSet([i \in DOMAIN q.results |-> q.results[i].id])
                               = Apps!ToSet([i \in DOMAIN q.apps |-> q.apps[i].id])
    BY DEF Apps!ReportedOnce
  <2> DEFINE q == clerk[c]
  <2>1. q \in RefreshRow /\ RefreshFits(q) /\ q.hands = Apps!Unbusy /\ q.cursor >= Len(q.apps)
    BY RefreshingRow DEF Apps!Refreshed
  <2> HIDE DEF q
  <2>2. /\ q.cursor \in Nat /\ Len(q.apps) \in Nat /\ Len(q.results) \in Nat
        /\ DOMAIN q.results = 1..Len(q.results) /\ DOMAIN q.apps = 1..Len(q.apps)
    BY <2>1 DEF RefreshRow
  <2>3. Busy(q) = {} /\ Cardinality(Busy(q)) = 0
    <3>1. \A w \in Worker : q.hands[w].index = 0
      BY <2>1 DEF Apps!Unbusy
    <3>2. Busy(q) = {}
      BY <2>2, <3>1 DEF Busy
    <3> QED BY <3>2, FS_EmptySet
  <2>4. q.cursor = Len(q.apps)
    BY <2>1, <2>2 DEF RefreshFits
  <2>5. Len(q.results) = Len(q.apps)
    <3>1. Len(q.results) + Cardinality(Busy(q)) = q.cursor
      BY <2>1 DEF RefreshFits
    <3> QED BY <2>2, <2>3, <2>4, <3>1
  <2>6. /\ \A i \in 1..Len(q.apps) :
             \E n \in 1..Len(q.results) : q.results[n].id = q.apps[i].id
        /\ \A n \in 1..Len(q.results) :
             \E i \in 1..Len(q.apps) : q.results[n].id = q.apps[i].id
    BY <2>1, <2>3, <2>4 DEF RefreshFits
  <2>7. Apps!ToSet([i \in DOMAIN q.results |-> q.results[i].id])
          = Apps!ToSet([i \in DOMAIN q.apps |-> q.apps[i].id])
    <3> DEFINE f == [i \in DOMAIN q.results |-> q.results[i].id]
               g == [i \in DOMAIN q.apps |-> q.apps[i].id]
    <3>1. /\ DOMAIN f = 1..Len(q.results) /\ DOMAIN g = 1..Len(q.apps)
          /\ \A n \in 1..Len(q.results) : f[n] = q.results[n].id
          /\ \A i \in 1..Len(q.apps) : g[i] = q.apps[i].id
      BY <2>2
    <3> HIDE DEF f, g
    <3>2. Apps!ToSet(f) = Apps!ToSet(g)
      <4>1. \A n \in DOMAIN f : \E i \in DOMAIN g : f[n] = g[i]
        <5> SUFFICES ASSUME NEW n \in 1..Len(q.results) PROVE \E i \in DOMAIN g : f[n] = g[i]
          BY <3>1
        <5>1. PICK i \in 1..Len(q.apps) : q.results[n].id = q.apps[i].id
          BY <2>6
        <5> QED BY <3>1, <5>1
      <4>2. \A i \in DOMAIN g : \E n \in DOMAIN f : f[n] = g[i]
        <5> SUFFICES ASSUME NEW i \in 1..Len(q.apps) PROVE \E n \in DOMAIN f : f[n] = g[i]
          BY <3>1
        <5>1. PICK n \in 1..Len(q.results) : q.results[n].id = q.apps[i].id
          BY <2>6
        <5> QED BY <3>1, <5>1
      <4> QED BY <4>1, <4>2 DEF Apps!ToSet
    <3> QED BY <3>2 DEF f, g
  <2> QED BY <2>5, <2>7 DEF q
<1> QED BY <1>1, CatalogueAlways, PTL

-----------------------------------------------------------------------------
(* The policies on the phones. *)

LEMMA DeliveryConstants ==
  /\ Site \notin Unit /\ OwnerOf \in [Policy -> Delivery!Place]
  /\ NoPolicy \notin Policy /\ Keep \notin Policy
  /\ Wants \subseteq
         [targets : SUBSET Unit, active : BOOLEAN \cup {Keep}, draft : BOOLEAN \cup {Keep},
          rules : Nat, link : BOOLEAN \cup {Keep}]
BY AdministrationAssumption DEF Delivery!DeliveryAssumption

PolicyRow == [gone : BOOLEAN, draft : BOOLEAN, active : BOOLEAN, rules : Nat,
              targets : SUBSET Unit, link : BOOLEAN]
PhoneRow == [token : {0, 1}, status : {"ok", "none", "error"}, working : BOOLEAN]
ItemStep == {"replaceApps", "addApps", "removeApps"}
UpdateTask == [step : {"update"}, who : Policy, want : Wants, seen : PolicyRow,
               targets : SUBSET Unit, draft : BOOLEAN]
UpdatedTask == [step : {"updated"}, who : Policy, seen : PolicyRow]
SwitchTask == [step : {"switch"}, who : SUBSET Policy, on : BOOLEAN,
               found : [Policy -> PolicyRow]]
RemoveTask == [step : {"remove"}, who : SUBSET Policy, found : [Policy -> PolicyRow]]
SelectTask == [step : {"select"}, who : Delivery!Place, seen : Policy \cup {NoPolicy},
               next : Policy \cup {NoPolicy}]
ItemsTask == [step : ItemStep, items : SUBSET PhoneApp]
DropTask == [step : {"drop"}, who : SUBSET Policy]
AppTellTask == [step : {"tellApp"}, who : PhoneApp]
AppWriteTask == [step : {"app"}, who : PhoneApp, next : BOOLEAN]
LeftTask == [step : {"dismiss", "withdraw"}, who : Unit]
PushTask == [step : {"push"}, due : SUBSET (Policy \X SUBSET Unit),
             todo : SUBSET (Unit \X {0, 1}), failed : SUBSET Unit, marks : BOOLEAN]
TaskRow == [step : {"idle", "tellPreset"}] \cup UpdateTask \cup UpdatedTask \cup SwitchTask
             \cup RemoveTask \cup SelectTask \cup ItemsTask \cup DropTask \cup AppWriteTask
             \cup AppTellTask \cup LeftTask \cup PushTask

PhoneTypes ==
    /\ policy \in [Policy -> PolicyRow]
    /\ chosen \in [Delivery!Place -> Policy \cup {NoPolicy}]
    /\ preset \in [gone : BOOLEAN, items : SUBSET PhoneApp]
    /\ app \in [PhoneApp -> BOOLEAN]
    /\ device \in [Unit -> PhoneRow]
    /\ shown = [u \in Unit |-> shown[u]]
    /\ task \in [Client -> TaskRow]
    /\ excepted \in SUBSET Unit

\* Units are of the owner, selections of the place; a status is lost with no token.
OwnersFit ==
    /\ \A p \in Policy : policy[p].targets \subseteq Delivery!UnitsOf(OwnerOf[p])
    /\ \A o \in Delivery!Place :
          chosen[o] # NoPolicy => OwnerOf[chosen[o]] \in Delivery!Chain(o)
    /\ \A k \in Client : task[k].step = "update" =>
          task[k].targets \subseteq Delivery!UnitsOf(OwnerOf[task[k].who])
TokensFit ==
    /\ \A u \in Unit : device[u].token = 1 => device[u].status # "none"
    /\ \A k \in Client : task[k].step = "push" =>
          \A t \in task[k].todo : t[2] <= device[t[1]].token

\* The policies that apply to a working user, and those of one owner.
Level(o, u) == {p \in Policy : /\ OwnerOf[p] = o /\ ~ policy[p].gone /\ policy[p].active
                               /\ policy[p].targets = {} \/ u \in policy[p].targets}
Winners(u) ==
    IF Delivery!Explicit(u) # {} THEN Delivery!Explicit(u)
    ELSE IF Level(u, u) # {} THEN Level(u, u) ELSE Level(Site, u)

Uses(p, u) == p \in Delivery!Of(u) /\ policy[p].link /\ ~ preset.gone
Has(p, u) == u \in Delivery!DispatchTargets(policy[p], p)

\* A request that will tell the unit of what it shows no longer: each kind for as long
\* as the unit depends on what the request will look up.
Tells(k, u) ==
    \/ /\ task[k].step = "updated" /\ device[u].working
       /\ \E p \in Policy : /\ p = task[k].who
                            /\ \/ Has(p, u)
                               \/ u \in Delivery!DispatchTargets(task[k].seen, p)
    \/ /\ \/ task[k].step = "tellPreset"
          \/ task[k].step = "tellApp" /\ task[k].who \in preset.items
       /\ \E p \in Policy : Uses(p, u) /\ Has(p, u)
    \/ task[k].step \in {"dismiss", "withdraw"} /\ task[k].who = u /\ ~ device[u].working
    \/ /\ task[k].step = "push"
       /\ \/ /\ device[u].working
             /\ \E p \in Policy, to \in SUBSET Unit :
                   <<p, to>> \in task[k].due /\ ((to = {} /\ Has(p, u)) \/ u \in to)
          \/ <<u, device[u].token>> \in task[k].todo
          \/ u \in task[k].failed

Fresh(u) ==
    \/ shown[u] = Delivery!Applied(u)
    \/ device[u].status = "error" \/ u \in excepted
    \/ device[u].status = "none" /\ ~ device[u].working

Told(u) == Fresh(u) \/ \E k \in Client : Tells(k, u)

PhoneInv == PhoneTypes /\ OwnersFit /\ TokensFit /\ \A u \in Unit : Told(u)

-----------------------------------------------------------------------------
(* What applies. *)

LEMMA OfWinners ==
  ASSUME NEW u \in Unit
  PROVE  /\ Delivery!Of(u) = IF device[u].working THEN Winners(u) ELSE {}
         /\ Delivery!Applied(u) = {Delivery!ContentOf(p) : p \in Delivery!Of(u)}
<1>1. Delivery!Fallback(u) = IF Level(u, u) # {} THEN Level(u, u) ELSE Level(Site, u)
  BY DEF Delivery!Fallback, Level
<1>2. Delivery!Applied(u)
        = IF device[u].working THEN {Delivery!ContentOf(p) : p \in Winners(u)} ELSE {}
  BY <1>1 DEF Delivery!Applied, Winners
<1>3. \A p : Delivery!ContentOf(p).policy = p
  BY DEF Delivery!ContentOf
<1>4. Delivery!Of(u) = IF device[u].working THEN Winners(u) ELSE {}
  BY <1>2, <1>3 DEF Delivery!Of
<1> QED BY <1>2, <1>4

LEMMA OfWinnersNext ==
  ASSUME NEW u \in Unit
  PROVE  /\ Delivery!Of(u)' = IF device'[u].working THEN Winners(u)' ELSE {}
         /\ Delivery!Applied(u)' = {Delivery!ContentOf(p)' : p \in Delivery!Of(u)'}
<1>1. Delivery!Fallback(u)' = IF Level(u, u)' # {} THEN Level(u, u)' ELSE Level(Site, u)'
  BY DEF Delivery!Fallback, Level
<1>2. Delivery!Applied(u)'
        = IF device'[u].working THEN {Delivery!ContentOf(p)' : p \in Winners(u)'} ELSE {}
  BY <1>1 DEF Delivery!Applied, Winners
<1>3. \A p : (Delivery!ContentOf(p)').policy = p
  BY DEF Delivery!ContentOf
<1>4. Delivery!Of(u)' = IF device'[u].working THEN Winners(u)' ELSE {}
  BY <1>2, <1>3 DEF Delivery!Of
<1> QED BY <1>2, <1>4

\* Which policies apply to a unit depends on those that do so before or after.
LEMMA OfStays ==
  ASSUME NEW ps \in SUBSET Policy, NEW u \in Unit, UNCHANGED chosen,
         device'[u].working = device[u].working,
         \A p \in Policy \ ps : policy'[p] = policy[p],
         ps \cap Delivery!Of(u) = {}, ps \cap Delivery!Of(u)' = {}
  PROVE  Delivery!Of(u)' = Delivery!Of(u)
<1>1. CASE ~ device[u].working
  BY <1>1, OfWinners, OfWinnersNext
<1>2. CASE device[u].working
  <2>1. /\ Delivery!Of(u) = Winners(u) /\ Delivery!Of(u)' = Winners(u)'
        /\ ps \cap Winners(u) = {} /\ ps \cap Winners(u)' = {}
    BY <1>2, OfWinners, OfWinnersNext
  <2>2. \A p \in Policy \ ps : p \in Delivery!Explicit(u)' <=> p \in Delivery!Explicit(u)
    BY DEF Delivery!Explicit
  <2>3. \A o : \A p \in Policy \ ps : p \in Level(o, u)' <=> p \in Level(o, u)
    BY DEF Level
  <2>4. /\ Delivery!Explicit(u) \subseteq Policy /\ Delivery!Explicit(u)' \subseteq Policy
        /\ \A p, q \in Delivery!Explicit(u) \cup Delivery!Explicit(u)' : p = q
    BY DEF Delivery!Explicit
  <2>5. \A o : Level(o, u) \subseteq Policy /\ Level(o, u)' \subseteq Policy
    BY DEF Level
  <2>6. Winners(u)' = Winners(u)
    <3>1. CASE Delivery!Explicit(u) # {}
      BY <2>1, <2>2, <2>4, <3>1 DEF Winners
    <3>2. CASE Delivery!Explicit(u) = {} /\ Delivery!Explicit(u)' # {}
      BY <2>1, <2>2, <2>4, <3>2 DEF Winners
    <3>3. CASE /\ Delivery!Explicit(u) = {} /\ Delivery!Explicit(u)' = {}
               /\ Level(u, u) # {} \/ Level(u, u)' # {}
      BY <2>1, <2>3, <2>5, <3>3 DEF Winners
    <3>4. CASE /\ Delivery!Explicit(u) = {} /\ Delivery!Explicit(u)' = {}
               /\ Level(u, u) = {} /\ Level(u, u)' = {}
      BY <2>1, <2>3, <2>5, <3>4 DEF Winners
    <3> QED BY <3>1, <3>2, <3>3, <3>4
  <2> QED BY <2>1, <2>6
<1> QED BY <1>1, <1>2

\* What they say, where the same apply and none of them says something else.
LEMMA ContentsStay ==
  ASSUME NEW u \in Unit, Delivery!Of(u)' = Delivery!Of(u),
         \A p \in Delivery!Of(u) : Delivery!ContentOf(p)' = Delivery!ContentOf(p)
  PROVE  Delivery!Applied(u)' = Delivery!Applied(u)
<1>1. {Delivery!ContentOf(p)' : p \in Delivery!Of(u)} = {Delivery!ContentOf(p) : p \in Delivery!Of(u)}
  OBVIOUS
<1>2. Delivery!Applied(u)' = {Delivery!ContentOf(p)' : p \in Delivery!Of(u)}
  BY OfWinnersNext
<1>3. Delivery!Applied(u) = {Delivery!ContentOf(p) : p \in Delivery!Of(u)}
  BY OfWinners
<1> QED BY <1>1, <1>2, <1>3

LEMMA OfPolicies ==
  ASSUME NEW u \in Unit
  PROVE  /\ Delivery!Of(u) \subseteq Policy
         /\ ~ device[u].working => Delivery!Of(u) = {}
<1>1. Winners(u) \subseteq Policy
  BY DEF Winners, Level, Delivery!Explicit
<1> QED BY <1>1, OfWinners

LEMMA OthersMatterNot ==
  ASSUME NEW ps \in SUBSET Policy, NEW u \in Unit, UNCHANGED <<chosen, preset, app>>,
         device'[u].working = device[u].working,
         \A p \in Policy \ ps : policy'[p] = policy[p],
         ps \cap Delivery!Of(u) = {}, ps \cap Delivery!Of(u)' = {}
  PROVE  Delivery!Of(u)' = Delivery!Of(u) /\ Delivery!Applied(u)' = Delivery!Applied(u)
<1>1. Delivery!Of(u)' = Delivery!Of(u)
  BY OfStays
<1>2. \A p \in Delivery!Of(u) : policy'[p] = policy[p]
  BY OfPolicies
<1>3. \A p \in Delivery!Of(u) : Delivery!ContentOf(p)' = Delivery!ContentOf(p)
  BY <1>2 DEF Delivery!ContentOf
<1> QED BY <1>1, <1>3, ContentsStay

-----------------------------------------------------------------------------
(* What a step does to the requests and to what they will tell. *)

TellStep == {"updated", "tellPreset", "tellApp", "dismiss", "withdraw", "push"}

LEMMA TaskTypes ==
  ASSUME PhoneInv, NEW k \in Client
  PROVE  /\ task[k].step = "update" => task[k] \in UpdateTask
         /\ task[k].step = "updated" => task[k] \in UpdatedTask
         /\ task[k].step = "switch" => task[k] \in SwitchTask
         /\ task[k].step = "remove" => task[k] \in RemoveTask
         /\ task[k].step = "select" => task[k] \in SelectTask
         /\ task[k].step \in ItemStep => task[k] \in ItemsTask
         /\ task[k].step = "drop" => task[k] \in DropTask
         /\ task[k].step = "app" => task[k] \in AppWriteTask
         /\ task[k].step = "tellApp" => task[k] \in AppTellTask
         /\ task[k].step \in {"dismiss", "withdraw"} => task[k] \in LeftTask
         /\ task[k].step = "push" => task[k] \in PushTask
<1>1. task[k] \in TaskRow
  BY DEF PhoneInv, PhoneTypes
<1> DEFINE j == task[k]
<1> HIDE DEF j
<1>2. j \in TaskRow
  BY <1>1 DEF j
<1>3. /\ j.step = "update" => j \in UpdateTask
      /\ j.step = "updated" => j \in UpdatedTask
      /\ j.step = "switch" => j \in SwitchTask
      /\ j.step = "remove" => j \in RemoveTask
      /\ j.step = "select" => j \in SelectTask
      /\ j.step \in ItemStep => j \in ItemsTask
      /\ j.step = "drop" => j \in DropTask
      /\ j.step = "app" => j \in AppWriteTask
      /\ j.step = "tellApp" => j \in AppTellTask
      /\ j.step \in {"dismiss", "withdraw"} => j \in LeftTask
      /\ j.step = "push" => j \in PushTask
  BY <1>2 DEF TaskRow, UpdateTask, UpdatedTask, SwitchTask, RemoveTask, SelectTask,
              ItemsTask, ItemStep, DropTask, AppWriteTask, AppTellTask, LeftTask, PushTask
<1> QED BY <1>3 DEF j

LEMMA IdleTask == Delivery!Idle \in TaskRow /\ Delivery!Idle.step = "idle"
BY DEF Delivery!Idle, TaskRow

\* A request moves on.
LEMMA TaskMoves ==
  ASSUME PhoneInv, NEW k \in Client, NEW j \in TaskRow, Delivery!Go(k, j)
  PROVE  /\ task' \in [Client -> TaskRow] /\ task'[k] = j
         /\ \A d \in Client \ {k} : task'[d] = task[d]
BY DEF PhoneInv, PhoneTypes, Delivery!Go

\* What a list of pushes is.
LEMMA PushingTask ==
  ASSUME NEW due \in SUBSET (Policy \X SUBSET Unit)
  PROVE  LET j == Delivery!Pushing(due)
         IN  /\ j \in TaskRow
             /\ due = {} => j.step = "idle"
             /\ due # {} => /\ j \in PushTask /\ j.step = "push" /\ j.due = due
                            /\ j.todo = {} /\ j.failed = {}
<1>1. CASE due = {}
  BY <1>1, IdleTask DEF Delivery!Pushing
<1>2. CASE due # {}
  <2> DEFINE j == [step |-> "push", due |-> due, todo |-> {}, failed |-> {}, marks |-> TRUE]
  <2>1. j \in PushTask /\ j.step = "push" /\ j.due = due /\ j.todo = {} /\ j.failed = {}
    BY DEF PushTask
  <2>2. Delivery!Pushing(due) = j
    BY <1>2 DEF Delivery!Pushing
  <2> HIDE DEF j
  <2>3. j \in TaskRow
    BY <2>1 DEF TaskRow
  <2> QED BY <1>2, <2>1, <2>2, <2>3
<1> QED BY <1>1, <1>2

LEMMA OwnPairs ==
  ASSUME NEW ps \in SUBSET Policy
  PROVE  /\ Delivery!Own(ps) \in SUBSET (Policy \X SUBSET Unit)
         /\ \A p \in ps : <<p, {}>> \in Delivery!Own(ps)
         /\ \A d \in Delivery!Own(ps) : d[2] = {}
BY DEF Delivery!Own

\* A request that will push to the targets of policies tells those they have.
LEMMA OwnTells ==
  ASSUME NEW k \in Client, NEW ps \in SUBSET Policy,
         task'[k] = Delivery!Pushing(Delivery!Own(ps)),
         NEW u \in Unit, device'[u].working, NEW p \in ps, Has(p, u)'
  PROVE  Tells(k, u)'
<1>1. /\ Delivery!Own(ps) \in SUBSET (Policy \X SUBSET Unit)
      /\ <<p, {}>> \in Delivery!Own(ps) /\ p \in Policy
  BY OwnPairs
<1>2. task'[k].step = "push" /\ task'[k].due = Delivery!Own(ps)
  BY <1>1, PushingTask
<1>3. \E q \in Policy, to \in SUBSET Unit :
          <<q, to>> \in task'[k].due /\ ((to = {} /\ Has(q, u)') \/ u \in to)
  BY <1>1, <1>2
<1> QED BY <1>2, <1>3 DEF Tells

\* Rows that stand still: the same applies, and the same will be looked up.
LEMMA RowsStay ==
  ASSUME UNCHANGED <<policy, chosen, preset, app, device>>, NEW u \in Unit
  PROVE  /\ Delivery!Applied(u)' = Delivery!Applied(u)
         /\ \A p \in Policy : Has(p, u)' <=> Has(p, u)
         /\ \A p \in Policy : Uses(p, u)' <=> Uses(p, u)
<1>1. {} \in SUBSET Policy /\ {} \cap Delivery!Of(u) = {} /\ {} \cap Delivery!Of(u)' = {}
  OBVIOUS
<1>2. Delivery!Of(u)' = Delivery!Of(u) /\ Delivery!Applied(u)' = Delivery!Applied(u)
  BY <1>1, OthersMatterNot
<1> QED BY <1>2 DEF Has, Uses

\* Requests that stand still tell whom they told, where what they look up does.
LEMMA TellsOn ==
  ASSUME NEW k \in Client, NEW u \in Unit, Tells(k, u), task'[k] = task[k],
         device'[u].working = device[u].working, device'[u].token = device[u].token,
         device[u].working => \A p \in Policy : Has(p, u) => Has(p, u)',
         \A p \in Policy : Uses(p, u) /\ Has(p, u) => Uses(p, u)' /\ Has(p, u)',
         (\E p \in Policy : Uses(p, u) /\ Has(p, u)) => preset.items \subseteq preset'.items
  PROVE  Tells(k, u)'
<1>1. CASE /\ task[k].step = "updated" /\ device[u].working
           /\ \E p \in Policy : /\ p = task[k].who
                                /\ \/ Has(p, u)
                                   \/ u \in Delivery!DispatchTargets(task[k].seen, p)
  BY <1>1 DEF Tells
<1>2. CASE /\ \/ task[k].step = "tellPreset"
              \/ task[k].step = "tellApp" /\ task[k].who \in preset.items
           /\ \E p \in Policy : Uses(p, u) /\ Has(p, u)
  BY <1>2 DEF Tells
<1>3. CASE task[k].step \in {"dismiss", "withdraw"} /\ task[k].who = u /\ ~ device[u].working
  BY <1>3 DEF Tells
<1>4. CASE /\ task[k].step = "push"
           /\ \/ /\ device[u].working
                 /\ \E p \in Policy, to \in SUBSET Unit :
                       <<p, to>> \in task[k].due /\ ((to = {} /\ Has(p, u)) \/ u \in to)
              \/ <<u, device[u].token>> \in task[k].todo
              \/ u \in task[k].failed
  BY <1>4 DEF Tells
<1> QED BY <1>1, <1>2, <1>3, <1>4 DEF Tells

\* A write of rows: the request that wrote them tells whoever the write concerns, or
\* leaves it to a limit.
LEMMA WriteTold ==
  ASSUME PhoneInv, NEW k \in Client, task[k].step \notin TellStep, NEW u \in Unit,
         \A d \in Client \ {k} : task'[d] = task[d],
         UNCHANGED <<device, shown>>, excepted \subseteq excepted',
         u \notin excepted' /\ ~ Tells(k, u)' =>
           /\ Delivery!Applied(u)' = Delivery!Applied(u)
           /\ device[u].working => \A p \in Policy : Has(p, u) => Has(p, u)'
           /\ \A p \in Policy : Uses(p, u) /\ Has(p, u) => Uses(p, u)' /\ Has(p, u)'
           /\ (\E p \in Policy : Uses(p, u) /\ Has(p, u)) => preset.items \subseteq preset'.items
  PROVE  Told(u)'
<1>1. CASE u \in excepted' \/ Tells(k, u)'
  BY <1>1 DEF Told, Fresh
<1>2. CASE ~ (u \in excepted' \/ Tells(k, u)')
  <2>1. CASE Fresh(u)
    BY <1>2, <2>1 DEF Told, Fresh
  <2>2. ASSUME NEW d \in Client, Tells(d, u) PROVE Told(u)'
    <3>1. d # k
      BY <2>2 DEF Tells, TellStep
    <3>2. Tells(d, u)'
      BY <1>2, <2>2, <3>1, TellsOn
    <3> QED BY <3>2 DEF Told
  <2> QED BY <2>1, <2>2 DEF PhoneInv, Told
<1> QED BY <1>1, <1>2

\* A step that writes no rows: the request goes on telling, or need not.
LEMMA StepTold ==
  ASSUME PhoneInv, NEW k \in Client, NEW u \in Unit,
         \A d \in Client \ {k} : task'[d] = task[d],
         UNCHANGED <<policy, chosen, preset, app, device, shown>>, excepted \subseteq excepted',
         Tells(k, u) => Told(u)'
  PROVE  Told(u)'
<1>1. /\ Delivery!Applied(u)' = Delivery!Applied(u)
      /\ \A p \in Policy : Has(p, u)' <=> Has(p, u)
      /\ \A p \in Policy : Uses(p, u)' <=> Uses(p, u)
  BY RowsStay
<1>2. CASE Fresh(u)
  BY <1>1, <1>2 DEF Told, Fresh
<1>3. ASSUME NEW d \in Client \ {k}, Tells(d, u) PROVE Told(u)'
  <2>1. Tells(d, u)'
    BY <1>1, <1>3, TellsOn
  <2> QED BY <2>1 DEF Told
<1> QED BY <1>2, <1>3 DEF PhoneInv, Told

\* The rest of the invariant, of a step that writes no rows.
LEMMA StepFits ==
  ASSUME PhoneInv, NEW k \in Client, NEW j \in TaskRow, Delivery!Go(k, j),
         UNCHANGED <<policy, chosen, preset, app, device>>,
         shown' = [u \in Unit |-> shown'[u]], excepted' \in SUBSET Unit,
         j.step = "update" => j.targets \subseteq Delivery!UnitsOf(OwnerOf[j.who]),
         j.step = "push" => \A t \in j.todo : t[2] <= device[t[1]].token
  PROVE  PhoneTypes' /\ OwnersFit' /\ TokensFit'
<1>1. /\ task' \in [Client -> TaskRow] /\ task'[k] = j
      /\ \A d \in Client \ {k} : task'[d] = task[d]
  BY TaskMoves
<1>2. PhoneTypes'
  BY <1>1 DEF PhoneInv, PhoneTypes
<1>3. OwnersFit' /\ TokensFit'
  BY <1>1 DEF PhoneInv, OwnersFit, TokensFit
<1> QED BY <1>2, <1>3

\* The whole of it, of a request that begins and tells nobody.
LEMMA Begins ==
  ASSUME PhoneInv, NEW k \in Client, task[k].step = "idle", NEW j \in TaskRow,
         Delivery!Go(k, j), UNCHANGED <<policy, chosen, preset, app, device, shown, excepted>>,
         j.step = "update" => j.targets \subseteq Delivery!UnitsOf(OwnerOf[j.who]),
         j.step = "push" => j.todo = {}
  PROVE  PhoneInv'
<1>1. PhoneTypes' /\ OwnersFit' /\ TokensFit'
  BY StepFits DEF PhoneInv, PhoneTypes
<1>2. ASSUME NEW u \in Unit PROVE Told(u)'
  <2>1. ~ Tells(k, u)
    BY DEF Tells
  <2> QED BY <2>1, TaskMoves, StepTold
<1> QED BY <1>1, <1>2 DEF PhoneInv

-----------------------------------------------------------------------------
(* Requests that begin. *)

LEMMA UpdateReads ==
  ASSUME PhoneInv, NEW k \in Client, NEW p \in Policy, NEW w \in Wants,
         Delivery!UpdateRead(k, p, w)
  PROVE  PhoneInv'
<1> DEFINE j == [step |-> "update", who |-> p, want |-> w, seen |-> policy[p],
                 targets |-> IF OwnerOf[p] \in Unit THEN {}
                             ELSE IF w.targets = {} THEN Unit ELSE w.targets,
                 draft |-> IF w.draft = Keep THEN policy[p].draft ELSE w.draft]
<1>1. policy[p] \in PolicyRow /\ w.targets \in SUBSET Unit /\ w.draft \in BOOLEAN \cup {Keep}
  BY DeliveryConstants DEF PhoneInv, PhoneTypes
<1>2. j \in UpdateTask
  BY <1>1 DEF UpdateTask, PolicyRow
<1>3. j.targets \subseteq Delivery!UnitsOf(OwnerOf[p])
  BY <1>1, DeliveryConstants DEF Delivery!UnitsOf, Delivery!Place
<1>4. /\ task[k].step = "idle" /\ Delivery!Go(k, j)
      /\ UNCHANGED <<policy, chosen, preset, app, device, shown, excepted>>
  BY DEF Delivery!UpdateRead, Delivery!Begin, Delivery!rows
<1>5. j \in TaskRow /\ j.step = "update" /\ j.who = p
  BY <1>2 DEF TaskRow
<1> HIDE DEF j
<1> QED BY <1>3, <1>4, <1>5, Begins

LEMMA SwitchReads ==
  ASSUME PhoneInv, NEW k \in Client, NEW ps \in SUBSET Policy, NEW on \in BOOLEAN,
         Delivery!SwitchRead(k, ps, on)
  PROVE  PhoneInv'
<1> DEFINE j == [step |-> "switch", who |-> ps, on |-> on, found |-> policy]
<1>1. j \in TaskRow /\ j.step = "switch"
  BY DEF PhoneInv, PhoneTypes, TaskRow, SwitchTask
<1>2. /\ task[k].step = "idle" /\ Delivery!Go(k, j)
      /\ UNCHANGED <<policy, chosen, preset, app, device, shown, excepted>>
  BY DEF Delivery!SwitchRead, Delivery!Begin, Delivery!rows
<1> HIDE DEF j
<1> QED BY <1>1, <1>2, Begins

LEMMA RemoveReads ==
  ASSUME PhoneInv, NEW k \in Client, NEW ps \in SUBSET Policy, Delivery!RemoveRead(k, ps)
  PROVE  PhoneInv'
<1> DEFINE j == [step |-> "remove", who |-> ps, found |-> policy]
<1>1. j \in TaskRow /\ j.step = "remove"
  BY DEF PhoneInv, PhoneTypes, TaskRow, RemoveTask
<1>2. /\ task[k].step = "idle" /\ Delivery!Go(k, j)
      /\ UNCHANGED <<policy, chosen, preset, app, device, shown, excepted>>
  BY DEF Delivery!RemoveRead, Delivery!Begin, Delivery!rows
<1> HIDE DEF j
<1> QED BY <1>1, <1>2, Begins

LEMMA Forces ==
  ASSUME PhoneInv, NEW k \in Client, NEW ps \in SUBSET Policy, NEW all \in BOOLEAN,
         Delivery!Force(k, ps, all)
  PROVE  PhoneInv'
<1> DEFINE found == {p \in ps : ~ policy[p].gone /\ (all \/ policy[p].active)}
           j == Delivery!Pushing(Delivery!Own(found))
<1>1. found \in SUBSET Policy
  OBVIOUS
<1>2. /\ task[k].step = "idle" /\ Delivery!Go(k, j)
      /\ UNCHANGED <<policy, chosen, preset, app, device, shown, excepted>>
  BY DEF Delivery!Force, Delivery!Begin, Delivery!rows
<1> HIDE DEF found
<1>3. j \in TaskRow /\ j.step \in {"idle", "push"} /\ (j.step = "push" => j.todo = {})
  BY <1>1, OwnPairs, PushingTask
<1> HIDE DEF j
<1> QED BY <1>2, <1>3, Begins

LEMMA SelectReads ==
  ASSUME PhoneInv, NEW k \in Client, NEW o \in Delivery!Place,
         NEW x \in Policy \cup {NoPolicy, Keep}, Delivery!SelectRead(k, o, x)
  PROVE  PhoneInv'
<1> DEFINE j == [step |-> "select", who |-> o, seen |-> chosen[o],
                 next |-> IF x = Keep THEN chosen[o] ELSE x]
<1>1. j \in TaskRow /\ j.step = "select"
  BY DEF PhoneInv, PhoneTypes, TaskRow, SelectTask
<1>2. /\ task[k].step = "idle" /\ Delivery!Go(k, j)
      /\ UNCHANGED <<policy, chosen, preset, app, device, shown, excepted>>
  BY DEF Delivery!SelectRead, Delivery!Begin, Delivery!rows
<1> HIDE DEF j
<1> QED BY <1>1, <1>2, Begins

LEMMA ItemsReads ==
  ASSUME PhoneInv, NEW k \in Client, NEW items \in SUBSET PhoneApp, NEW how \in ItemStep,
         Delivery!ItemsRead(k, items, how)
  PROVE  PhoneInv'
<1> DEFINE j == [step |-> how, items |-> items]
<1>1. j \in TaskRow /\ j.step \in ItemStep
  BY DEF TaskRow, ItemsTask
<1>2. /\ task[k].step = "idle" /\ Delivery!Go(k, j)
      /\ UNCHANGED <<policy, chosen, preset, app, device, shown, excepted>>
  BY DEF Delivery!ItemsRead, Delivery!Begin, Delivery!rows
<1> HIDE DEF j
<1> QED BY <1>1, <1>2, Begins DEF ItemStep

LEMMA DropReads ==
  ASSUME PhoneInv, NEW k \in Client, Delivery!DropRead(k) PROVE PhoneInv'
<1> DEFINE j == [step |-> "drop", who |-> Delivery!Users]
<1>1. j \in TaskRow /\ j.step = "drop"
  BY DEF TaskRow, DropTask, Delivery!Users
<1>2. /\ task[k].step = "idle" /\ Delivery!Go(k, j)
      /\ UNCHANGED <<policy, chosen, preset, app, device, shown, excepted>>
  BY DEF Delivery!DropRead, Delivery!Begin, Delivery!rows
<1> HIDE DEF j
<1> QED BY <1>1, <1>2, Begins

LEMMA AppReads ==
  ASSUME PhoneInv, NEW k \in Client, NEW a \in PhoneApp, NEW value \in BOOLEAN,
         Delivery!UpdateApp(k, a, value)
  PROVE  PhoneInv'
<1> DEFINE j == [step |-> "app", who |-> a, next |-> value]
<1>1. j \in TaskRow /\ j.step = "app"
  BY DEF TaskRow, AppWriteTask
<1>2. /\ task[k].step = "idle" /\ Delivery!Go(k, j)
      /\ UNCHANGED <<policy, chosen, preset, app, device, shown, excepted>>
  BY DEF Delivery!UpdateApp, Delivery!Begin, Delivery!rows
<1> HIDE DEF j
<1> QED BY <1>1, <1>2, Begins

LEMMA ToggleReads ==
  ASSUME PhoneInv, NEW k \in Client, NEW a \in PhoneApp, Delivery!ToggleGlobal(k, a)
  PROVE  PhoneInv'
<1>1. (~ app[a]) \in BOOLEAN
  OBVIOUS
<1> QED BY <1>1, AppReads DEF Delivery!ToggleGlobal

-----------------------------------------------------------------------------
(* Requests that look up whom to tell. *)

LEMMA UpdateTells ==
  ASSUME PhoneInv, NEW k \in Client, Delivery!UpdateTell(k) PROVE PhoneInv'
<1>1. task[k].step = "updated" /\ task[k] \in UpdatedTask
  BY TaskTypes DEF Delivery!UpdateTell
<1> DEFINE p == task[k].who
           next == Delivery!DispatchTargets(policy[p], p)
           previous == Delivery!DispatchTargets(task[k].seen, p)
           due == IF policy[p].draft THEN {}
                  ELSE IF policy[p].active THEN {<<p, next>>, <<p, previous \ next>>}
                  ELSE {<<p, next \cup previous>>}
           push == {d \in due : d[2] # {}}
           j == Delivery!Pushing(push)
<1>2. p \in Policy /\ policy[p] \in PolicyRow /\ task[k].seen \in PolicyRow
  BY <1>1 DEF UpdatedTask, PhoneInv, PhoneTypes
<1>3. next \in SUBSET Unit /\ previous \in SUBSET Unit
  BY <1>2, DeliveryConstants
     DEF PolicyRow, Delivery!DispatchTargets, Delivery!UnitsOf, Delivery!Place
<1>4. /\ Delivery!Go(k, j) /\ UNCHANGED <<policy, chosen, preset, app, device, shown>>
      /\ excepted' = IF policy[p].draft THEN excepted \cup next \cup previous ELSE excepted
  BY DEF Delivery!UpdateTell, Delivery!rows
<1>5. \A u \in Unit : Tells(k, u) => device[u].working /\ (u \in next \/ u \in previous)
  BY <1>1 DEF Tells, Has
<1> HIDE DEF p, next, previous
<1>6. push \in SUBSET (Policy \X SUBSET Unit)
  BY <1>2, <1>3
<1>7. \A u \in next \cup previous : ~ policy[p].draft => \E to \in SUBSET Unit :
          <<p, to>> \in push /\ u \in to
  BY <1>3
<1> HIDE DEF due, push
<1>8. /\ j \in TaskRow /\ j.step \in {"idle", "push"} /\ (j.step = "push" => j.todo = {})
      /\ push # {} => j.step = "push" /\ j.due = push
  BY <1>6, PushingTask
<1> HIDE DEF j
<1>9. /\ task'[k] = j /\ \A d \in Client \ {k} : task'[d] = task[d]
      /\ excepted' \in SUBSET Unit /\ excepted \subseteq excepted'
  BY <1>3, <1>4, <1>8, TaskMoves DEF PhoneInv, PhoneTypes
<1>10. PhoneTypes' /\ OwnersFit' /\ TokensFit'
  BY <1>4, <1>8, <1>9, StepFits DEF PhoneInv, PhoneTypes
<1>11. ASSUME NEW u \in Unit PROVE Told(u)'
  <2>1. ASSUME Tells(k, u) PROVE Told(u)'
    <3>1. CASE policy[p].draft
      BY <1>4, <1>5, <2>1, <3>1 DEF Told, Fresh
    <3>2. CASE ~ policy[p].draft
      <4>1. PICK to \in SUBSET Unit : <<p, to>> \in push /\ u \in to
        BY <1>5, <1>7, <2>1, <3>2
      <4>2. task'[k].step = "push" /\ task'[k].due = push
        BY <1>8, <1>9, <4>1
      <4>3. Tells(k, u)'
        BY <1>2, <1>4, <1>5, <2>1, <4>1, <4>2 DEF Tells
      <4> QED BY <4>3 DEF Told
    <3> QED BY <3>1, <3>2
  <2> QED BY <1>4, <1>9, <2>1, StepTold
<1> QED BY <1>10, <1>11 DEF PhoneInv

LEMMA UsersTell ==
  ASSUME PhoneInv, NEW k \in Client, Delivery!TellUsers(k) \/ Delivery!TellUsersOfApp(k)
  PROVE  PhoneInv'
<1>1. PICK ps \in SUBSET Policy :
         /\ Delivery!Go(k, Delivery!Pushing(Delivery!Own(ps)))
         /\ UNCHANGED <<policy, chosen, preset, app, device, shown, excepted>>
         /\ \A u \in Unit : Tells(k, u) =>
               \E p \in ps : Uses(p, u) /\ Has(p, u)
  <2>1. Delivery!Users \in SUBSET Policy /\ {} \in SUBSET Policy
        /\ \A p \in Policy : \A u : Uses(p, u) => p \in Delivery!Users
    BY DEF Delivery!Users, Uses
  <2>2. CASE Delivery!TellUsers(k)
    <3>1. \A u \in Unit : Tells(k, u) => \E p \in Delivery!Users : Uses(p, u) /\ Has(p, u)
      BY <2>1, <2>2 DEF Tells, Delivery!TellUsers
    <3> QED BY <2>1, <2>2, <3>1 DEF Delivery!TellUsers, Delivery!rows
  <2>3. CASE Delivery!TellUsersOfApp(k)
    <3>1. CASE task[k].who \in preset.items
      <4>1. \A u \in Unit : Tells(k, u) => \E p \in Delivery!Users : Uses(p, u) /\ Has(p, u)
        BY <2>1, <2>3 DEF Tells, Delivery!TellUsersOfApp
      <4> QED BY <2>1, <2>3, <3>1, <4>1 DEF Delivery!TellUsersOfApp, Delivery!rows
    <3>2. CASE task[k].who \notin preset.items
      <4>1. \A u \in Unit : ~ Tells(k, u)
        BY <2>3, <3>2 DEF Tells, Delivery!TellUsersOfApp
      <4> QED BY <2>1, <2>3, <3>2, <4>1 DEF Delivery!TellUsersOfApp, Delivery!rows
    <3> QED BY <3>1, <3>2
  <2> QED BY <2>2, <2>3
<1> DEFINE j == Delivery!Pushing(Delivery!Own(ps))
<1>2. j \in TaskRow /\ j.step \in {"idle", "push"} /\ (j.step = "push" => j.todo = {})
  BY OwnPairs, PushingTask
<1>3. Delivery!Go(k, j)
  BY <1>1
<1>4. task'[k] = Delivery!Pushing(Delivery!Own(ps))
      /\ \A d \in Client \ {k} : task'[d] = task[d]
  BY <1>2, <1>3, TaskMoves
<1> HIDE DEF j
<1>5. PhoneTypes' /\ OwnersFit' /\ TokensFit'
  BY <1>1, <1>2, <1>3, StepFits DEF PhoneInv, PhoneTypes
<1>6. ASSUME NEW u \in Unit PROVE Told(u)'
  <2>1. ASSUME Tells(k, u) PROVE Told(u)'
    <3>1. PICK p \in ps : Uses(p, u) /\ Has(p, u)
      BY <1>1, <2>1
    <3>2. Has(p, u)' /\ device'[u].working
      BY <1>1, <3>1, OfPolicies DEF Has, Uses
    <3>3. Tells(k, u)'
      BY <1>4, <3>2, OwnTells
    <3> QED BY <3>3 DEF Told
  <2> QED BY <1>1, <1>4, <2>1, StepTold
<1> QED BY <1>5, <1>6 DEF PhoneInv

-----------------------------------------------------------------------------
(* Requests that write rows. *)

\* The types and what relates rows, of a write that leaves devices alone.
LEMMA WriteFits ==
  ASSUME PhoneInv, NEW k \in Client, NEW j \in TaskRow, Delivery!Go(k, j),
         policy' \in [Policy -> PolicyRow],
         \A p \in Policy : policy'[p].targets \subseteq Delivery!UnitsOf(OwnerOf[p]),
         chosen' \in [Delivery!Place -> Policy \cup {NoPolicy}],
         \A o \in Delivery!Place :
            chosen'[o] # NoPolicy => OwnerOf[chosen'[o]] \in Delivery!Chain(o),
         preset' \in [gone : BOOLEAN, items : SUBSET PhoneApp],
         app' \in [PhoneApp -> BOOLEAN],
         UNCHANGED <<device, shown>>, excepted' \in SUBSET Unit,
         j.step # "update", j.step = "push" => j.todo = {}
  PROVE  PhoneTypes' /\ OwnersFit' /\ TokensFit'
<1>1. /\ task' \in [Client -> TaskRow] /\ task'[k] = j
      /\ \A d \in Client \ {k} : task'[d] = task[d]
  BY TaskMoves
<1>2. PhoneTypes'
  BY <1>1 DEF PhoneInv, PhoneTypes
<1>3. OwnersFit' /\ TokensFit'
  BY <1>1 DEF PhoneInv, OwnersFit, TokensFit
<1> QED BY <1>2, <1>3

\* A unit that no limit of a write to policies leaves out, and that changes, is among the
\* targets of one that applies before or after, and that nobody else wrote.
LEMMA LimitsLeave ==
  ASSUME NEW ps \in SUBSET Policy, NEW seen, NEW u \in Unit,
         u \notin Delivery!Limits(ps, seen)
  PROVE  /\ \A p \in ps : policy[p] # seen[p] =>
              Delivery!Applied(u)' = Delivery!Applied(u) /\ ~ Has(p, u)
         /\ Delivery!Applied(u)' # Delivery!Applied(u) =>
              \A p \in ps : p \in Delivery!Of(u) \cup Delivery!Of(u)' => Has(p, u) \/ Has(p, u)'
BY DEF Delivery!Limits, Delivery!Changed, Has

\* Rows written to policies that neither tell the unit nor change what applies to it.
LEMMA Unconcerned ==
  ASSUME NEW u \in Unit, Delivery!Applied(u)' = Delivery!Applied(u), UNCHANGED preset,
         \A p \in Policy : Has(p, u) =>
            Has(p, u)' /\ (policy[p].link /\ p \in Delivery!Of(u) => policy'[p].link)
  PROVE  /\ Delivery!Applied(u)' = Delivery!Applied(u)
         /\ device[u].working => \A p \in Policy : Has(p, u) => Has(p, u)'
         /\ \A p \in Policy : Uses(p, u) /\ Has(p, u) => Uses(p, u)' /\ Has(p, u)'
         /\ (\E p \in Policy : Uses(p, u) /\ Has(p, u)) => preset.items \subseteq preset'.items
<1>1. Delivery!Of(u)' = Delivery!Of(u)
  BY DEF Delivery!Of
<1> QED BY <1>1 DEF Uses

\* A user who is not working is not concerned by any write.
LEMMA NotWorking ==
  ASSUME NEW u \in Unit, ~ device[u].working, ~ device'[u].working
  PROVE  /\ Delivery!Applied(u)' = Delivery!Applied(u)
         /\ device[u].working => \A p \in Policy : Has(p, u) => Has(p, u)'
         /\ \A p \in Policy : Uses(p, u) /\ Has(p, u) => Uses(p, u)' /\ Has(p, u)'
         /\ (\E p \in Policy : Uses(p, u) /\ Has(p, u)) => preset.items \subseteq preset'.items
<1>1. Delivery!Applied(u) = {} /\ Delivery!Applied(u)' = {} /\ Delivery!Of(u) = {}
  BY OfPolicies DEF Delivery!Applied
<1> QED BY <1>1 DEF Uses

LEMMA UpdateWrites ==
  ASSUME PhoneInv, NEW k \in Client, Delivery!UpdateWrite(k) PROVE PhoneInv'
<1>1. task[k].step = "update" /\ task[k] \in UpdateTask
  BY TaskTypes DEF Delivery!UpdateWrite
<1>2. PICK p \in Policy : p = task[k].who
  BY <1>1 DEF UpdateTask
<1> DEFINE j == task[k]
           next == [step |-> "updated", who |-> p, seen |-> j.seen]
<1>3. /\ j.seen \in PolicyRow /\ j.targets \in SUBSET Unit /\ j.draft \in BOOLEAN
      /\ j.want \in Wants /\ policy[p] \in PolicyRow
      /\ j.targets \subseteq Delivery!UnitsOf(OwnerOf[p])
  BY <1>1, <1>2 DEF UpdateTask, PhoneInv, PhoneTypes, OwnersFit
<1>4. /\ j.want.active \in BOOLEAN \cup {Keep} /\ j.want.rules \in Nat
      /\ j.want.link \in BOOLEAN \cup {Keep}
  BY SMTT(30), <1>3, DeliveryConstants
<1>5. /\ policy' = [policy EXCEPT
            ![p].targets = j.targets,
            ![p].draft = j.draft,
            ![p].active = IF j.draft THEN FALSE
                          ELSE IF j.want.active = Keep THEN @ ELSE j.want.active,
            ![p].rules = j.want.rules,
            ![p].link = IF j.want.link = Keep THEN @ ELSE j.want.link]
      /\ Delivery!Go(k, next)
      /\ UNCHANGED <<chosen, preset, app, device, shown>>
      /\ excepted' = excepted \cup Delivery!Limits({p}, [q \in {p} |-> j.seen])
  BY <1>2 DEF Delivery!UpdateWrite
<1>6. /\ policy'[p] \in PolicyRow /\ policy'[p].targets = j.targets
      /\ policy' = [policy EXCEPT ![p] = policy'[p]]
  BY Zenon, <1>3, <1>4, <1>5 DEF PhoneInv, PhoneTypes, PolicyRow
<1>7. \A q \in Policy \ {p} : policy'[q] = policy[q]
  BY <1>6 DEF PhoneInv, PhoneTypes
<1>8. next \in TaskRow /\ next.step = "updated" /\ next.who = p /\ next.seen = j.seen
  BY <1>3 DEF TaskRow, UpdatedTask
<1> HIDE DEF next
<1>9. excepted' \in SUBSET Unit /\ excepted \subseteq excepted'
  BY <1>5 DEF PhoneInv, PhoneTypes, Delivery!Limits
<1>10. PhoneTypes' /\ OwnersFit' /\ TokensFit'
  <2>1. policy' \in [Policy -> PolicyRow]
    BY <1>6 DEF PhoneInv, PhoneTypes
  <2>2. \A q \in Policy : policy'[q].targets \subseteq Delivery!UnitsOf(OwnerOf[q])
    BY <1>3, <1>6, <1>7 DEF PhoneInv, OwnersFit
  <2> QED BY Zenon, <1>5, <1>8, <1>9, <2>1, <2>2, WriteFits DEF PhoneInv, PhoneTypes, OwnersFit
<1>11. task'[k] = next /\ \A d \in Client \ {k} : task'[d] = task[d]
  BY <1>5, <1>8, TaskMoves
<1>12. ASSUME NEW u \in Unit PROVE Told(u)'
  <2>1. ASSUME u \notin excepted', ~ Tells(k, u)'
        PROVE  /\ Delivery!Applied(u)' = Delivery!Applied(u)
               /\ device[u].working => \A q \in Policy : Has(q, u) => Has(q, u)'
               /\ \A q \in Policy : Uses(q, u) /\ Has(q, u) => Uses(q, u)' /\ Has(q, u)'
               /\ (\E q \in Policy : Uses(q, u) /\ Has(q, u)) =>
                     preset.items \subseteq preset'.items
    <3>1. CASE ~ device[u].working
      BY SMTT(30), <1>5, <3>1, NotWorking
    <3>2. CASE device[u].working
      <4>1. /\ policy[p] # j.seen =>
                 Delivery!Applied(u)' = Delivery!Applied(u) /\ ~ Has(p, u)
            /\ Delivery!Applied(u)' # Delivery!Applied(u) =>
                 (p \in Delivery!Of(u) \cup Delivery!Of(u)' => Has(p, u) \/ Has(p, u)')
        <5>1. u \notin Delivery!Limits({p}, [q \in {p} |-> j.seen])
          BY <1>5, <2>1
        <5> QED BY <5>1, LimitsLeave
      <4>2. ~ Has(p, u)' /\ u \notin Delivery!DispatchTargets(j.seen, p)
        BY <1>5, <1>8, <1>11, <2>1, <3>2 DEF Tells
      <4>3. ~ Has(p, u)
        BY Zenon, <4>1, <4>2 DEF Has
      <4>4. Delivery!Applied(u)' = Delivery!Applied(u)
        <5>1. SUFFICES ASSUME Delivery!Applied(u)' # Delivery!Applied(u) PROVE FALSE
          OBVIOUS
        <5>2. {p} \cap Delivery!Of(u) = {} /\ {p} \cap Delivery!Of(u)' = {}
          BY <4>1, <4>2, <4>3, <5>1
        <5> QED BY <1>5, <1>7, <5>1, <5>2, OthersMatterNot
      <4>5. \A q \in Policy : Has(q, u) =>
               Has(q, u)' /\ (policy[q].link /\ q \in Delivery!Of(u) => policy'[q].link)
        BY <1>7, <4>3 DEF Has
      <4> QED BY <1>5, <4>4, <4>5, Unconcerned
    <3> QED BY <3>1, <3>2
  <2>2. task[k].step \notin TellStep
    BY <1>1 DEF TellStep
  <2> QED BY <1>5, <1>9, <1>11, <2>1, <2>2, WriteTold
<1> QED BY Zenon, <1>10, <1>12 DEF PhoneInv

\* A write to policies after which their targets will be told.
LEMMA TargetsTold ==
  ASSUME PhoneInv, NEW k \in Client, NEW ps \in SUBSET Policy,
         task[k].step \notin TellStep,
         Delivery!Go(k, Delivery!Pushing(Delivery!Own(ps))),
         UNCHANGED <<preset, device, shown>>, excepted \subseteq excepted',
         \A p \in Policy : policy'[p].targets = policy[p].targets,
         NEW u \in Unit,
         device[u].working /\ u \notin excepted' /\ (\A p \in ps : ~ Has(p, u)) =>
            /\ Delivery!Applied(u)' = Delivery!Applied(u)
            /\ \A p \in Delivery!Of(u) : Has(p, u) /\ policy[p].link => policy'[p].link
  PROVE  Told(u)'
<1> DEFINE j == Delivery!Pushing(Delivery!Own(ps))
<1>1. j \in TaskRow
  BY OwnPairs, PushingTask
<1>2. Delivery!Go(k, j)
  OBVIOUS
<1>3. task'[k] = Delivery!Pushing(Delivery!Own(ps))
      /\ \A d \in Client \ {k} : task'[d] = task[d]
  BY <1>1, <1>2, TaskMoves
<1>4. \A p \in Policy : Has(p, u)' <=> Has(p, u)
  BY DEF Has, Delivery!DispatchTargets
<1>5. ASSUME u \notin excepted', ~ Tells(k, u)'
      PROVE  /\ Delivery!Applied(u)' = Delivery!Applied(u)
             /\ device[u].working => \A q \in Policy : Has(q, u) => Has(q, u)'
             /\ \A q \in Policy : Uses(q, u) /\ Has(q, u) => Uses(q, u)' /\ Has(q, u)'
             /\ (\E q \in Policy : Uses(q, u) /\ Has(q, u)) =>
                   preset.items \subseteq preset'.items
  <2>1. CASE ~ device[u].working
    BY <2>1, NotWorking
  <2>2. CASE device[u].working
    <3>1. \A p \in ps : ~ Has(p, u)
      BY <1>3, <1>4, <1>5, <2>2, OwnTells
    <3>2. /\ Delivery!Applied(u)' = Delivery!Applied(u)
          /\ \A p \in Delivery!Of(u) : Has(p, u) /\ policy[p].link => policy'[p].link
      BY <1>5, <2>2, <3>1
    <3>3. \A q \in Policy : Has(q, u) =>
             Has(q, u)' /\ (policy[q].link /\ q \in Delivery!Of(u) => policy'[q].link)
      BY <1>4, <3>2
    <3> QED BY <3>2, <3>3, Unconcerned
  <2> QED BY <2>1, <2>2
<1> QED BY <1>3, <1>5, WriteTold

\* The types of such a write.
LEMMA TargetsFit ==
  ASSUME PhoneInv, NEW k \in Client, NEW ps \in SUBSET Policy,
         Delivery!Go(k, Delivery!Pushing(Delivery!Own(ps))),
         policy' \in [Policy -> PolicyRow],
         \A p \in Policy : policy'[p].targets = policy[p].targets,
         preset' \in [gone : BOOLEAN, items : SUBSET PhoneApp],
         UNCHANGED <<chosen, app, device, shown>>, excepted' \in SUBSET Unit
  PROVE  PhoneTypes' /\ OwnersFit' /\ TokensFit'
<1> DEFINE j == Delivery!Pushing(Delivery!Own(ps))
<1>1. j \in TaskRow /\ j.step # "update" /\ (j.step = "push" => j.todo = {})
  <2>1. /\ j \in TaskRow
        /\ Delivery!Own(ps) = {} => j.step = "idle"
        /\ Delivery!Own(ps) # {} => j.step = "push" /\ j.todo = {}
    BY OwnPairs, PushingTask
  <2> QED BY <2>1
<1>2. Delivery!Go(k, j)
  OBVIOUS
<1> HIDE DEF j
<1>3. \A p \in Policy : policy'[p].targets \subseteq Delivery!UnitsOf(OwnerOf[p])
  BY DEF PhoneInv, OwnersFit
<1> QED BY <1>1, <1>2, <1>3, WriteFits DEF PhoneInv, PhoneTypes, OwnersFit

LEMMA SwitchWrites ==
  ASSUME PhoneInv, NEW k \in Client, Delivery!SwitchWrite(k) PROVE PhoneInv'
<1>1. task[k].step = "switch" /\ task[k] \in SwitchTask
  BY TaskTypes DEF Delivery!SwitchWrite
<1>2. PICK ps \in SUBSET Policy : ps = task[k].who
  BY <1>1 DEF SwitchTask
<1>3. PICK on \in BOOLEAN : on = task[k].on
  BY <1>1 DEF SwitchTask
<1>4. /\ policy' = [p \in Policy |-> IF p \in ps /\ ~ policy[p].gone
                                     THEN [policy[p] EXCEPT !.active = on] ELSE policy[p]]
      /\ Delivery!Go(k, Delivery!Pushing(Delivery!Own(ps)))
      /\ UNCHANGED <<chosen, preset, app, device, shown>>
      /\ excepted' = excepted \cup Delivery!Limits(ps, task[k].found)
  BY <1>2, <1>3 DEF Delivery!SwitchWrite
<1>5. /\ policy' \in [Policy -> PolicyRow]
      /\ \A p \in Policy : /\ policy'[p].targets = policy[p].targets
                           /\ policy'[p].link = policy[p].link
      /\ \A p \in Policy \ ps : policy'[p] = policy[p]
  BY SMTT(30), <1>4 DEF PhoneInv, PhoneTypes, PolicyRow
<1>6. excepted' \in SUBSET Unit /\ excepted \subseteq excepted'
  BY <1>4 DEF PhoneInv, PhoneTypes, Delivery!Limits
<1>7. PhoneTypes' /\ OwnersFit' /\ TokensFit'
  BY <1>4, <1>5, <1>6, TargetsFit DEF PhoneInv, PhoneTypes
<1>8. ASSUME NEW u \in Unit PROVE Told(u)'
  <2>1. ASSUME device[u].working, u \notin excepted', \A p \in ps : ~ Has(p, u)
        PROVE  /\ Delivery!Applied(u)' = Delivery!Applied(u)
               /\ \A p \in Delivery!Of(u) : Has(p, u) /\ policy[p].link => policy'[p].link
    <3>1. u \notin Delivery!Limits(ps, task[k].found)
      BY <1>4, <2>1
    <3>2. \A p \in ps : ~ Has(p, u)'
      BY <1>5, <2>1 DEF Has, Delivery!DispatchTargets
    <3>3. Delivery!Applied(u)' # Delivery!Applied(u) =>
             ps \cap Delivery!Of(u) = {} /\ ps \cap Delivery!Of(u)' = {}
      BY Zenon, <2>1, <3>1, <3>2, LimitsLeave
    <3>4. Delivery!Applied(u)' = Delivery!Applied(u)
      BY <1>4, <1>5, <3>3, OthersMatterNot
    <3> QED BY <1>5, <3>4, OfPolicies
  <2>2. task[k].step \notin TellStep
    BY <1>1 DEF TellStep
  <2> QED BY <1>4, <1>5, <1>6, <2>1, <2>2, TargetsTold
<1> QED BY <1>7, <1>8 DEF PhoneInv

\* What was removed applies nowhere.
LEMMA GoneApplies ==
  ASSUME NEW u \in Unit, NEW p \in Policy, policy'[p].gone PROVE p \notin Delivery!Of(u)'
<1>1. p \notin Winners(u)'
  BY DEF Winners, Level, Delivery!Explicit
<1> QED BY <1>1, OfWinnersNext

LEMMA RemoveWrites ==
  ASSUME PhoneInv, NEW k \in Client, Delivery!RemoveWrite(k) PROVE PhoneInv'
<1>1. task[k].step = "remove" /\ task[k] \in RemoveTask
  BY Zenon, TaskTypes DEF Delivery!RemoveWrite
<1>2. PICK ps \in SUBSET Policy : ps = task[k].who
  BY <1>1 DEF RemoveTask
<1>3. PICK drafts \in SUBSET ps : drafts = {p \in ps : task[k].found[p].draft}
  OBVIOUS
<1>4. /\ policy' = [p \in Policy |->
            IF p \in ps THEN [policy[p] EXCEPT !.gone = TRUE, !.active = FALSE, !.link = FALSE]
            ELSE policy[p]]
      /\ Delivery!Go(k, Delivery!Pushing(Delivery!Own(ps \ drafts)))
      /\ UNCHANGED <<chosen, preset, app, device, shown>>
      /\ excepted' = excepted \cup Delivery!Limits(ps, task[k].found)
                       \cup Delivery!Having(drafts)
  BY Zenon, <1>2, <1>3 DEF Delivery!RemoveWrite
<1>5. /\ policy' \in [Policy -> PolicyRow]
      /\ \A p \in Policy : policy'[p].targets = policy[p].targets
      /\ \A p \in Policy \ ps : policy'[p] = policy[p]
      /\ \A p \in ps : policy'[p].gone
  BY Zenon, <1>4 DEF PhoneInv, PhoneTypes, PolicyRow
<1>6. excepted' \in SUBSET Unit /\ excepted \subseteq excepted'
  BY Zenon, <1>4 DEF PhoneInv, PhoneTypes, Delivery!Limits, Delivery!Having
<1>7. PhoneTypes' /\ OwnersFit' /\ TokensFit'
  <2>1. ps \ drafts \in SUBSET Policy
    OBVIOUS
  <2> QED BY Zenon, <1>4, <1>5, <1>6, <2>1, TargetsFit DEF PhoneInv, PhoneTypes
<1>8. ASSUME NEW u \in Unit PROVE Told(u)'
  <2>1. ASSUME device[u].working, u \notin excepted', \A p \in ps \ drafts : ~ Has(p, u)
        PROVE  /\ Delivery!Applied(u)' = Delivery!Applied(u)
               /\ \A p \in Delivery!Of(u) : Has(p, u) /\ policy[p].link => policy'[p].link
    <3>1. u \notin Delivery!Limits(ps, task[k].found) /\ drafts \cap Delivery!Of(u) = {}
      BY Zenon, <1>4, <2>1 DEF Delivery!Having
    <3>2. \A p \in ps \ drafts : ~ Has(p, u)'
      BY <1>5, <2>1 DEF Has, Delivery!DispatchTargets
    <3>3. ps \cap Delivery!Of(u)' = {}
      BY <1>5, GoneApplies
    <3>4. Delivery!Applied(u)' # Delivery!Applied(u) => ps \cap Delivery!Of(u) = {}
      BY SMTT(30), <2>1, <3>1, <3>2, LimitsLeave
    <3>5. Delivery!Applied(u)' = Delivery!Applied(u)
      BY Zenon, <1>4, <1>5, <3>3, <3>4, OthersMatterNot
    <3>6. \A p \in Delivery!Of(u) : Has(p, u) => p \notin ps
      BY <2>1, <3>1
    <3> QED BY <1>5, <3>5, <3>6, OfPolicies
  <2>2. task[k].step \notin TellStep
    BY <1>1 DEF TellStep
  <2>3. ps \ drafts \in SUBSET Policy
    OBVIOUS
  <2> QED BY Zenon, <1>4, <1>5, <1>6, <2>1, <2>2, <2>3, TargetsTold
<1> QED BY <1>7, <1>8 DEF PhoneInv

\* A write that changes which policies use the preset, not which of them apply.
LEMMA LinksMatterNot ==
  ASSUME NEW u \in Unit, UNCHANGED chosen, device'[u].working = device[u].working,
         \A p \in Policy : /\ policy'[p].gone = policy[p].gone
                           /\ policy'[p].draft = policy[p].draft
                           /\ policy'[p].active = policy[p].active
                           /\ policy'[p].targets = policy[p].targets
  PROVE  Delivery!Of(u)' = Delivery!Of(u)
<1>1. Delivery!Explicit(u)' = Delivery!Explicit(u)
  BY DEF Delivery!Explicit
<1>2. \A o : Level(o, u)' = Level(o, u)
  BY DEF Level
<1>3. Winners(u)' = Winners(u)
  BY <1>1, <1>2 DEF Winners
<1> QED BY <1>3, OfWinners, OfWinnersNext

LEMMA Assigns ==
  ASSUME PhoneInv, NEW k \in Client, NEW p \in Policy, NEW link \in BOOLEAN,
         Delivery!Assign(k, p, link)
  PROVE  PhoneInv'
<1>1. /\ task[k].step = "idle" /\ policy' = [policy EXCEPT ![p].link = link]
      /\ UNCHANGED <<chosen, preset, app, device, shown, task>>
      /\ excepted' = excepted \cup Delivery!Having({p})
  BY DEF Delivery!Assign, Delivery!Begin
<1>2. /\ policy' \in [Policy -> PolicyRow]
      /\ \A q \in Policy \ {p} : policy'[q] = policy[q]
      /\ \A q \in Policy : /\ policy'[q].gone = policy[q].gone
                           /\ policy'[q].draft = policy[q].draft
                           /\ policy'[q].active = policy[q].active
                           /\ policy'[q].targets = policy[q].targets
  BY <1>1 DEF PhoneInv, PhoneTypes, PolicyRow
<1>3. excepted' \in SUBSET Unit /\ excepted \subseteq excepted'
  BY <1>1 DEF PhoneInv, PhoneTypes, Delivery!Having
<1>4. PhoneTypes'
  BY <1>1, <1>2, <1>3 DEF PhoneInv, PhoneTypes
<1>5. OwnersFit' /\ TokensFit'
  BY <1>1, <1>2 DEF PhoneInv, OwnersFit, TokensFit
<1>6. ASSUME NEW u \in Unit PROVE Told(u)'
  <2>1. Delivery!Of(u)' = Delivery!Of(u)
    BY <1>1, <1>2, LinksMatterNot
  <2>2. \A q \in Policy : Has(q, u)' <=> Has(q, u)
    BY <1>2 DEF Has, Delivery!DispatchTargets
  <2>3. u \notin excepted' => {p} \cap Delivery!Of(u) = {}
    BY <1>1 DEF Delivery!Having
  <2>4. ASSUME u \notin excepted', ~ Tells(k, u)'
        PROVE  /\ Delivery!Applied(u)' = Delivery!Applied(u)
               /\ device[u].working => \A q \in Policy : Has(q, u) => Has(q, u)'
               /\ \A q \in Policy : Uses(q, u) /\ Has(q, u) => Uses(q, u)' /\ Has(q, u)'
               /\ (\E q \in Policy : Uses(q, u) /\ Has(q, u)) =>
                     preset.items \subseteq preset'.items
    <3>1. {p} \cap Delivery!Of(u) = {} /\ {p} \cap Delivery!Of(u)' = {}
      BY <2>1, <2>3, <2>4
    <3>2. Delivery!Applied(u)' = Delivery!Applied(u)
      BY <1>1, <1>2, <3>1, OthersMatterNot
    <3>3. \A q \in Policy : Has(q, u) =>
             Has(q, u)' /\ (policy[q].link /\ q \in Delivery!Of(u) => policy'[q].link)
      BY <1>2, <2>2, <3>1
    <3> QED BY <1>1, <3>2, <3>3, Unconcerned
  <2>5. task[k].step \notin TellStep
    BY <1>1 DEF TellStep
  <2> QED BY <1>1, <1>3, <2>4, <2>5, WriteTold
<1> QED BY <1>4, <1>5, <1>6 DEF PhoneInv

LEMMA SelectWrites ==
  ASSUME PhoneInv, NEW k \in Client, Delivery!SelectWrite(k) PROVE PhoneInv'
<1>1. task[k].step = "select" /\ task[k] \in SelectTask
  BY TaskTypes DEF Delivery!SelectWrite
<1>2. PICK o \in Delivery!Place : o = task[k].who
  BY <1>1 DEF SelectTask
<1>3. PICK next \in Policy \cup {NoPolicy}, seen \in Policy \cup {NoPolicy} :
         next = task[k].next /\ seen = task[k].seen
  BY <1>1 DEF SelectTask
<1>4. PICK valid \in BOOLEAN :
         valid <=> \/ next = NoPolicy
                   \/ /\ ~ policy[next].gone /\ ~ policy[next].draft
                      /\ OwnerOf[next] \in Delivery!Chain(o)
  OBVIOUS
<1> DEFINE named == IF next = NoPolicy THEN seen ELSE next
           due == IF valid /\ next # seen THEN {<<named, Delivery!UnitsOf(o)>>} ELSE {}
           j == Delivery!Pushing(due)
<1>5. /\ chosen' = [chosen EXCEPT ![o] = IF valid THEN next ELSE @]
      /\ Delivery!Go(k, j)
      /\ UNCHANGED <<policy, preset, app, device, shown>>
      /\ excepted' = excepted \cup (IF chosen[o] # seen THEN Delivery!Changed ELSE {})
  BY <1>2, <1>3, <1>4 DEF Delivery!SelectWrite
<1>6. due \in SUBSET (Policy \X SUBSET Unit)
  BY DeliveryConstants DEF Delivery!UnitsOf, Delivery!Place
<1>7. valid /\ next # seen => named \in Policy
  OBVIOUS
<1> HIDE DEF named, due
<1>8. /\ j \in TaskRow /\ j.step \in {"idle", "push"} /\ (j.step = "push" => j.todo = {})
      /\ due # {} => j.step = "push" /\ j.due = due
  BY <1>6, PushingTask
<1> HIDE DEF j
<1>9. excepted' \in SUBSET Unit /\ excepted \subseteq excepted'
  BY <1>5 DEF PhoneInv, PhoneTypes, Delivery!Changed
<1>10. task'[k] = j /\ \A d \in Client \ {k} : task'[d] = task[d]
  BY <1>5, <1>8, TaskMoves
<1>11. PhoneTypes' /\ OwnersFit' /\ TokensFit'
  <2>1. /\ chosen' \in [Delivery!Place -> Policy \cup {NoPolicy}]
        /\ \A x \in Delivery!Place :
              chosen'[x] # NoPolicy => OwnerOf[chosen'[x]] \in Delivery!Chain(x)
    BY <1>4, <1>5 DEF PhoneInv, PhoneTypes, OwnersFit
  <2> QED BY <1>5, <1>8, <1>9, <2>1, WriteFits DEF PhoneInv, PhoneTypes, OwnersFit
<1>12. ASSUME NEW u \in Unit PROVE Told(u)'
  <2>1. ASSUME u \notin excepted', ~ Tells(k, u)'
        PROVE  /\ Delivery!Applied(u)' = Delivery!Applied(u)
               /\ device[u].working => \A q \in Policy : Has(q, u) => Has(q, u)'
               /\ \A q \in Policy : Uses(q, u) /\ Has(q, u) => Uses(q, u)' /\ Has(q, u)'
               /\ (\E q \in Policy : Uses(q, u) /\ Has(q, u)) =>
                     preset.items \subseteq preset'.items
    <3>1. CASE ~ device[u].working
      BY <1>5, <3>1, NotWorking
    <3>2. CASE device[u].working
      <4>1. Delivery!Applied(u)' = Delivery!Applied(u)
        <5>1. CASE chosen' = chosen
          BY <1>5, <5>1, RowsStay
        <5>2. CASE chosen' # chosen /\ chosen[o] # seen
          BY <1>5, <2>1, <5>2 DEF Delivery!Changed
        <5>3. CASE chosen' # chosen /\ chosen[o] = seen
          <6>1. valid /\ next # seen
            BY <1>5, <5>3 DEF PhoneInv, PhoneTypes
          <6>2. u \notin Delivery!UnitsOf(o)
            <7>1. SUFFICES ASSUME u \in Delivery!UnitsOf(o) PROVE FALSE
              OBVIOUS
            <7>2. task'[k].step = "push" /\ <<named, Delivery!UnitsOf(o)>> \in task'[k].due
              BY <1>8, <1>10, <6>1 DEF due
            <7>3. named \in Policy /\ Delivery!UnitsOf(o) \in SUBSET Unit
              BY <1>7, <6>1, DeliveryConstants DEF Delivery!UnitsOf, Delivery!Place
            <7>4. Tells(k, u)'
              BY <1>5, <3>2, <7>1, <7>2, <7>3 DEF Tells
            <7> QED BY <2>1, <7>4
          <6>3. chosen'[u] = chosen[u] /\ chosen'[Site] = chosen[Site]
            BY <1>5, <6>2, DeliveryConstants
               DEF PhoneInv, PhoneTypes, Delivery!UnitsOf, Delivery!Place
          <6>4. Delivery!Explicit(u)' = Delivery!Explicit(u)
            BY <1>5, <6>3 DEF Delivery!Explicit
          <6>5. \A x : Level(x, u)' = Level(x, u)
            BY <1>5 DEF Level
          <6>6. Winners(u)' = Winners(u)
            BY <6>4, <6>5 DEF Winners
          <6>7. Delivery!Of(u)' = Delivery!Of(u)
            BY <1>5, <6>6, OfWinners, OfWinnersNext
          <6>8. \A p \in Delivery!Of(u) : Delivery!ContentOf(p)' = Delivery!ContentOf(p)
            BY <1>5 DEF Delivery!ContentOf
          <6> QED BY <6>7, <6>8, ContentsStay
        <5> QED BY <5>1, <5>2, <5>3
      <4>2. \A q \in Policy : Has(q, u) =>
               Has(q, u)' /\ (policy[q].link /\ q \in Delivery!Of(u) => policy'[q].link)
        BY <1>5 DEF Has
      <4> QED BY <1>5, <4>1, <4>2, Unconcerned
    <3> QED BY <3>1, <3>2
  <2>2. task[k].step \notin TellStep
    BY <1>1 DEF TellStep
  <2> QED BY <1>5, <1>9, <1>10, <2>1, <2>2, WriteTold
<1> QED BY <1>11, <1>12 DEF PhoneInv

-----------------------------------------------------------------------------
(* Writes to the preset and to apps. *)

\* A write to what the preset holds or to its apps, of a request that will look up the
\* policies that use it.
LEMMA UsersTold ==
  ASSUME PhoneInv, NEW k \in Client, task[k].step \notin TellStep,
         \A d \in Client \ {k} : task'[d] = task[d],
         UNCHANGED <<policy, chosen, device, shown>>, preset'.gone = preset.gone,
         excepted' = excepted \cup Delivery!Limits(Delivery!Users, policy),
         NEW u \in Unit,
         \/ task'[k].step = "tellPreset"
         \/ /\ UNCHANGED preset
            /\ \/ /\ task'[k].step = "tellApp" /\ task'[k].who \in preset.items
               \/ \A a \in preset.items : app'[a] = app[a]
  PROVE  Told(u)'
<1>1. Delivery!Of(u)' = Delivery!Of(u)
  BY LinksMatterNot
<1>2. \A p \in Policy : (Has(p, u)' <=> Has(p, u)) /\ (Uses(p, u)' <=> Uses(p, u))
  BY <1>1 DEF Has, Uses, Delivery!DispatchTargets
<1>3. excepted \subseteq excepted'
  OBVIOUS
<1>4. ASSUME u \notin excepted', ~ Tells(k, u)'
      PROVE  /\ Delivery!Applied(u)' = Delivery!Applied(u)
             /\ device[u].working => \A q \in Policy : Has(q, u) => Has(q, u)'
             /\ \A q \in Policy : Uses(q, u) /\ Has(q, u) => Uses(q, u)' /\ Has(q, u)'
             /\ (\E q \in Policy : Uses(q, u) /\ Has(q, u)) =>
                   preset.items \subseteq preset'.items
  <2>1. CASE UNCHANGED preset /\ \A a \in preset.items : app'[a] = app[a]
    <3>1. {<<a, app'[a]>> : a \in preset'.items} = {<<a, app[a]>> : a \in preset.items}
      BY <2>1
    <3>2. \A p \in Delivery!Of(u) : Delivery!ContentOf(p)' = Delivery!ContentOf(p)
      BY <2>1, <3>1 DEF Delivery!ContentOf
    <3>3. Delivery!Applied(u)' = Delivery!Applied(u)
      BY <1>1, <3>2, ContentsStay
    <3> QED BY <1>2, <2>1, <3>3
  <2>2. CASE \/ task'[k].step = "tellPreset"
             \/ task'[k].step = "tellApp" /\ task'[k].who \in preset'.items
    <3>1. \A p \in Policy : ~ (Uses(p, u) /\ Has(p, u))
      BY <1>2, <1>4, <2>2 DEF Tells
    <3>2. Delivery!Applied(u)' = Delivery!Applied(u)
      <4>1. SUFFICES ASSUME Delivery!Applied(u)' # Delivery!Applied(u) PROVE FALSE
        OBVIOUS
      <4>2. \A p \in Delivery!Of(u) : p \in Policy
        BY OfPolicies
      <4>3. \A p \in Delivery!Of(u) : ~ Uses(p, u)
        <5>1. SUFFICES ASSUME NEW p \in Delivery!Of(u), Uses(p, u) PROVE FALSE
          OBVIOUS
        <5>2. p \in Policy /\ p \in Delivery!Users
          BY <4>2, <5>1 DEF Uses, Delivery!Users
        <5>3. u \notin Delivery!Limits(Delivery!Users, policy) /\ Delivery!Users \in SUBSET Policy
          BY <1>4 DEF Delivery!Users
        <5>4. Has(p, u) \/ Has(p, u)'
          BY <4>1, <5>1, <5>2, <5>3, LimitsLeave
        <5> QED BY <1>2, <3>1, <5>1, <5>2, <5>4
      <4>4. \A p \in Delivery!Of(u) : ~ (policy[p].link /\ ~ preset.gone)
        BY <4>2, <4>3 DEF Uses
      <4>5. \A p \in Delivery!Of(u) : Delivery!ContentOf(p)' = Delivery!ContentOf(p)
        BY <4>4 DEF Delivery!ContentOf
      <4> QED BY <1>1, <4>1, <4>5, ContentsStay
    <3> QED BY <1>2, <3>1, <3>2
  <2> QED BY <2>1, <2>2
<1> QED BY <1>3, <1>4, WriteTold

LEMMA ItemsWrites ==
  ASSUME PhoneInv, NEW k \in Client,
         Delivery!ReplaceApps(k) \/ Delivery!AddApps(k) \/ Delivery!RemoveApps(k)
  PROVE  PhoneInv'
<1>1. PICK items \in SUBSET PhoneApp :
         /\ task[k].step \in ItemStep
         /\ preset' = [preset EXCEPT !.items = items]
         /\ Delivery!Go(k, [step |-> "tellPreset"])
         /\ UNCHANGED <<policy, chosen, app, device, shown>>
         /\ excepted' = excepted \cup Delivery!Limits(Delivery!Users, policy)
  <2>1. task[k].step \in ItemStep => task[k].items \in SUBSET PhoneApp
    BY TaskTypes DEF ItemsTask
  <2>2. preset.items \in SUBSET PhoneApp
    BY DEF PhoneInv, PhoneTypes
  <2>3. CASE Delivery!ReplaceApps(k)
    BY <2>1, <2>3 DEF Delivery!ReplaceApps, Delivery!ItemsWrite, ItemStep
  <2>4. CASE Delivery!AddApps(k)
    <3>1. task[k].step \in ItemStep
      BY <2>4 DEF Delivery!AddApps, Delivery!ItemsWrite, ItemStep
    <3>2. preset.items \cup task[k].items \in SUBSET PhoneApp
      BY <2>1, <2>2, <3>1
    <3> QED BY <2>4, <3>1, <3>2 DEF Delivery!AddApps, Delivery!ItemsWrite
  <2>5. CASE Delivery!RemoveApps(k)
    <3>1. task[k].step \in ItemStep
      BY <2>5 DEF Delivery!RemoveApps, Delivery!ItemsWrite, ItemStep
    <3>2. preset.items \ task[k].items \in SUBSET PhoneApp
      BY <2>1, <2>2, <3>1
    <3> QED BY <2>5, <3>1, <3>2 DEF Delivery!RemoveApps, Delivery!ItemsWrite
  <2> QED BY <2>3, <2>4, <2>5
<1> DEFINE j == [step |-> "tellPreset"]
<1>2. j \in TaskRow /\ j.step = "tellPreset" /\ Delivery!Go(k, j)
  BY <1>1 DEF TaskRow
<1> HIDE DEF j
<1>3. task'[k] = j /\ \A d \in Client \ {k} : task'[d] = task[d]
  BY <1>2, TaskMoves
<1>4. /\ preset' \in [gone : BOOLEAN, items : SUBSET PhoneApp]
      /\ preset'.gone = preset.gone
  BY <1>1 DEF PhoneInv, PhoneTypes
<1>5. excepted' \in SUBSET Unit
  BY <1>1 DEF PhoneInv, PhoneTypes, Delivery!Limits
<1>6. PhoneTypes' /\ OwnersFit' /\ TokensFit'
  BY <1>1, <1>2, <1>4, <1>5, WriteFits DEF PhoneInv, PhoneTypes, OwnersFit
<1>7. ASSUME NEW u \in Unit PROVE Told(u)'
  <2>1. task[k].step \notin TellStep
    BY <1>1 DEF TellStep, ItemStep
  <2> QED BY <1>1, <1>2, <1>3, <1>4, <2>1, UsersTold
<1> QED BY <1>6, <1>7 DEF PhoneInv

LEMMA AppWrites ==
  ASSUME PhoneInv, NEW k \in Client, Delivery!AppWrite(k) PROVE PhoneInv'
<1>1. task[k].step = "app" /\ task[k] \in AppWriteTask
  BY TaskTypes DEF Delivery!AppWrite
<1>2. PICK a \in PhoneApp, value \in BOOLEAN : a = task[k].who /\ value = task[k].next
  BY <1>1 DEF AppWriteTask
<1> DEFINE j == [step |-> "tellApp", who |-> a]
<1>3. /\ app' = [app EXCEPT ![a] = value] /\ Delivery!Go(k, j)
      /\ UNCHANGED <<policy, chosen, preset, device, shown>>
      /\ excepted' = excepted \cup Delivery!Limits(Delivery!Users, policy)
  BY <1>2 DEF Delivery!AppWrite
<1>4. j \in TaskRow /\ j.step = "tellApp" /\ j.who = a
  BY DEF TaskRow, AppTellTask
<1> HIDE DEF j
<1>5. task'[k] = j /\ \A d \in Client \ {k} : task'[d] = task[d]
  BY <1>3, <1>4, TaskMoves
<1>6. excepted' \in SUBSET Unit
  BY <1>3 DEF PhoneInv, PhoneTypes, Delivery!Limits
<1>7. PhoneTypes' /\ OwnersFit' /\ TokensFit'
  <2>1. app' \in [PhoneApp -> BOOLEAN]
    BY <1>3 DEF PhoneInv, PhoneTypes
  <2> QED BY <1>3, <1>4, <1>6, <2>1, WriteFits DEF PhoneInv, PhoneTypes, OwnersFit
<1>8. ASSUME NEW u \in Unit PROVE Told(u)'
  <2>1. task[k].step \notin TellStep
    BY <1>1 DEF TellStep
  <2>2. \/ task'[k].step = "tellApp" /\ task'[k].who \in preset.items
        \/ \A b \in preset.items : app'[b] = app[b]
    BY <1>3, <1>4, <1>5 DEF PhoneInv, PhoneTypes
  <2> QED BY <1>3, <1>5, <2>1, <2>2, UsersTold
<1> QED BY <1>7, <1>8 DEF PhoneInv

LEMMA DropWrites ==
  ASSUME PhoneInv, NEW k \in Client, Delivery!DropWrite(k) PROVE PhoneInv'
<1>1. task[k].step = "drop" /\ task[k] \in DropTask
  BY Zenon, TaskTypes DEF Delivery!DropWrite
<1>2. PICK ps \in SUBSET Policy : ps = task[k].who
  BY <1>1 DEF DropTask
<1>3. PICK bare \in SUBSET ps :
         bare = {p \in ps : Delivery!Bare([policy[p] EXCEPT !.link = FALSE], p)}
  OBVIOUS
<1>4. /\ policy' = [p \in Policy |->
            [policy[p] EXCEPT !.link = FALSE, !.active = @ /\ p \notin bare]]
      /\ preset' = [preset EXCEPT !.gone = TRUE]
      /\ Delivery!Go(k, Delivery!Pushing(Delivery!Own(ps)))
      /\ UNCHANGED <<chosen, app, device, shown>>
      /\ excepted' = excepted \cup Delivery!Limits(Policy, policy)
                       \cup Delivery!Having(Delivery!Users \ ps)
  <2>1. \A p \in Policy :
          (~ (p \in ps /\ Delivery!Bare([policy[p] EXCEPT !.link = FALSE], p)))
             <=> p \notin bare
    BY <1>3
  <2> QED BY Zenon, <1>2, <2>1 DEF Delivery!DropWrite
<1>5. \A p \in Policy : /\ policy'[p] \in PolicyRow
                        /\ policy'[p].targets = policy[p].targets
                        /\ policy'[p].gone = policy[p].gone
                        /\ policy'[p].draft = policy[p].draft
                        /\ policy'[p].rules = policy[p].rules
                        /\ policy'[p].active <=> policy[p].active /\ p \notin bare
                        /\ policy'[p].link = FALSE
  BY Zenon, <1>4 DEF PhoneInv, PhoneTypes, PolicyRow
<1>6. policy' \in [Policy -> PolicyRow]
  BY Zenon, <1>4, <1>5
<1>7. excepted' \in SUBSET Unit /\ excepted \subseteq excepted'
  BY Zenon, <1>4 DEF PhoneInv, PhoneTypes, Delivery!Limits, Delivery!Having
<1>8. preset' \in [gone : BOOLEAN, items : SUBSET PhoneApp]
  BY Zenon, <1>4 DEF PhoneInv, PhoneTypes
<1>9. PhoneTypes' /\ OwnersFit' /\ TokensFit'
  BY Zenon, <1>4, <1>5, <1>6, <1>7, <1>8, TargetsFit
<1>10. ASSUME NEW u \in Unit PROVE Told(u)'
  <2> DEFINE j == Delivery!Pushing(Delivery!Own(ps))
  <2>1. task'[k] = Delivery!Pushing(Delivery!Own(ps))
        /\ \A d \in Client \ {k} : task'[d] = task[d]
    <3>1. j \in TaskRow
      BY OwnPairs, PushingTask
    <3>2. Delivery!Go(k, j)
      BY Zenon, <1>4
    <3> QED BY <3>1, <3>2, TaskMoves
  <2>2. \A p \in Policy : Has(p, u)' <=> Has(p, u)
    BY <1>5 DEF Has, Delivery!DispatchTargets
  <2>3. ASSUME u \notin excepted', ~ Tells(k, u)'
        PROVE  /\ Delivery!Applied(u)' = Delivery!Applied(u)
               /\ device[u].working => \A q \in Policy : Has(q, u) => Has(q, u)'
               /\ \A q \in Policy : Uses(q, u) /\ Has(q, u) => Uses(q, u)' /\ Has(q, u)'
               /\ (\E q \in Policy : Uses(q, u) /\ Has(q, u)) =>
                     preset.items \subseteq preset'.items
    <3>1. CASE ~ device[u].working
      BY Zenon, <1>4, <3>1, NotWorking
    <3>2. CASE device[u].working
      <4>1. \A p \in ps : ~ Has(p, u)
        BY Zenon, <1>4, <2>1, <2>2, <2>3, <3>2, OwnTells
      <4>2. \A p \in Delivery!Of(u) : policy[p].link => p \in ps
        <5>1. u \notin Delivery!Having(Delivery!Users \ ps)
          BY Zenon, <1>4, <2>3
        <5> QED BY <5>1, OfPolicies DEF Delivery!Having, Delivery!Users
      <4>3. Delivery!Applied(u)' = Delivery!Applied(u)
        <5>1. SUFFICES ASSUME Delivery!Applied(u)' # Delivery!Applied(u) PROVE FALSE
          OBVIOUS
        <5>2. u \notin Delivery!Limits(Policy, policy) /\ Policy \in SUBSET Policy
          BY Zenon, <1>4, <2>3
        <5>3. \A p \in Policy : p \in Delivery!Of(u) \cup Delivery!Of(u)' => Has(p, u)
          BY <2>2, <5>1, <5>2, LimitsLeave
        <5>4. bare \cap Delivery!Of(u) = {}
          BY <4>1, <5>3
        <5>5. Delivery!Of(u)' = Delivery!Of(u)
          <6>1. Delivery!Of(u) = Winners(u) /\ Delivery!Of(u)' = Winners(u)'
            BY Zenon, <1>4, <3>2, OfWinners, OfWinnersNext
          <6>2. Delivery!Explicit(u)' = Delivery!Explicit(u)
            <7>1. chosen' = chosen /\ \A p \in Policy : /\ policy'[p].gone = policy[p].gone
                                                       /\ policy'[p].draft = policy[p].draft
              BY Zenon, <1>4, <1>5
            <7> QED BY <7>1 DEF Delivery!Explicit
          <6>3. \A o : Level(o, u)' = Level(o, u) \ bare
            BY <1>5 DEF Level
          <6>4. Winners(u)' = Winners(u)
            BY <5>4, <6>1, <6>2, <6>3 DEF Winners
          <6> QED BY <6>1, <6>4
        <5>6. \A p \in Delivery!Of(u) : ~ policy[p].link /\ p \notin ps
          BY <4>1, <4>2, <5>3, OfPolicies
        <5>7. \A p \in Delivery!Of(u) : Delivery!ContentOf(p)' = Delivery!ContentOf(p)
          <6>1. SUFFICES ASSUME NEW p \in Delivery!Of(u)
                         PROVE  Delivery!ContentOf(p)' = Delivery!ContentOf(p)
            OBVIOUS
          <6>2. p \in Policy /\ ~ policy[p].link /\ p \notin ps
            BY <5>6, <6>1, OfPolicies
          <6>3. policy'[p].active = policy[p].active
            BY <1>5, <1>9, <6>2 DEF PhoneInv, PhoneTypes, PolicyRow
          <6> QED BY <1>5, <6>2, <6>3 DEF Delivery!ContentOf
        <5> QED BY <5>1, <5>5, <5>7, ContentsStay
      <4>4. \A q \in Policy : ~ (Uses(q, u) /\ Has(q, u))
        BY <4>1, <4>2 DEF Uses
      <4> QED BY <2>2, <4>3, <4>4
    <3> QED BY <3>1, <3>2
  <2>4. task[k].step \notin TellStep
    BY <1>1 DEF TellStep
  <2> QED BY Zenon, <1>4, <1>7, <2>1, <2>3, <2>4, WriteTold
<1> QED BY <1>9, <1>10 DEF PhoneInv

-----------------------------------------------------------------------------
(* Pushes, and the users that come and go. *)

\* A step that leaves alone what concerns a unit, but for marking its device.
LEMMA PointTold ==
  ASSUME PhoneInv, NEW k \in Client, NEW u \in Unit,
         \A d \in Client \ {k} : task'[d] = task[d],
         UNCHANGED <<policy, chosen, preset, app>>,
         device'[u].working = device[u].working, device'[u].token = device[u].token,
         device'[u].status \in {device[u].status, "error"},
         shown'[u] = shown[u], u \in excepted => u \in excepted',
         Tells(k, u) => Told(u)'
  PROVE  Told(u)'
<1>1. /\ Delivery!Of(u)' = Delivery!Of(u)
      /\ Delivery!Applied(u)' = Delivery!Applied(u)
  <2>1. {} \in SUBSET Policy /\ {} \cap Delivery!Of(u) = {} /\ {} \cap Delivery!Of(u)' = {}
    OBVIOUS
  <2> QED BY <2>1, OthersMatterNot
<1>2. \A p \in Policy : (Has(p, u)' <=> Has(p, u)) /\ (Uses(p, u)' <=> Uses(p, u))
  BY <1>1 DEF Has, Uses
<1>3. CASE Fresh(u)
  BY <1>1, <1>3 DEF Told, Fresh
<1>4. ASSUME NEW d \in Client \ {k}, Tells(d, u) PROVE Told(u)'
  <2>1. Tells(d, u)'
    BY <1>2, <1>4, TellsOn
  <2> QED BY <2>1 DEF Told
<1> QED BY <1>3, <1>4 DEF PhoneInv, Told

\* A unit whose phone fetches what applies.
LEMMA FetchTold ==
  ASSUME NEW u \in Unit, UNCHANGED <<policy, chosen, preset, app>>,
         device'[u].working = device[u].working, shown'[u] = Delivery!Applied(u)
  PROVE  Told(u)'
<1>1. {} \in SUBSET Policy /\ {} \cap Delivery!Of(u) = {} /\ {} \cap Delivery!Of(u)' = {}
  OBVIOUS
<1>2. Delivery!Applied(u)' = Delivery!Applied(u)
  BY <1>1, OthersMatterNot
<1> QED BY <1>2 DEF Told, Fresh

LEMMA Loads ==
  ASSUME PhoneInv, NEW k \in Client, Delivery!Load(k) PROVE PhoneInv'
<1>1. task[k].step = "push" /\ task[k] \in PushTask
  BY TaskTypes DEF Delivery!Load
<1>2. PICK c \in task[k].due :
         LET to == IF c[2] = {} THEN Delivery!DispatchTargets(policy[c[1]], c[1]) ELSE c[2]
         IN Delivery!Go(k, [task[k] EXCEPT
              !.due = @ \ {c},
              !.todo = @ \cup {<<u, device[u].token>> : u \in
                         {v \in to : device[v].working /\ device[v].status # "error"}}])
  BY Zenon DEF Delivery!Load
<1>3. PICK p \in Policy, units \in SUBSET Unit : c = <<p, units>>
  BY <1>1 DEF PushTask
<1>4. Delivery!DispatchTargets(policy[p], p) \in SUBSET Unit
  <2>1. policy[p] \in PolicyRow
    BY DEF PhoneInv, PhoneTypes
  <2> QED BY <2>1, DeliveryConstants
          DEF PolicyRow, Delivery!DispatchTargets, Delivery!UnitsOf, Delivery!Place
<1>5. PICK to \in SUBSET Unit :
         to = IF units = {} THEN Delivery!DispatchTargets(policy[p], p) ELSE units
  BY <1>4
<1> DEFINE more == {<<u, device[u].token>> : u \in
                       {v \in to : device[v].working /\ device[v].status # "error"}}
           j == [task[k] EXCEPT !.due = @ \ {c}, !.todo = @ \cup more]
<1>6. Delivery!Go(k, j)
  BY <1>2, <1>3, <1>5
<1>7. more \in SUBSET (Unit \X {0, 1})
  BY DEF PhoneInv, PhoneTypes, PhoneRow
<1>8. \A t \in more : t[2] <= device[t[1]].token
  BY DEF PhoneInv, PhoneTypes, PhoneRow
<1>9. \A u \in to : device[u].working /\ device[u].status # "error" =>
                       <<u, device[u].token>> \in more
  OBVIOUS
<1> HIDE DEF more
<1>10. /\ j \in PushTask /\ j.step = "push" /\ j.due = task[k].due \ {c}
       /\ j.todo = task[k].todo \cup more /\ j.failed = task[k].failed
  BY <1>1, <1>7 DEF PushTask
<1> HIDE DEF j
<1>11. j \in TaskRow
  BY <1>10 DEF TaskRow
<1>12. UNCHANGED <<policy, chosen, preset, app, device, shown, excepted>>
  BY DEF Delivery!Load, Delivery!rows
<1>13. task'[k] = j /\ \A d \in Client \ {k} : task'[d] = task[d]
  BY <1>6, <1>11, TaskMoves
<1>14. PhoneTypes' /\ OwnersFit' /\ TokensFit'
  <2>1. \A t \in j.todo : t[2] <= device[t[1]].token
    BY <1>1, <1>8, <1>10 DEF PhoneInv, TokensFit
  <2> QED BY <1>6, <1>10, <1>11, <1>12, <2>1, StepFits DEF PhoneInv, PhoneTypes
<1>15. ASSUME NEW u \in Unit PROVE Told(u)'
  <2>1. ASSUME Tells(k, u) PROVE Told(u)'
    <3>1. CASE <<u, device[u].token>> \in task[k].todo \/ u \in task[k].failed
      <4>1. Tells(k, u)'
        BY <1>10, <1>12, <1>13, <3>1 DEF Tells
      <4> QED BY <4>1 DEF Told
    <3>2. ASSUME NEW q \in Policy, NEW on \in SUBSET Unit, <<q, on>> \in task[k].due,
                 device[u].working, (on = {} /\ Has(q, u)) \/ u \in on
          PROVE  Told(u)'
      <4>1. CASE <<q, on>> # c
        <5>1. <<q, on>> \in task'[k].due /\ task'[k].step = "push"
          BY <1>10, <1>13, <3>2, <4>1
        <5>2. Has(q, u)' <=> Has(q, u)
          BY <1>12, RowsStay
        <5>3. Tells(k, u)'
          BY <1>12, <3>2, <5>1, <5>2 DEF Tells
        <5> QED BY <5>3 DEF Told
      <4>2. CASE <<q, on>> = c
        <5>1. u \in to
          BY <1>3, <1>5, <3>2, <4>2 DEF Has
        <5>2. CASE device[u].status = "error"
          BY <1>12, <5>2 DEF Told, Fresh
        <5>3. CASE device[u].status # "error"
          <6>1. <<u, device'[u].token>> \in task'[k].todo /\ task'[k].step = "push"
            BY <1>9, <1>10, <1>12, <1>13, <3>2, <5>1, <5>3
          <6>2. Tells(k, u)'
            BY <6>1 DEF Tells
          <6> QED BY <6>2 DEF Told
        <5> QED BY <5>2, <5>3
      <4> QED BY <4>1, <4>2
    <3> QED BY <1>1, <2>1, <3>1, <3>2 DEF Tells
  <2> QED BY <1>12, <1>13, <2>1, StepTold
<1> QED BY <1>14, <1>15 DEF PhoneInv

\* A request that has one token less to push to.
LEMMA LessToDo ==
  ASSUME PhoneInv, NEW k \in Client, task[k].step = "push", NEW t \in task[k].todo,
         NEW j \in PushTask, Delivery!Go(k, j), j.todo = task[k].todo \ {t},
         UNCHANGED <<policy, chosen, preset, app, device>>,
         shown' = [u \in Unit |-> shown'[u]], excepted' \in SUBSET Unit
  PROVE  /\ PhoneTypes' /\ OwnersFit' /\ TokensFit'
         /\ task'[k] = j /\ \A d \in Client \ {k} : task'[d] = task[d]
<1>1. j \in TaskRow /\ j.step = "push"
  BY DEF TaskRow, PushTask
<1>2. task'[k] = j /\ \A d \in Client \ {k} : task'[d] = task[d]
  BY <1>1, TaskMoves
<1>3. \A x \in j.todo : x[2] <= device[x[1]].token
  BY DEF PhoneInv, TokensFit
<1>4. PhoneTypes' /\ OwnersFit' /\ TokensFit'
  BY <1>1, <1>3, StepFits
<1> QED BY <1>2, <1>4

\* Those it was to tell by another token it tells still.
LEMMA StillTells ==
  ASSUME NEW k \in Client, NEW u \in Unit, Tells(k, u), task[k].step = "push",
         UNCHANGED <<policy, chosen, preset, app, device>>,
         task'[k].step = "push", task'[k].due = task[k].due,
         <<u, device[u].token>> \in task[k].todo =>
            <<u, device[u].token>> \in task'[k].todo \/ u \in task'[k].failed,
         u \in task[k].failed => u \in task'[k].failed
  PROVE  Tells(k, u)'
<1>1. \A p \in Policy : Has(p, u)' <=> Has(p, u)
  BY RowsStay
<1> QED BY <1>1 DEF Tells

LEMMA Delivers ==
  ASSUME PhoneInv, NEW k \in Client, NEW u \in Unit,
         Delivery!Deliver(k, u) \/ Delivery!Refuse(k, u) \/ Delivery!Lose(k, u)
  PROVE  PhoneInv'
<1>1. task[k].step = "push" /\ task[k] \in PushTask
  BY Zenon, TaskTypes DEF Delivery!Deliver, Delivery!Refuse, Delivery!Lose
<1>2. PICK t \in task[k].todo, j \in PushTask :
         /\ t[1] = u /\ Delivery!Go(k, j)
         /\ j.due = task[k].due /\ j.todo = task[k].todo \ {t}
         /\ task[k].failed \subseteq j.failed
         /\ UNCHANGED <<policy, chosen, preset, app, device>>
         /\ \/ /\ shown' = [shown EXCEPT ![u] = Delivery!Applied(u)]
               /\ excepted' = excepted \ {u}
            \/ /\ UNCHANGED shown
               /\ \/ UNCHANGED excepted /\ u \in j.failed
                  \/ excepted' = excepted \cup {u}
  <2>1. CASE Delivery!Deliver(k, u) \/ Delivery!Lose(k, u)
    <3>1. PICK t \in task[k].todo :
             /\ t[1] = u /\ Delivery!Go(k, [task[k] EXCEPT !.todo = @ \ {t}])
             /\ UNCHANGED <<policy, chosen, preset, app, device>>
             /\ \/ /\ shown' = [shown EXCEPT ![u] = Delivery!Applied(u)]
                   /\ excepted' = excepted \ {u}
                \/ UNCHANGED shown /\ excepted' = excepted \cup {u}
      BY <2>1 DEF Delivery!Deliver, Delivery!Lose, Delivery!rows
    <3> DEFINE j == [task[k] EXCEPT !.todo = @ \ {t}]
    <3>2. /\ j \in PushTask /\ j.due = task[k].due /\ j.todo = task[k].todo \ {t}
          /\ task[k].failed = j.failed
      BY <1>1 DEF PushTask
    <3>3. Delivery!Go(k, j)
      BY <3>1
    <3> HIDE DEF j
    <3> QED BY <3>1, <3>2, <3>3
  <2>2. CASE Delivery!Refuse(k, u)
    <3>1. PICK t \in task[k].todo :
             /\ t[1] = u
             /\ Delivery!Go(k, [task[k] EXCEPT !.todo = @ \ {t}, !.failed = @ \cup {u}])
             /\ UNCHANGED <<policy, chosen, preset, app, device, shown, excepted>>
      BY Zenon, <2>2 DEF Delivery!Refuse, Delivery!rows
    <3> DEFINE j == [task[k] EXCEPT !.todo = @ \ {t}, !.failed = @ \cup {u}]
    <3>2. /\ j \in PushTask /\ j.due = task[k].due /\ j.todo = task[k].todo \ {t}
          /\ task[k].failed \subseteq j.failed /\ u \in j.failed
      BY <1>1 DEF PushTask
    <3>3. Delivery!Go(k, j)
      BY <3>1
    <3> HIDE DEF j
    <3> QED BY <3>1, <3>2, <3>3
  <2> QED BY <2>1, <2>2
<1>3. shown' = [v \in Unit |-> shown'[v]] /\ excepted' \in SUBSET Unit
  BY <1>2 DEF PhoneInv, PhoneTypes
<1>4. /\ PhoneTypes' /\ OwnersFit' /\ TokensFit'
      /\ task'[k] = j /\ \A d \in Client \ {k} : task'[d] = task[d]
      /\ task'[k].step = "push" /\ task'[k].due = task[k].due
      /\ task'[k].todo = task[k].todo \ {t} /\ task[k].failed \subseteq task'[k].failed
  <2>1. j.step = "push"
    BY DEF PushTask
  <2> QED BY <1>1, <1>2, <1>3, <2>1, LessToDo
<1>5. ASSUME NEW v \in Unit PROVE Told(v)'
  <2>1. CASE v # u \/ (u \in j.failed /\ UNCHANGED <<shown, excepted>>)
    <3>1. shown'[v] = shown[v] /\ (v \in excepted => v \in excepted')
      BY <1>2, <2>1 DEF PhoneInv, PhoneTypes
    <3>2. ASSUME Tells(k, v) PROVE Told(v)'
      <4>1. /\ <<v, device[v].token>> \in task[k].todo =>
                  <<v, device[v].token>> \in task'[k].todo \/ v \in task'[k].failed
            /\ v \in task[k].failed => v \in task'[k].failed
        BY <1>2, <1>4, <2>1
      <4>2. Tells(k, v)'
        BY <1>1, <1>2, <1>4, <3>2, <4>1, StillTells
      <4> QED BY <4>2 DEF Told
    <3>3. /\ UNCHANGED <<policy, chosen, preset, app>>
          /\ device'[v].working = device[v].working /\ device'[v].token = device[v].token
          /\ device'[v].status \in {device[v].status, "error"}
      BY <1>2
    <3>4. \A d \in Client \ {k} : task'[d] = task[d]
      BY <1>4
    <3> QED BY <3>1, <3>2, <3>3, <3>4, PointTold
  <2>2. CASE v = u /\ shown' = [shown EXCEPT ![u] = Delivery!Applied(u)]
    <3>1. shown'[u] = Delivery!Applied(u)
      BY <2>2 DEF PhoneInv, PhoneTypes
    <3>2. UNCHANGED <<policy, chosen, preset, app>> /\ device'[u].working = device[u].working
      BY <1>2
    <3> QED BY <2>2, <3>1, <3>2, FetchTold
  <2>3. CASE v = u /\ excepted' = excepted \cup {u}
    BY <2>3 DEF Told, Fresh
  <2> QED BY <1>2, <2>1, <2>2, <2>3
<1> QED BY <1>4, <1>5 DEF PhoneInv

LEMMA Marks ==
  ASSUME PhoneInv, NEW k \in Client, Delivery!Mark(k) PROVE PhoneInv'
<1>1. task[k].step = "push" /\ task[k] \in PushTask
  BY TaskTypes DEF Delivery!Mark
<1>2. /\ task[k].due = {} /\ task[k].todo = {}
      /\ device' = [u \in Unit |-> IF task[k].marks /\ u \in task[k].failed
                                   THEN [device[u] EXCEPT !.status = "error"]
                                   ELSE device[u]]
      /\ excepted' = IF task[k].marks THEN excepted ELSE excepted \cup task[k].failed
      /\ Delivery!Go(k, Delivery!Idle)
      /\ UNCHANGED <<policy, chosen, preset, app, shown>>
  BY DEF Delivery!Mark
<1>3. /\ task' \in [Client -> TaskRow] /\ task'[k].step = "idle"
      /\ \A d \in Client \ {k} : task'[d] = task[d]
  BY <1>2, IdleTask, TaskMoves
<1>4. \A u \in Unit : /\ device'[u] \in PhoneRow
                      /\ device'[u].token = device[u].token
                      /\ device'[u].working = device[u].working
                      /\ device'[u].status \in {device[u].status, "error"}
  BY <1>2 DEF PhoneInv, PhoneTypes, PhoneRow
<1>5. excepted' \in SUBSET Unit /\ excepted \subseteq excepted'
  BY <1>1, <1>2 DEF PushTask, PhoneInv, PhoneTypes
<1>6. PhoneTypes'
  <2>1. device' \in [Unit -> PhoneRow]
    BY <1>2, <1>4
  <2> QED BY <1>2, <1>3, <1>5, <2>1 DEF PhoneInv, PhoneTypes
<1>7. OwnersFit'
  BY <1>2, <1>3 DEF PhoneInv, OwnersFit
<1>8. TokensFit'
  <2>1. \A u \in Unit : device'[u].token = 1 => device'[u].status # "none"
    BY <1>4 DEF PhoneInv, TokensFit
  <2>2. \A d \in Client : task'[d].step = "push" =>
           \A t \in task'[d].todo : t[2] <= device'[t[1]].token
    <3>1. SUFFICES ASSUME NEW d \in Client, task'[d].step = "push", NEW t \in task'[d].todo
                   PROVE  t[2] <= device'[t[1]].token
      OBVIOUS
    <3>2. task'[d] = task[d]
      BY <1>3, <3>1
    <3>3. t[1] \in Unit
      BY <3>1, <3>2, TaskTypes DEF PushTask
    <3> QED BY <1>4, <3>1, <3>2, <3>3 DEF PhoneInv, TokensFit
  <2> QED BY <2>1, <2>2 DEF TokensFit
<1>9. ASSUME NEW u \in Unit PROVE Told(u)'
  <2>1. ASSUME Tells(k, u) PROVE Told(u)'
    <3>1. u \in task[k].failed
      BY <1>1, <1>2, <2>1 DEF Tells
    <3>2. CASE task[k].marks
      <4>1. device'[u].status = "error"
        BY <1>2, <3>1, <3>2 DEF PhoneInv, PhoneTypes, PhoneRow
      <4> QED BY <4>1 DEF Told, Fresh
    <3>3. CASE ~ task[k].marks
      BY <1>2, <3>1, <3>3 DEF Told, Fresh
    <3> QED BY <3>2, <3>3
  <2> QED BY <1>2, <1>3, <1>4, <1>5, <2>1, PointTold
<1> QED BY <1>6, <1>7, <1>8, <1>9 DEF PhoneInv

LEMMA Leaves ==
  ASSUME PhoneInv, NEW k \in Client, NEW u \in Unit,
         Delivery!Dismiss(k, u) \/ Delivery!Withdraw(k, u)
  PROVE  PhoneInv'
<1>1. PICK step \in {"dismiss", "withdraw"} : Delivery!Leave(k, u, step)
  BY DEF Delivery!Dismiss, Delivery!Withdraw
<1> DEFINE j == [step |-> step, who |-> u]
<1>2. /\ task[k].step = "idle" /\ device[u].working
      /\ device' = [device EXCEPT ![u].working = FALSE]
      /\ Delivery!Go(k, j) /\ UNCHANGED <<policy, chosen, preset, app, shown, excepted>>
  BY <1>1 DEF Delivery!Leave, Delivery!Begin
<1>3. j \in TaskRow /\ j.step = step /\ j.who = u
  BY DEF TaskRow, LeftTask
<1> HIDE DEF j
<1>4. /\ task' \in [Client -> TaskRow] /\ task'[k] = j
      /\ \A d \in Client \ {k} : task'[d] = task[d]
  BY <1>2, <1>3, TaskMoves
<1>5. /\ device' \in [Unit -> PhoneRow] /\ ~ device'[u].working
      /\ \A v \in Unit : /\ device'[v].token = device[v].token
                         /\ device'[v].status = device[v].status
      /\ \A v \in Unit \ {u} : device'[v] = device[v]
  BY <1>2 DEF PhoneInv, PhoneTypes, PhoneRow
<1>6. PhoneTypes'
  BY <1>2, <1>4, <1>5 DEF PhoneInv, PhoneTypes
<1>7. OwnersFit'
  BY <1>2, <1>3, <1>4 DEF PhoneInv, OwnersFit
<1>8. TokensFit'
  <2>1. \A d \in Client : task'[d].step = "push" =>
           \A t \in task'[d].todo : t[2] <= device'[t[1]].token
    <3>1. SUFFICES ASSUME NEW d \in Client, task'[d].step = "push", NEW t \in task'[d].todo
                   PROVE  t[2] <= device'[t[1]].token
      OBVIOUS
    <3>2. task'[d] = task[d]
      BY <1>3, <1>4, <3>1
    <3>3. t[1] \in Unit
      BY <3>1, <3>2, TaskTypes DEF PushTask
    <3> QED BY <1>5, <3>1, <3>2, <3>3 DEF PhoneInv, TokensFit
  <2> QED BY <1>5, <2>1 DEF PhoneInv, TokensFit
<1>9. ASSUME NEW v \in Unit PROVE Told(v)'
  <2>1. CASE v = u
    <3>1. Tells(k, u)'
      BY <1>3, <1>4, <1>5 DEF Tells
    <3> QED BY <2>1, <3>1 DEF Told
  <2>2. CASE v # u
    <3>1. ~ Tells(k, v)
      BY <1>2 DEF Tells
    <3> QED BY <1>2, <1>4, <1>5, <2>2, <3>1, PointTold
  <2> QED BY <2>1, <2>2
<1> QED BY <1>6, <1>7, <1>8, <1>9 DEF PhoneInv

LEMMA LeftTold ==
  ASSUME PhoneInv, NEW k \in Client, Delivery!TellDismissed(k) \/ Delivery!TellWithdrawn(k)
  PROVE  PhoneInv'
<1>1. PICK step \in {"dismiss", "withdraw"}, marks \in BOOLEAN :
         Delivery!TellLeft(k, step, marks)
  BY DEF Delivery!TellDismissed, Delivery!TellWithdrawn
<1>2. task[k].step = step /\ task[k] \in LeftTask
  BY <1>1, TaskTypes DEF Delivery!TellLeft
<1>3. PICK u \in Unit : u = task[k].who
  BY <1>2 DEF LeftTask
<1> DEFINE todo == IF device[u].status = "ok" THEN {<<u, device[u].token>>} ELSE {}
           j == [step |-> "push", due |-> {}, failed |-> {}, marks |-> marks, todo |-> todo]
<1>4. /\ Delivery!Go(k, j)
      /\ UNCHANGED <<policy, chosen, preset, app, device, shown, excepted>>
  BY <1>1, <1>3 DEF Delivery!TellLeft, Delivery!rows
<1>5. todo \in SUBSET (Unit \X {0, 1}) /\ \A t \in todo : t[2] <= device[t[1]].token
  BY DEF PhoneInv, PhoneTypes, PhoneRow
<1>6. j \in PushTask /\ j.step = "push" /\ j.todo = todo
  BY <1>5 DEF PushTask
<1>7. j \in TaskRow
  BY <1>6 DEF TaskRow
<1> HIDE DEF j
<1>8. task'[k] = j /\ \A d \in Client \ {k} : task'[d] = task[d]
  BY <1>4, <1>7, TaskMoves
<1>9. PhoneTypes' /\ OwnersFit' /\ TokensFit'
  BY <1>4, <1>5, <1>6, <1>7, StepFits DEF PhoneInv, PhoneTypes
<1>10. ASSUME NEW v \in Unit PROVE Told(v)'
  <2>1. ASSUME Tells(k, v) PROVE Told(v)'
    <3>1. v = u /\ ~ device[u].working
      BY <1>2, <1>3, <2>1 DEF Tells
    <3>2. CASE device[u].status = "ok"
      <4>1. <<u, device'[u].token>> \in task'[k].todo /\ task'[k].step = "push"
        BY <1>4, <1>6, <1>8, <3>2
      <4>2. Tells(k, u)'
        BY <4>1 DEF Tells
      <4> QED BY <3>1, <4>2 DEF Told
    <3>3. CASE device[u].status # "ok"
      <4>1. device[u].status \in {"none", "error"}
        BY <3>3 DEF PhoneInv, PhoneTypes, PhoneRow
      <4> QED BY <1>4, <3>1, <4>1 DEF Told, Fresh
    <3> QED BY <3>2, <3>3
  <2> QED BY <1>4, <1>8, <2>1, StepTold
<1> QED BY <1>9, <1>10 DEF PhoneInv

LEMMA Reinstates ==
  ASSUME PhoneInv, NEW k \in Client, NEW u \in Unit, Delivery!Reinstate(k, u)
  PROVE  PhoneInv'
<1>1. /\ task[k].step = "idle" /\ device' = [device EXCEPT ![u].working = TRUE]
      /\ excepted' = excepted \cup {u}
      /\ UNCHANGED <<policy, chosen, preset, app, shown, task>>
  BY DEF Delivery!Reinstate, Delivery!Begin
<1>2. /\ device' \in [Unit -> PhoneRow]
      /\ \A v \in Unit : /\ device'[v].token = device[v].token
                         /\ device'[v].status = device[v].status
      /\ \A v \in Unit \ {u} : device'[v] = device[v]
  BY <1>1 DEF PhoneInv, PhoneTypes, PhoneRow
<1>3. PhoneTypes'
  BY <1>1, <1>2 DEF PhoneInv, PhoneTypes
<1>4. OwnersFit'
  BY <1>1 DEF PhoneInv, OwnersFit
<1>5. TokensFit'
  <2>1. \A d \in Client : task[d].step = "push" => \A t \in task[d].todo : t[1] \in Unit
    BY TaskTypes DEF PushTask
  <2> QED BY <1>1, <1>2, <2>1 DEF PhoneInv, TokensFit
<1>6. ASSUME NEW v \in Unit PROVE Told(v)'
  <2>1. CASE v = u
    BY <1>1, <2>1 DEF Told, Fresh
  <2>2. CASE v # u
    <3>1. ~ Tells(k, v)
      BY <1>1 DEF Tells
    <3> QED BY <1>1, <1>2, <2>2, <3>1, PointTold
  <2> QED BY <2>1, <2>2
<1> QED BY <1>3, <1>4, <1>5, <1>6 DEF PhoneInv

LEMMA Registers ==
  ASSUME PhoneInv, NEW u \in Unit, Delivery!Register(u) PROVE PhoneInv'
<1>1. /\ device[u].working /\ device[u].token = 0
      /\ device' = [device EXCEPT ![u].token = 1, ![u].status = "ok"]
      /\ shown' = [shown EXCEPT ![u] = Delivery!Applied(u)]
      /\ excepted' = excepted \ {u}
      /\ UNCHANGED <<policy, chosen, preset, app, task>>
  BY DEF Delivery!Register
<1>2. /\ device'[u] \in PhoneRow /\ device'[u].token = 1 /\ device'[u].status = "ok"
      /\ device'[u].working = device[u].working
      /\ device' = [device EXCEPT ![u] = device'[u]]
  BY <1>1 DEF PhoneInv, PhoneTypes, PhoneRow
<1>3. device' \in [Unit -> PhoneRow] /\ \A v \in Unit \ {u} : device'[v] = device[v]
  BY <1>2 DEF PhoneInv, PhoneTypes
<1>4. PhoneTypes'
  BY <1>1, <1>3 DEF PhoneInv, PhoneTypes
<1>5. OwnersFit'
  BY <1>1 DEF PhoneInv, OwnersFit
<1>6. TokensFit'
  <2>1. \A v \in Unit : device'[v].token = 1 => device'[v].status # "none"
    BY <1>2, <1>3 DEF PhoneInv, TokensFit
  <2>2. ASSUME NEW d \in Client, task[d].step = "push", NEW t \in task[d].todo
        PROVE  t[2] <= device'[t[1]].token
    <3>1. t[1] \in Unit /\ t[2] \in {0, 1}
      BY <2>2, TaskTypes DEF PushTask
    <3>2. CASE t[1] = u
      BY <1>2, <3>1, <3>2
    <3>3. CASE t[1] # u
      BY <1>3, <2>2, <3>1, <3>3 DEF PhoneInv, TokensFit
    <3> QED BY <3>2, <3>3
  <2> QED BY <1>1, <2>1, <2>2 DEF TokensFit
<1>7. ASSUME NEW v \in Unit PROVE Told(v)'
  <2>1. CASE v = u
    <3>1. shown'[u] = Delivery!Applied(u)
      BY <1>1 DEF PhoneInv, PhoneTypes
    <3> QED BY <1>1, <1>2, <2>1, <3>1, FetchTold
  <2>2. CASE v # u
    <3>1. shown'[v] = shown[v] /\ (v \in excepted => v \in excepted')
      BY <1>1, <2>2 DEF PhoneInv, PhoneTypes
    <3>2. CASE Fresh(v)
      <4>1. {} \in SUBSET Policy /\ {} \cap Delivery!Of(v) = {} /\ {} \cap Delivery!Of(v)' = {}
        OBVIOUS
      <4>2. Delivery!Applied(v)' = Delivery!Applied(v)
        BY <1>1, <1>3, <2>2, <4>1, OthersMatterNot
      <4> QED BY <1>3, <2>2, <3>1, <3>2, <4>2 DEF Told, Fresh
    <3>3. ASSUME NEW d \in Client, Tells(d, v) PROVE Told(v)'
      <4>1. Delivery!Of(v)' = Delivery!Of(v)
        BY <1>1, <1>3, <2>2, LinksMatterNot
      <4>2. \A p \in Policy : (Has(p, v)' <=> Has(p, v)) /\ (Uses(p, v)' <=> Uses(p, v))
        BY <1>1, <4>1 DEF Has, Uses
      <4>3. Tells(d, v)'
        BY <1>1, <1>3, <2>2, <3>3, <4>2, TellsOn
      <4> QED BY <4>3 DEF Told
    <3> QED BY <3>2, <3>3 DEF PhoneInv, Told
  <2> QED BY <2>1, <2>2
<1> QED BY <1>4, <1>5, <1>6, <1>7 DEF PhoneInv

-----------------------------------------------------------------------------
(* The invariant, and what it shows. *)

LEMMA PhonesStart == Delivery!Init => PhoneInv
<1> SUFFICES ASSUME Delivery!Init PROVE PhoneInv
  OBVIOUS
<1>1. /\ policy \in [Policy -> [gone : {FALSE}, draft : {FALSE}, active : BOOLEAN,
                                rules : {0}, targets : SUBSET Unit, link : BOOLEAN]]
      /\ \A p \in Policy : OwnerOf[p] # Site => policy[p].targets = {}
  BY DEF Delivery!Init
<1>2. /\ chosen \in [Delivery!Place -> {NoPolicy} \cup {p \in Policy : OwnerOf[p] = Site}]
      /\ \A u \in Unit : chosen[u] = NoPolicy
  BY DEF Delivery!Init
<1>3. /\ preset \in [gone : {FALSE}, items : {PhoneApp}]
      /\ app = [a \in PhoneApp |-> FALSE]
      /\ device = [u \in Unit |-> [token |-> 0, working |-> TRUE,
                                   status |-> IF u \in Unset THEN "none" ELSE "ok"]]
      /\ shown = [u \in Unit |-> Delivery!Applied(u)]
      /\ task = [k \in Client |-> Delivery!Idle] /\ excepted = {}
  BY DEF Delivery!Init
<1>4. policy \in [Policy -> PolicyRow]
  <2>1. \A r \in [gone : {FALSE}, draft : {FALSE}, active : BOOLEAN, rules : {0},
                  targets : SUBSET Unit, link : BOOLEAN] : r \in PolicyRow
    <3>1. SUFFICES ASSUME NEW r \in [gone : {FALSE}, draft : {FALSE}, active : BOOLEAN,
                                     rules : {0}, targets : SUBSET Unit, link : BOOLEAN]
                   PROVE  r \in PolicyRow
      OBVIOUS
    <3>2. r = [gone |-> FALSE, draft |-> FALSE, active |-> r.active, rules |-> 0,
               targets |-> r.targets, link |-> r.link]
      OBVIOUS
    <3>3. r.active \in BOOLEAN /\ r.targets \in SUBSET Unit /\ r.link \in BOOLEAN
      OBVIOUS
    <3>4. ASSUME NEW a \in BOOLEAN, NEW units \in SUBSET Unit, NEW l \in BOOLEAN
          PROVE  [gone |-> FALSE, draft |-> FALSE, active |-> a, rules |-> 0,
                  targets |-> units, link |-> l] \in PolicyRow
      BY DEF PolicyRow
    <3> QED BY <3>2, <3>3, <3>4
  <2> QED BY <1>1, <2>1
<1>5. device \in [Unit -> PhoneRow]
  BY <1>3 DEF PhoneRow
<1>6. PhoneTypes
  BY <1>2, <1>3, <1>4, <1>5, IdleTask DEF PhoneTypes
<1>7. OwnersFit
  <2>1. \A p \in Policy : policy[p].targets \subseteq Delivery!UnitsOf(OwnerOf[p])
    BY <1>1 DEF Delivery!UnitsOf
  <2>2. \A o \in Delivery!Place :
           chosen[o] # NoPolicy => OwnerOf[chosen[o]] \in Delivery!Chain(o)
    BY <1>2 DEF Delivery!Place, Delivery!Chain
  <2>3. \A k \in Client : task[k].step = "idle"
    BY <1>3, IdleTask
  <2> QED BY <2>1, <2>2, <2>3 DEF OwnersFit
<1>8. TokensFit
  <2>1. \A k \in Client : task[k].step = "idle"
    BY <1>3, IdleTask
  <2>2. \A u \in Unit : device[u].token = 0
    BY <1>3
  <2> QED BY <2>1, <2>2 DEF TokensFit
<1>9. \A u \in Unit : Told(u)
  BY <1>3 DEF Told, Fresh
<1> QED BY <1>6, <1>7, <1>8, <1>9 DEF PhoneInv

LEMMA PhonesStep == PhoneInv /\ [Delivery!Next]_(Delivery!vars) => PhoneInv'
<1> SUFFICES ASSUME PhoneInv, [Delivery!Next]_(Delivery!vars) PROVE PhoneInv'
  OBVIOUS
<1>1. CASE UNCHANGED Delivery!vars
  <2>1. UNCHANGED <<policy, chosen, preset, app, device, shown, task, excepted>>
    BY <1>1 DEF Delivery!vars, Delivery!rows
  <2>2. PhoneTypes' /\ OwnersFit' /\ TokensFit'
    BY <2>1 DEF PhoneInv, PhoneTypes, OwnersFit, TokensFit
  <2>3. ASSUME NEW u \in Unit PROVE Told(u)'
    <3>1. /\ Delivery!Applied(u)' = Delivery!Applied(u)
          /\ \A p \in Policy : Has(p, u)' <=> Has(p, u)
          /\ \A p \in Policy : Uses(p, u)' <=> Uses(p, u)
      BY <2>1, RowsStay
    <3>2. CASE Fresh(u)
      BY <2>1, <3>1, <3>2 DEF Told, Fresh
    <3>3. ASSUME NEW d \in Client, Tells(d, u) PROVE Told(u)'
      <4>1. Tells(d, u)'
        BY <2>1, <3>1, <3>3, TellsOn
      <4> QED BY <4>1 DEF Told
    <3> QED BY <3>2, <3>3 DEF PhoneInv, Told
  <2> QED BY <2>2, <2>3 DEF PhoneInv
<1>2. ASSUME NEW k \in Client, NEW p \in Policy,
             \/ \E w \in Wants : Delivery!UpdateRead(k, p, w)
             \/ \E link \in BOOLEAN : Delivery!Assign(k, p, link)
      PROVE  PhoneInv'
  BY <1>2, UpdateReads, Assigns
<1>3. ASSUME NEW k \in Client, NEW ps \in SUBSET Policy,
             \/ \E on \in BOOLEAN : Delivery!SwitchRead(k, ps, on)
             \/ Delivery!RemoveRead(k, ps)
             \/ \E all \in BOOLEAN : Delivery!Force(k, ps, all)
      PROVE  PhoneInv'
  BY <1>3, SwitchReads, RemoveReads, Forces
<1>4. ASSUME NEW k \in Client, NEW o \in Delivery!Place, NEW x \in Policy \cup {NoPolicy, Keep},
             Delivery!SelectRead(k, o, x)
      PROVE  PhoneInv'
  BY <1>4, SelectReads
<1>5. ASSUME NEW k \in Client,
             \/ \E items \in SUBSET PhoneApp, how \in {"replaceApps", "addApps", "removeApps"} :
                   Delivery!ItemsRead(k, items, how)
             \/ \E a \in PhoneApp : \/ Delivery!ToggleGlobal(k, a)
                                    \/ \E value \in BOOLEAN : Delivery!UpdateApp(k, a, value)
      PROVE  PhoneInv'
  BY <1>5, ItemsReads, ToggleReads, AppReads DEF ItemStep
<1>6. ASSUME NEW k \in Client, NEW u \in Unit,
             \/ Delivery!Dismiss(k, u) \/ Delivery!Withdraw(k, u) \/ Delivery!Reinstate(k, u)
             \/ Delivery!Deliver(k, u) \/ Delivery!Refuse(k, u) \/ Delivery!Lose(k, u)
      PROVE  PhoneInv'
  BY <1>6, Leaves, Reinstates, Delivers
<1>7. ASSUME NEW k \in Client,
             \/ Delivery!UpdateWrite(k) \/ Delivery!UpdateTell(k) \/ Delivery!SwitchWrite(k)
             \/ Delivery!RemoveWrite(k) \/ Delivery!SelectWrite(k)
      PROVE  PhoneInv'
  BY <1>7, UpdateWrites, UpdateTells, SwitchWrites, RemoveWrites, SelectWrites
<1>8. ASSUME NEW k \in Client,
             \/ Delivery!ReplaceApps(k) \/ Delivery!AddApps(k) \/ Delivery!RemoveApps(k)
             \/ Delivery!DropRead(k) \/ Delivery!DropWrite(k) \/ Delivery!AppWrite(k)
             \/ Delivery!TellUsers(k) \/ Delivery!TellUsersOfApp(k)
      PROVE  PhoneInv'
  BY <1>8, ItemsWrites, DropReads, DropWrites, AppWrites, UsersTell
<1>9. ASSUME NEW k \in Client,
             \/ Delivery!TellDismissed(k) \/ Delivery!TellWithdrawn(k)
             \/ Delivery!Load(k) \/ Delivery!Mark(k)
      PROVE  PhoneInv'
  BY <1>9, LeftTold, Loads, Marks
<1>10. ASSUME NEW u \in Unit, Delivery!Register(u) PROVE PhoneInv'
  BY <1>10, Registers
<1> QED BY <1>1, <1>2, <1>3, <1>4, <1>5, <1>6, <1>7, <1>8, <1>9, <1>10 DEF Delivery!Next

LEMMA PhonesAlways == Delivery!Spec => []PhoneInv
BY PhonesStart, PhonesStep, PTL DEF Delivery!Spec

\* control-policies, organizations.service.ts, employees.service.ts: the units of a policy
\* are its owner's, a selection is of the place or above it, and no push goes to a token
\* that the device has not yet had.
THEOREM PhonesTyped == Delivery!Spec => []Delivery!TypeOK
<1>1. PhoneInv => Delivery!TypeOK
  BY DEF PhoneInv, PhoneTypes, OwnersFit, TokensFit, Delivery!TypeOK
<1> QED BY <1>1, PhonesAlways, PTL

\* policy_changed: however requests overlap, a phone shows what applies to its user, or a
\* request will still tell it, or its push failed, or a named limit leaves it out.
THEOREM PhonesToldTheirPolicy == Delivery!Spec => []Delivery!DevicesTold
<1>1. ASSUME PhoneInv, NEW u \in Unit, NEW k \in Client, Tells(k, u) PROVE Delivery!Owed(u)
  <2>1. CASE task[k].step \in {"updated", "tellPreset", "tellApp"}
    BY <2>1 DEF Delivery!Owed
  <2>2. CASE task[k].step \in {"dismiss", "withdraw"} /\ task[k].who = u
    BY <2>2 DEF Delivery!Owed
  <2>3. CASE /\ task[k].step = "push"
             /\ \/ \E p \in Policy, to \in SUBSET Unit :
                      <<p, to>> \in task[k].due /\ ((to = {} /\ Has(p, u)) \/ u \in to)
                \/ <<u, device[u].token>> \in task[k].todo
                \/ u \in task[k].failed
    <3>1. CASE <<u, device[u].token>> \in task[k].todo \/ u \in task[k].failed
      BY <2>3, <3>1 DEF Delivery!Owed
    <3>2. ASSUME NEW p \in Policy, NEW to \in SUBSET Unit, <<p, to>> \in task[k].due,
                 (to = {} /\ Has(p, u)) \/ u \in to
          PROVE  Delivery!Owed(u)
      <4> DEFINE d == <<p, to>>
      <4>1. d \in task[k].due
            /\ u \in IF d[2] = {} THEN Delivery!DispatchTargets(policy[d[1]], d[1]) ELSE d[2]
        BY <3>2 DEF Has
      <4> HIDE DEF d
      <4> QED BY <2>3, <4>1 DEF Delivery!Owed
    <3> QED BY <2>3, <3>1, <3>2
  <2> QED BY <1>1, <2>1, <2>2, <2>3 DEF Tells
<1>2. PhoneInv => Delivery!DevicesTold
  <2>1. SUFFICES ASSUME PhoneInv, NEW u \in Unit
                 PROVE  \/ shown[u] = Delivery!Applied(u)
                        \/ device[u].status = "error" \/ Delivery!Owed(u) \/ u \in excepted
                        \/ device[u].status = "none" /\ ~ device[u].working
    BY DEF Delivery!DevicesTold
  <2>2. Told(u)
    BY <2>1 DEF PhoneInv
  <2> QED BY <1>1, <2>1, <2>2 DEF Told, Fresh
<1> QED BY <1>2, PhonesAlways, PTL

-----------------------------------------------------------------------------
(* The services together. *)

\* Permissions and accounts, as AccessProofs has them.
AP == INSTANCE AccessProofs
    WITH Account <- Administrator, Request <- Client, MaxCalls <- MaxEdits

\* Every behaviour is one of each service: the others stand still.
LEMMA BoardsPart == Spec => Board!Spec
<1>1. Init => Board!Init
  BY DEF Init
<1>2. [Next]_vars => [Board!Next]_(Board!vars)
  BY DEF Next, vars, Board!vars, boardVars
<1> QED BY <1>1, <1>2, PTL DEF Spec, Board!Spec

LEMMA StatsPart == Spec => Stats!Spec
<1>1. Init => Stats!Init
  BY DEF Init
<1>2. [Next]_vars => [Stats!Next]_(Stats!vars)
  BY DEF Next, vars, Stats!vars, Stats!clockVars, Stats!processVars,
         Stats!factVars, Stats!rowVars, Stats!ghostVars, statVars
<1> QED BY <1>1, <1>2, PTL DEF Spec, Stats!Spec

LEMMA MetricsPart == Spec => Metrics!Spec
<1>1. Init => Metrics!Init
  BY DEF Init
<1>2. [Next]_vars => [Metrics!Next]_(Metrics!metricVars)
  BY DEF Next, vars, Metrics!metricVars, metricVars
<1> QED BY <1>1, <1>2, PTL DEF Spec, Metrics!Spec

LEMMA AccessPart == Spec => AP!Spec
<1>1. Init => AP!Init
  BY DEF Init,
      AP!Init, Authority!Init, AP!NoRole, Authority!NoRole, AP!NoAccount,
      Authority!NoAccount, AP!NoEdit, Authority!NoEdit, AP!NoRead, Authority!NoRead
<1>2. Authority!Next => AP!Next
  BY Zenon DEF
      AP!Place, Authority!Place, AP!Actor, Authority!Actor, AP!NoRole, Authority!NoRole,
      AP!DeletedRole, Authority!DeletedRole, AP!NoAccount, Authority!NoAccount,
      AP!DeletedAccount, Authority!DeletedAccount, AP!Exists, Authority!Exists,
      AP!RoleExists, Authority!RoleExists, AP!NoEdit, Authority!NoEdit, AP!NoRead,
      Authority!NoRead, AP!HomeOf, Authority!HomeOf, AP!CompanyCodes,
      Authority!CompanyCodes, AP!GroupCodes, Authority!GroupCodes, AP!Narrowed,
      Authority!Narrowed, AP!Effective, Authority!Effective, AP!Ceiling,
      Authority!Ceiling, AP!Manages, Authority!Manages, AP!Calling, Authority!Calling,
      AP!Switched, Authority!Switched, AP!UpdateCompanyManagerPermission,
      Authority!UpdateCompanyManagerPermission, AP!UpdateGroupManagerPermission,
      Authority!UpdateGroupManagerPermission, AP!CreateRole, Authority!CreateRole,
      AP!UpdateRole, Authority!UpdateRole, AP!DeleteRole, Authority!DeleteRole,
      AP!FindMine, Authority!FindMine, AP!ReadCompanyCodes, Authority!ReadCompanyCodes,
      AP!ReadGroupCodes, Authority!ReadGroupCodes, AP!ReadRole, Authority!ReadRole,
      AP!Answer, Authority!Answer, AP!Scope, Authority!Scope, AP!Manageable,
      Authority!Manageable, AP!Assignable, Authority!Assignable, AP!Create,
      Authority!Create, AP!Update, Authority!Update, AP!ToggleStatus,
      Authority!ToggleStatus, AP!UpdateData, Authority!UpdateData, AP!Write,
      Authority!Write, AP!Remove, Authority!Remove, AP!Allowed, Authority!Allowed,
      AP!Watch, Authority!Watch, AP!PermissionStep, Authority!PermissionStep,
      AP!AccountStep, Authority!AccountStep, AP!FindMineStep, Authority!FindMineStep,
      AP!Next, Authority!Next
<1>3. [Next]_vars => [AP!Next]_(AP!accessVars)
  BY <1>2 DEF Next, vars, AP!accessVars, accessVars
<1> QED BY <1>1, <1>3, PTL DEF Spec, AP!Spec

LEMMA SessionsPart == Spec => Sessions!Spec
<1>1. Init => Sessions!Init
  BY DEF Init
<1>2. [Next]_vars => [Sessions!Next]_(Sessions!sessionVars)
  BY DEF Next, vars, Sessions!sessionVars, sessionVars
<1> QED BY <1>1, <1>2, PTL DEF Spec, Sessions!Spec

LEMMA DeliveryPart == Spec => Delivery!Spec
<1>1. Init => Delivery!Init
  BY DEF Init
<1>2. [Next]_vars => [Delivery!Next]_(Delivery!vars)
  BY DEF Next, vars, Delivery!vars, Delivery!rows, phoneVars
<1> QED BY <1>1, <1>2, PTL DEF Spec, Delivery!Spec

LEMMA AppsPart == Spec => Apps!Spec
<1>1. Init => Apps!Init
  BY DEF Init
<1>2. [Next]_vars => [Apps!Next]_(Apps!catalogueVars)
  BY DEF Next, vars, Apps!catalogueVars, appVars
<1> QED BY <1>1, <1>2, PTL DEF Spec, Apps!Spec

LEMMA AuthorityTyped == Spec => []Authority!TypeOK
<1>1. AP!TypeOK => Authority!TypeOK
  BY DEF
      AP!TypeOK, Authority!TypeOK, AP!Place, Authority!Place, AP!Exists, Authority!Exists,
      AP!RoleExists, Authority!RoleExists
<1>2. AP!AccessAssumption
  BY AdministrationAssumption DEF Authority!AccessAssumption, AP!AccessAssumption
<1> QED BY <1>1, <1>2, AccessPart, AP!AccessTypes, PTL

\* permissions, accounts and sessions: whatever requests overlap, findMine answers with
\* what was granted, roles are held in groups of their company, the lists show whom
\* their reader manages, and no session outlives its bounds.
THEOREM AuthorityIsKept == Spec => []AuthorityHolds
<1>1. AP!CodesWithinCeiling /\ AP!RolesFit /\ AP!ListsAgree
      => Authority!CodesWithinCeiling /\ Authority!RolesFit /\ Authority!ListsAgree
  BY DEF
      AP!CodesWithinCeiling, Authority!CodesWithinCeiling, AP!RolesFit,
      Authority!RolesFit, AP!ListsAgree, Authority!ListsAgree, AP!Actor, Authority!Actor,
      AP!Listed, Authority!Listed, AP!Counted, Authority!Counted, AP!Manageable,
      Authority!Manageable, AP!Scope, Authority!Scope, AP!Exists, Authority!Exists,
      AP!Place, Authority!Place
<1>2. AP!AccessAssumption
  BY AdministrationAssumption DEF Authority!AccessAssumption, AP!AccessAssumption
<1>3. /\ Authority!CodesWithinCeiling /\ Authority!RolesFit /\ Authority!ListsAgree
      /\ Sessions!SessionsEnd
      => AuthorityHolds
  BY DEF AuthorityHolds
<1> QED BY <1>1, <1>2, <1>3, AccessPart, AP!CodesBetween, AP!RolesStayInCompany,
           AP!ListsFollowScope, SessionsPart, SessionsAreBounded, PTL

\* The request board: a save replaces the board its writer saw.
THEOREM BoardsAreRegisters == Spec => ImplementsRegister
BY BoardsPart, BoardImplementsRegister DEF ImplementsRegister

\* dashboard-reaggregate.scheduler.ts: a day whose nights were run agrees with its logs.
THEOREM NightsAreSettled == Spec => []NightSettles
<1>1. Stats!NightSettles => NightSettles
  BY DEF NightSettles
<1> QED BY <1>1, StatsPart, NightsSettle, PTL

\* What each of the services keeps is of its type, and its rows fit each other.
THEOREM AdministrationTyped == Spec => []TypeOK
<1>1. /\ Board!TypeOK /\ Stats!TypeOK /\ Metrics!TypeOK /\ Authority!TypeOK
      /\ Sessions!TypeOK /\ Delivery!TypeOK /\ Apps!TypeOK
      => TypeOK
  BY DEF TypeOK
<1> QED BY <1>1, BoardsPart, StatsPart, MetricsPart, SessionsPart, DeliveryPart, AppsPart,
           BoardTyped, StatsTyped, MetricsTyped, AuthorityTyped, SessionsTyped,
           PhonesTyped, CatalogueTyped, PTL

\* Whatever the tables hold the screens show the same numbers, scores that follow them,
\* and the apps that the catalogue holds.
THEOREM ScreensAlwaysAgree == Spec => []ScreensAgree
<1>1. /\ Stats!ScreensAgree /\ Metrics!RisksOrdered /\ Metrics!TrendsAgree
      /\ Apps!PackagesUnique /\ Apps!FiltersAgree /\ Apps!ReportedOnce
      => ScreensAgree
  BY DEF ScreensAgree
<1> QED BY <1>1, StatsPart, MetricsPart, AppsPart, ScreensShowTheSame, RisksFollowViolations,
           ArrowsAgree, PackagesOnce, FiltersShow, AppsReported, PTL

\* Every phone shows the policy that applies once the requests are done, but for failed
\* pushes and the named limits.
THEOREM DevicesAreTold == Spec => []DevicesTold
<1>1. Delivery!DevicesTold => DevicesTold
  BY DEF DevicesTold
<1> QED BY <1>1, DeliveryPart, PhonesToldTheirPolicy, PTL

================================================================================
