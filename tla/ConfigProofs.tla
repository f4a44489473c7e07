----------------------------- MODULE ConfigProofs -----------------------------
(***************************************************************************)
(* Proofs about Config: a Config that parse returns has a user and a       *)
(* database, a connection string that can be written, as key=value pairs   *)
(* or as a URI, is read back as it was meant, whatever the settings are,   *)
(* and the environment replaces only what is missing or is the default.    *)
(***************************************************************************)
EXTENDS Config, DataProofs

\* A Config as it is at any time: what has been assigned is valid.
IsConfig(c) ==
  /\ c = [f \in Fields |-> c[f]]
  /\ \A f \in Fields : c[f] = Unset \/ Valid(f, c[f])

Typed ==
  /\ stage \in {"idle", "split", "uri", "parts", "parsed", "failed", "filled"}
  /\ in_single \in BOOLEAN /\ in_double \in BOOLEAN
  /\ IsConfig(config)
  /\ stage = "parsed" => config.user # <<>> /\ config.dbname # <<>>

LEMMA EmptyValid == Valid("dbname", <<>>) /\ Valid("user", <<>>) /\ Valid("password", <<>>)
  BY DEF Valid, Has

LEMMA DefaultIs == IsConfig(Default)
  <1>1. Default = [f \in Fields |-> Default[f]]
    BY DEF Default, Fields
  <1>2. Valid("host", Default.host)
    BY DEF Default, Valid, Has, Bad
  <1>3. Valid("port", Default.port)
    BY DEF Default, Valid, Ports
  <1>4. Valid("user", Default.user) /\ Valid("password", Default.password)
    BY EmptyValid DEF Default
  <1>5. Valid("dbname", Default.dbname)
    BY DEF Default, Valid, Has, Bad
  <1>6. Valid("sslmode", Default.sslmode)
    BY DEF Default, Valid, SslModes
  <1>7. Default.application_name = Unset /\ Default.connect_timeout = Unset
    BY DEF Default
  <1>8. \A f \in Fields : Default[f] = Unset \/ Valid(f, Default[f])
    BY <1>2, <1>3, <1>4, <1>5, <1>6, <1>7 DEF Fields
  <1> QED
    BY <1>1, <1>8 DEF IsConfig

Assigned(c, f, value) == [c EXCEPT ![f] = value]

\* A field of a Config gets a value that is valid for it.
LEMMA AssignedIs ==
  ASSUME NEW c, IsConfig(c), NEW f \in Fields, NEW value, value = Unset \/ Valid(f, value)
  PROVE  /\ IsConfig(Assigned(c, f, value)) /\ Assigned(c, f, value)[f] = value
         /\ \A g \in Fields : g # f => Assigned(c, f, value)[g] = c[g]
  <1>1. PICK d : d = Assigned(c, f, value)
    OBVIOUS
  <1>2. d = [g \in Fields |-> IF g = f THEN value ELSE c[g]]
    BY <1>1 DEF IsConfig, Assigned
  <1>3. \A g \in Fields : d[g] = Unset \/ Valid(g, d[g])
    BY <1>2 DEF IsConfig
  <1>4. d = [g \in Fields |-> d[g]]
    BY <1>2
  <1> QED
    BY <1>1, <1>2, <1>3, <1>4 DEF IsConfig

LEMMA TypedInit == Init => Typed
  BY DefaultIs DEF Init, Typed

LEMMA CheckedTyped ==
  ASSUME Typed, Checked(config), UNCHANGED <<in_single, in_double>>
  PROVE  Typed'
  <1>1. "dbname" \in Fields /\ "user" \in Fields /\ "dbname" # "user"
    BY DEF Fields
  <1>2. CASE config.user = <<>>
    BY <1>2 DEF Checked, Typed
  <1>3. CASE config.user # <<>> /\ config.dbname # <<>>
    BY <1>3 DEF Checked, Typed
  <1>4. CASE config.user # <<>> /\ config.dbname = <<>>
    <2>1. PICK value : value = Default.dbname
      OBVIOUS
    <2>2. value # <<>> /\ Valid("dbname", value)
      BY <2>1 DEF Default, Valid, Has, Bad
    <2>3. config' = [config EXCEPT !["dbname"] = value] /\ stage' = "parsed"
      BY <1>4, <2>1 DEF Checked
    <2>4. IsConfig(config') /\ config'["dbname"] = value /\ config'["user"] = config["user"]
      <3>1. PICK f \in Fields : f = "dbname"
        BY <1>1
      <3>2. IsConfig(config) /\ Valid(f, value)
        BY <2>2, <3>1 DEF Typed
      <3>3. PICK d : d = Assigned(config, f, value)
        OBVIOUS
      <3>4. IsConfig(d) /\ d[f] = value /\ \A g \in Fields : g # f => d[g] = config[g]
        BY <3>2, <3>3, AssignedIs
      <3>5. config' = d
        BY <2>3, <3>1, <3>3 DEF Assigned
      <3> QED
        BY <1>1, <3>1, <3>4, <3>5
    <2> QED
      BY <1>4, <2>2, <2>3, <2>4 DEF Typed
  <1> QED
    BY <1>2, <1>3, <1>4

LEMMA TypedNext == Typed /\ [Next]_vars => Typed'
  <1> SUFFICES ASSUME Typed, [Next]_vars PROVE Typed'
    OBVIOUS
  <1>1. CASE Call
    BY <1>1 DEF Call, CallDsn, CallUri, Typed
  <1>2. CASE ParseUri
    BY <1>2 DEF ParseUri, Typed
  <1>3. CASE SplitChar
    <2>1. in_single' \in BOOLEAN /\ in_double' \in BOOLEAN
      BY <1>3 DEF SplitChar
    <2>2. stage' = stage /\ stage = "split" /\ config' = config
      BY <1>3 DEF SplitChar
    <2> QED
      BY <2>1, <2>2 DEF Typed
  <1>4. CASE SplitDone
    <2>1. config' = [config EXCEPT !["dbname"] = <<>>]
      BY <1>4 DEF SplitDone
    <2>2. "dbname" \in Fields
      BY DEF Fields
    <2>3. IsConfig(config')
      BY <2>1, <2>2, EmptyValid, AssignedIs DEF Typed, Assigned
    <2>4. stage' = "parts" /\ in_single' = in_single /\ in_double' = in_double
      BY <1>4 DEF SplitDone
    <2> QED
      BY <2>3, <2>4 DEF Typed
  <1>5. CASE ParsePart
    <2>1. in_single' = in_single /\ in_double' = in_double /\ stage = "parts"
      BY <1>5 DEF ParsePart
    <2>2. CASE stage' \in {"parts", "failed"} /\ config' = config
      BY <2>1, <2>2 DEF Typed
    <2>3. ASSUME NEW f \in Fields, NEW value, Valid(f, value), config' = [config EXCEPT ![f] = value],
                 stage' = stage
          PROVE  Typed'
      <3>1. IsConfig(config')
        BY <2>3, AssignedIs DEF Typed, Assigned
      <3> QED
        BY <2>1, <2>3, <3>1 DEF Typed
    <2>4. PICK key, value : key = Trimmed(Before(Head(parts), "=")) /\ value = After(Head(parts), "=")
      OBVIOUS
    <2>5. CASE Has(Head(parts), "=") /\ key \in {<<f>> : f \in Fields}
      <3>1. PICK f \in Fields : key = <<f>>
        BY <2>5
      <3>2. key[1] = f
        BY <3>1
      <3>3. CASE Valid(f, value)
        <4>1. config' = [config EXCEPT ![f] = value] /\ stage' = stage
          BY <1>5, <2>4, <2>5, <3>2, <3>3 DEF ParsePart
        <4> QED
          BY <2>3, <3>3, <4>1
      <3>4. CASE ~Valid(f, value)
        <4>1. config' = config /\ stage' = "failed"
          BY <1>5, <2>4, <2>5, <3>2, <3>4 DEF ParsePart
        <4> QED
          BY <2>2, <4>1
      <3> QED
        BY <3>3, <3>4
    <2>6. CASE ~(Has(Head(parts), "=") /\ key \in {<<f>> : f \in Fields})
      <3>1. config' = config /\ stage' = stage
        BY <1>5, <2>4, <2>6 DEF ParsePart
      <3> QED
        BY <2>1, <2>2, <3>1
    <2> QED
      BY <2>5, <2>6
  <1>6. CASE PartsDone
    BY <1>6, CheckedTyped DEF PartsDone
  <1>7. ASSUME NEW e \in Envs, ApplyEnv(e) PROVE Typed'
    <2>1. config' = [f \in Fields |-> IF config[f] = Default[f] /\ e[f] # Unset /\ Valid(f, e[f]) THEN e[f]
                                                                                               ELSE config[f]]
      BY <1>7 DEF ApplyEnv
    <2>2. \A f \in Fields : config'[f] = Unset \/ Valid(f, config'[f])
      BY <2>1 DEF Typed, IsConfig
    <2>3. config' = [f \in Fields |-> config'[f]]
      BY <2>1
    <2>4. stage' = "filled" /\ in_single' = in_single /\ in_double' = in_double
      BY <1>7 DEF ApplyEnv
    <2> QED
      BY <2>2, <2>3, <2>4 DEF Typed, IsConfig
  <1>8. CASE UNCHANGED vars
    BY <1>8 DEF vars, Typed
  <1> QED
    BY <1>1, <1>2, <1>3, <1>4, <1>5, <1>6, <1>7, <1>8 DEF Next

LEMMA TypedRight == Typed => TypeOK
  <1> SUFFICES ASSUME Typed PROVE TypeOK
    OBVIOUS
  <1>1. DOMAIN config = Fields
    BY DEF Typed, IsConfig
  <1> QED
    BY <1>1 DEF Typed, IsConfig, TypeOK

\* A Config that parse returns has a user and a database, and, with apply_env too, a port
\* that fits 16 bits, a timeout and an sslmode that exist: for every connection string and
\* every environment (src/config.rs:50-93 and 95-239).
THEOREM ConfigTypeCorrect == Spec => []TypeOK
  BY TypedInit, TypedNext, TypedRight, PTL DEF Spec

-----------------------------------------------------------------------------
(* Texts *)

\* What the texts of connection strings consist of.
Alphabet ==
  Chars \cup Keys \cup {"=", Blank, Single, Double}
    \cup {":", "@", "/", "?", "&", "%", "A~", "(c)"} \cup HexDigits

LEMMA KeyIs ==
  ASSUME NEW key \in Keys
  PROVE  key \in Alphabet /\ key # "=" /\ key # Blank /\ key # Single /\ key # Double /\ key # Tab
  <1>1. key \in Alphabet
    BY DEF Alphabet
  <1>2. key # "=" /\ key # Single
    BY DEF Keys, Fields, Single
  <1>3. key # Blank
    BY Zenon DEF Keys, Fields, Blank
  <1>4. key # Double
    BY Zenon DEF Keys, Fields, Double
  <1>5. key # Tab
    BY Zenon DEF Keys, Fields, Tab
  <1> QED
    BY <1>1, <1>2, <1>3, <1>4, <1>5

\* Nothing is trimmed from a key.
LEMMA TrimmedKey ==
  ASSUME NEW key \in Keys
  PROVE  Trimmed(<<key>>) = <<key>>
  <1>1. PICK t : t = <<key>>
    OBVIOUS
  <1>2. t \in Seq(Keys) /\ Len(t) = 1 /\ DOMAIN t = {1} /\ t[1] = key
    BY <1>1
  <1>3. {k \in DOMAIN t : t[k] \notin {Blank, Tab}} = {1}
    BY <1>2, KeyIs
  <1>4. Trimmed(t) = SubSeq(t, Min({1}), Max({1}))
    BY <1>3 DEF Trimmed
  <1>5. Min({1}) = 1 /\ Max({1}) = 1
    BY DEF Min, Max
  <1>6. SubSeq(t, 1, 1) = <<key>>
    <2>1. Len(SubSeq(t, 1, 1)) = 1 /\ SubSeq(t, 1, 1)[1] = t[1] /\ SubSeq(t, 1, 1) \in Seq(Keys)
      BY <1>2
    <2>2. \A u \in Seq(Keys) : Len(u) = 1 => u = <<u[1]>>
      OBVIOUS
    <2> QED
      BY <1>2, <2>1, <2>2
  <1> QED
    BY <1>1, <1>4, <1>5, <1>6

LEMMA MarksDiffer ==
  /\ Blank # "=" /\ Single # "=" /\ Double # "="
  /\ Blank # Single /\ Blank # Double /\ Single # Double
  BY Zenon DEF Blank, Single, Double

LEMMA CharsIn ==
  ASSUME NEW v \in Seq(Chars)
  PROVE  v \in Seq(Alphabet)
  <1>1. Chars \subseteq Alphabet
    BY DEF Alphabet
  <1> QED
    BY <1>1, SeqMonotonic

\* The parts of a text before and after the "=" that follows its first symbol.
Keyed(key, t) == <<key, "=">> \o t

LEMMA KeyedIs ==
  ASSUME NEW key \in Keys, NEW t \in Seq(Alphabet), NEW p, p = Keyed(key, t)
  PROVE  /\ p \in Seq(Alphabet) /\ Len(p) = Len(t) + 2 /\ p[1] = key /\ p[2] = "="
         /\ \A j \in 1..Len(t) : p[j + 2] = t[j]
         /\ Has(p, "=") /\ Before(p, "=") = <<key>> /\ After(p, "=") = t
  <1>1. PICK two : two = <<key, "=">>
    OBVIOUS
  <1>2. two \in Seq(Alphabet) /\ Len(two) = 2 /\ two[1] = key /\ two[2] = "="
    <2>1. key \in Alphabet /\ "=" \in Alphabet
      BY KeyIs DEF Alphabet
    <2> QED
      BY <1>1, <2>1
  <1>3. PICK n \in Nat : n = Len(t)
    BY LenProperties
  <1>4. PICK s : s = two \o t
    OBVIOUS
  <1>5. p = s
    BY <1>1, <1>4 DEF Keyed
  <1>6. /\ s \in Seq(Alphabet) /\ Len(s) = Len(two) + Len(t)
        /\ \A j \in 1..Len(two) + Len(t) : s[j] = IF j <= Len(two) THEN two[j] ELSE t[j - Len(two)]
    <2>1. two \in Seq(Alphabet)
      BY <1>2
    <2> QED
      BY <1>4, <2>1, ConcatProperties
  <1>7. Len(s) = n + 2 /\ \A j \in 1..n + 2 : s[j] = IF j <= 2 THEN two[j] ELSE t[j - 2]
    BY <1>2, <1>3, <1>6
  <1>8. s[1] = key /\ s[2] = "="
    <2>1. 1 \in 1..n + 2 /\ 2 \in 1..n + 2
      OBVIOUS
    <2> QED
      BY <1>2, <1>7, <2>1
  <1>9. \A j \in 1..n : s[j + 2] = t[j]
    <2> SUFFICES ASSUME NEW j \in 1..n PROVE s[j + 2] = t[j]
      OBVIOUS
    <2>1. j + 2 \in 1..n + 2 /\ ~(j + 2 <= 2) /\ (j + 2) - 2 = j
      OBVIOUS
    <2> QED
      BY <1>7, <2>1
  <1>10. DOMAIN s = 1..n + 2
    BY <1>6, <1>7
  <1>11. Has(s, "=")
    <2>1. 2 \in DOMAIN s
      BY <1>10
    <2> QED
      BY <1>8, <2>1 DEF Has
  <1>12. Find(s, "=") = 2
    <2> DEFINE First(k) == s[k] = "=" /\ \A j \in 1..k - 1 : s[j] # "="
    <2>1. s[1] # "="
      BY <1>8, KeyIs
    <2>2. First(2) /\ 2 \in DOMAIN s
      <3>1. \A j \in 1..2 - 1 : j = 1
        OBVIOUS
      <3>2. \A j \in 1..2 - 1 : s[j] # "="
        BY <2>1, <3>1
      <3> QED
        BY <1>8, <1>10, <3>2
    <2>3. ASSUME NEW k \in DOMAIN s, First(k) PROVE k = 2
      <3>1. k # 1
        BY <2>1, <2>3
      <3>2. CASE k > 2
        <4>1. 2 \in 1..k - 1
          BY <1>10, <3>2
        <4> QED
          BY <1>8, <2>3, <4>1
      <3> QED
        BY <1>10, <3>1, <3>2
    <2>4. Find(s, "=") = CHOOSE k \in DOMAIN s : First(k)
      BY DEF Find
    <2> HIDE DEF First
    <2> QED
      BY <2>2, <2>3, <2>4
  <1>13. Before(s, "=") = <<key>>
    <2>1. Before(s, "=") = SubSeq(s, 1, 2 - 1)
      BY <1>11, <1>12 DEF Before
    <2>2. PICK u : u = SubSeq(s, 1, 1)
      OBVIOUS
    <2>3. \A k \in 1..1 : s[k] \in Alphabet
      <3>1. \A k \in 1..1 : k \in 1..n + 2
        OBVIOUS
      <3> QED
        BY <1>6, <1>10, <3>1
    <2>4. /\ u \in Seq(Alphabet)
          /\ Len(u) = IF 1 <= 1 THEN 1 - 1 + 1 ELSE 0
          /\ \A j \in 1..1 - 1 + 1 : u[j] = s[1 + j - 1]
      BY <2>2, <2>3, SubSeqProperties
    <2>5. Len(u) = 1 /\ u[1] = key
      <3>1. 1 \in 1..1 - 1 + 1 /\ 1 + 1 - 1 = 1
        OBVIOUS
      <3> QED
        BY <1>8, <2>4, <3>1
    <2>6. u = <<key>>
      BY <2>4, <2>5
    <2> QED
      BY <2>1, <2>2, <2>6
  <1>14. After(s, "=") = t
    <2>1. After(s, "=") = SubSeq(s, 2 + 1, Len(s))
      BY <1>11, <1>12 DEF After
    <2>2. After(s, "=") = Rest(s, Len(two))
      BY <1>2, <2>1 DEF Rest
    <2>3. two \in Seq(Alphabet)
      BY <1>2
    <2> QED
      BY <1>4, <2>2, <2>3, RestConcat
  <1> QED
    BY <1>3, <1>5, <1>6, <1>7, <1>8, <1>9, <1>11, <1>13, <1>14

\* A setting whose value can be written in its style.
IsSetting(s) == s \in [key : Keys, value : Seq(Chars), style : Quotes]

Writable(s) ==
  /\ s.style = "bare" => \A j \in 1..Len(s.value) : s.value[j] \notin {Blank, Single, Double}
  /\ s.style = "single" => \A j \in 1..Len(s.value) : s.value[j] # Single
  /\ s.style = "double" => \A j \in 1..Len(s.value) : s.value[j] # Double

Mark(s) == IF s.style = "single" THEN Single ELSE Double

\* A quoted text.
Marked(m, v) == <<m>> \o v \o <<m>>

IsMarked(t, m, v) ==
  /\ t \in Seq(Alphabet) /\ Len(t) = Len(v) + 2
  /\ t[1] = m /\ t[Len(v) + 2] = m /\ \A j \in 1..Len(v) : t[j + 1] = v[j]
  /\ SubSeq(t, 2, Len(v) + 1) = v

LEMMA MarkedIs ==
  ASSUME NEW m \in Alphabet, NEW v \in Seq(Alphabet)
  PROVE  IsMarked(Marked(m, v), m, v)
  <1>1. PICK one : one = <<m>>
    OBVIOUS
  <1>2. one \in Seq(Alphabet) /\ Len(one) = 1 /\ one[1] = m
    BY <1>1
  <1>3. PICK n \in Nat : n = Len(v)
    BY LenProperties
  <1>4. PICK left : left = one \o v
    OBVIOUS
  <1>5. /\ left \in Seq(Alphabet) /\ Len(left) = Len(one) + Len(v)
        /\ \A j \in 1..Len(one) + Len(v) : left[j] = IF j <= Len(one) THEN one[j] ELSE v[j - Len(one)]
    <2>1. one \in Seq(Alphabet)
      BY <1>2
    <2> QED
      BY <1>4, <2>1, ConcatProperties
  <1>6. PICK all : all = left \o one
    OBVIOUS
  <1>7. /\ all \in Seq(Alphabet) /\ Len(all) = Len(left) + Len(one)
        /\ \A j \in 1..Len(left) + Len(one) : all[j] = IF j <= Len(left) THEN left[j] ELSE one[j - Len(left)]
    <2>1. one \in Seq(Alphabet) /\ left \in Seq(Alphabet)
      BY <1>2, <1>5
    <2> QED
      BY <1>6, <2>1, ConcatProperties
  <1>8. Marked(m, v) = all
    BY <1>1, <1>4, <1>6 DEF Marked
  <1>9. Len(left) = n + 1 /\ \A j \in 1..n + 1 : left[j] = IF j <= 1 THEN one[j] ELSE v[j - 1]
    BY <1>2, <1>3, <1>5
  <1>10. Len(all) = n + 2 /\ \A j \in 1..n + 2 : all[j] = IF j <= n + 1 THEN left[j] ELSE one[j - (n + 1)]
    BY <1>2, <1>7, <1>9
  <1>11. all[1] = m
    <2>1. 1 \in 1..n + 2 /\ 1 <= n + 1 /\ 1 \in 1..n + 1
      OBVIOUS
    <2> QED
      BY <1>2, <1>9, <1>10, <2>1
  <1>12. all[n + 2] = m
    <2>1. n + 2 \in 1..n + 2 /\ ~(n + 2 <= n + 1) /\ (n + 2) - (n + 1) = 1
      OBVIOUS
    <2> QED
      BY <1>2, <1>10, <2>1
  <1>13. \A j \in 1..n : all[j + 1] = v[j]
    <2> SUFFICES ASSUME NEW j \in 1..n PROVE all[j + 1] = v[j]
      OBVIOUS
    <2>1. j + 1 \in 1..n + 2 /\ j + 1 <= n + 1 /\ j + 1 \in 1..n + 1 /\ ~(j + 1 <= 1) /\ (j + 1) - 1 = j
      OBVIOUS
    <2>2. all[j + 1] = left[j + 1]
      BY <1>10, <2>1
    <2>3. left[j + 1] = v[j]
      BY <1>9, <2>1
    <2> QED
      BY <2>2, <2>3
  <1>14. SubSeq(all, 2, n + 1) = v
    <2>1. PICK y \in Int : y = n + 1
      OBVIOUS
    <2>9. PICK x \in Int : x = 2
      OBVIOUS
    <2>8. PICK u : u = SubSeq(all, x, y)
      OBVIOUS
    <2>2. \A k \in x..y : all[k] \in Alphabet
      <3> SUFFICES ASSUME NEW k \in x..y PROVE all[k] \in Alphabet
        OBVIOUS
      <3>1. k \in 1..Len(all)
        BY <1>10, <2>1, <2>9
      <3>2. all \in Seq(Alphabet)
        BY <1>7
      <3> QED
        BY <3>1, <3>2, ElementOfSeq
    <2>3. /\ u \in Seq(Alphabet)
          /\ Len(u) = IF x <= y THEN y - x + 1 ELSE 0
          /\ \A j \in 1..y - x + 1 : u[j] = all[x + j - 1]
      BY <2>2, <2>8, SubSeqProperties
    <2>4. y - x + 1 = n /\ (x <= y \/ n = 0)
      BY <2>1, <2>9
    <2>5. Len(u) = n
      BY <2>3, <2>4
    <2>6. \A j \in 1..n : u[j] = v[j]
      <3> SUFFICES ASSUME NEW j \in 1..n PROVE u[j] = v[j]
        OBVIOUS
      <3>1. j \in 1..y - x + 1 /\ x + j - 1 = j + 1
        BY <2>4, <2>9
      <3>2. u[j] = all[j + 1]
        BY <2>3, <3>1
      <3> QED
        BY <1>13, <3>2
    <2>7. u = v
      BY <1>3, <2>3, <2>5, <2>6, SeqEqual
    <2> QED
      BY <2>1, <2>7, <2>8, <2>9
  <1> QED
    BY <1>3, <1>7, <1>8, <1>10, <1>11, <1>12, <1>13, <1>14 DEF IsMarked

\* What follows the "=" of a pair.
Body(s) == IF s.style = "bare" THEN s.value ELSE Marked(Mark(s), s.value)

LEMMA SettingIs ==
  ASSUME NEW s, IsSetting(s)
  PROVE  /\ s.key \in Keys /\ s.value \in Seq(Chars) /\ s.value \in Seq(Alphabet)
         /\ s.style = "bare" \/ s.style = "single" \/ s.style = "double"
         /\ Mark(s) \in Alphabet
  <1>1. s.key \in Keys /\ s.value \in Seq(Chars)
    BY DEF IsSetting
  <1>2. s.style = "bare" \/ s.style = "single" \/ s.style = "double"
    BY DEF IsSetting, Quotes
  <1>3. Mark(s) \in Alphabet
    BY DEF Mark, Alphabet
  <1> QED
    BY <1>1, <1>2, <1>3, CharsIn

LEMMA PairIs ==
  ASSUME NEW s, IsSetting(s)
  PROVE  WritePair(s) = Keyed(s.key, Body(s)) /\ Body(s) \in Seq(Alphabet)
  <1>1. PICK key \in Keys, v \in Seq(Alphabet), m \in Alphabet : key = s.key /\ v = s.value /\ m = Mark(s)
    BY SettingIs
  <1>2. PICK two \in Seq(Alphabet) : two = <<key, "=">>
    <2>1. PICK eq : eq = "="
      OBVIOUS
    <2>2. key \in Alphabet /\ eq \in Alphabet
      BY <2>1, KeyIs DEF Alphabet
    <2>3. <<key, eq>> \in Seq(Alphabet)
      BY <2>2
    <2> QED
      BY <2>1, <2>3
  <1>3. CASE s.style = "bare"
    <2>1. PICK q : q = <<>>
      OBVIOUS
    <2>2. WritePair(s) = two \o q \o v \o q
      BY <1>1, <1>2, <1>3, <2>1 DEF WritePair
    <2>3. two \o q = two
      BY <2>1, ConcatEmptySeq
    <2>4. two \o v \in Seq(Alphabet)
      BY ConcatProperties
    <2>5. (two \o v) \o q = two \o v
      BY <2>1, <2>4, ConcatEmptySeq
    <2>6. WritePair(s) = two \o v
      BY <2>2, <2>3, <2>5
    <2>7. Body(s) = v
      BY <1>1, <1>3 DEF Body
    <2> QED
      BY <1>1, <1>2, <2>6, <2>7 DEF Keyed
  <1>4. CASE s.style # "bare"
    <2>1. PICK q \in Seq(Alphabet) : q = <<m>>
      <3>1. <<m>> \in Seq(Alphabet)
        OBVIOUS
      <3> QED
        BY <3>1
    <2>2. WritePair(s) = two \o q \o v \o q
      <3>1. s.style = "single" \/ s.style = "double"
        BY <1>4, SettingIs
      <3>2. CASE s.style = "single"
        BY <1>1, <1>2, <2>1, <3>2 DEF WritePair, Mark
      <3>3. CASE s.style = "double"
        BY <1>1, <1>2, <2>1, <3>3 DEF WritePair, Mark
      <3> QED
        BY <3>1, <3>2, <3>3
    <2>3. (two \o q) \o v = two \o (q \o v)
      <3>1. Joins(two, q, v)
        BY JoinsAlike
      <3> QED
        BY <3>1 DEF Joins
    <2>4. PICK t \in Seq(Alphabet) : t = q \o v
      <3>1. q \o v \in Seq(Alphabet)
        BY ConcatProperties
      <3> QED
        BY <3>1
    <2>5. (two \o t) \o q = two \o (t \o q)
      <3>1. Joins(two, t, q)
        BY JoinsAlike
      <3> QED
        BY <3>1 DEF Joins
    <2>6. t \o q \in Seq(Alphabet)
      BY ConcatProperties
    <2>7. Body(s) = t \o q
      BY <1>1, <1>4, <2>1, <2>4 DEF Body, Marked
    <2>8. WritePair(s) = two \o (t \o q)
      BY <2>2, <2>3, <2>4, <2>5
    <2> QED
      BY <1>1, <1>2, <2>6, <2>7, <2>8 DEF Keyed
  <1> QED
    BY <1>3, <1>4

LEMMA BodyMarked ==
  ASSUME NEW s, IsSetting(s), s.style # "bare", NEW l, l = Len(s.value)
  PROVE  /\ l \in Nat /\ Body(s) \in Seq(Alphabet) /\ Len(Body(s)) = l + 2
         /\ Body(s)[1] = Mark(s) /\ Body(s)[l + 2] = Mark(s)
         /\ \A j \in 1..l : Body(s)[j + 1] = s.value[j]
         /\ SubSeq(Body(s), 2, l + 1) = s.value
  <1>1. PICK m \in Alphabet, v \in Seq(Alphabet) : m = Mark(s) /\ v = s.value
    BY SettingIs
  <1>2. PICK t : t = Marked(m, v)
    OBVIOUS
  <1>3. Body(s) = t
    BY <1>1, <1>2 DEF Body
  <1>4. /\ t \in Seq(Alphabet) /\ Len(t) = Len(v) + 2
        /\ t[1] = m /\ t[Len(v) + 2] = m /\ \A j \in 1..Len(v) : t[j + 1] = v[j]
        /\ SubSeq(t, 2, Len(v) + 1) = v
    <2>1. IsMarked(Marked(m, v), m, v)
      BY MarkedIs
    <2> QED
      BY <1>2, <2>1 DEF IsMarked
  <1>5. Len(v) \in Nat
    BY LenProperties
  <1> QED
    BY <1>1, <1>3, <1>4, <1>5

\* The quotes of a value are removed, and nothing else.
LEMMA BodyStripped ==
  ASSUME NEW s, IsSetting(s), Writable(s)
  PROVE  Stripped(Body(s)) = s.value
  <1>1. PICK v \in Seq(Alphabet), l \in Nat : v = s.value /\ l = Len(v)
    BY SettingIs, LenProperties
  <1>2. CASE s.style = "bare"
    <2>1. Body(s) = v
      BY <1>1, <1>2 DEF Body
    <2>2. CASE l >= 2
      <3>1. 1 \in 1..l
        BY <2>2
      <3>2. v[1] \notin {Single, Double}
        BY <1>1, <1>2, <3>1 DEF Writable
      <3> QED
        BY <1>1, <2>1, <3>2 DEF Stripped
    <2>3. CASE ~(l >= 2)
      BY <1>1, <2>1, <2>3 DEF Stripped
    <2> QED
      BY <2>2, <2>3
  <1>3. CASE s.style # "bare"
    <2>1. PICK t : t = Body(s)
      OBVIOUS
    <2>2. /\ Len(t) = l + 2 /\ t[1] = Mark(s) /\ t[l + 2] = Mark(s)
          /\ SubSeq(t, 2, l + 1) = v
      BY <1>1, <1>3, <2>1, BodyMarked
    <2>3. Len(t) >= 2 /\ Len(t) - 1 = l + 1
      BY <2>2
    <2>4. t[1] = Last(t) /\ t[1] \in {Single, Double}
      BY <2>2 DEF Last, Mark
    <2>5. Stripped(t) = SubSeq(t, 2, Len(t) - 1)
      BY <2>3, <2>4 DEF Stripped
    <2> QED
      BY <1>1, <2>1, <2>2, <2>3, <2>5
  <1> QED
    BY <1>2, <1>3

\* Inside the quotes of a pair of which j symbols have been read.
Inside(s, j)  == s.style # "bare" /\ 3 <= j /\ j < Len(WritePair(s))
InSingle(s, j) == s.style = "single" /\ Inside(s, j)
InDouble(s, j) == s.style = "double" /\ Inside(s, j)

Turns(s, j, ch) ==
  /\ ch = Blank => InSingle(s, j) \/ InDouble(s, j)
  /\ InSingle(s, j + 1) <=> ~(InSingle(s, j) <=> (ch = Single /\ ~InDouble(s, j)))
  /\ InDouble(s, j + 1) <=> ~(InDouble(s, j) <=> (ch = Double /\ ~InSingle(s, j)))

\* The loop enters and leaves the quotes where they are.
LEMMA PairTurns ==
  ASSUME NEW s, IsSetting(s), Writable(s), NEW p, p = WritePair(s), NEW j \in Nat, j < Len(p)
  PROVE  Turns(s, j, p[j + 1])
  <1>1. PICK b \in Seq(Alphabet), key \in Keys : b = Body(s) /\ key = s.key
    BY PairIs, SettingIs
  <1>2. PICK n \in Nat : n = Len(b)
    BY LenProperties
  <1>3. p = Keyed(key, b)
    BY <1>1, PairIs
  <1>4. Len(p) = n + 2 /\ p[1] = key /\ p[2] = "=" /\ \A k \in 1..n : p[k + 2] = b[k]
    BY <1>2, <1>3, KeyedIs
  <1>5. PICK v \in Seq(Alphabet), l \in Nat : v = s.value /\ l = Len(v)
    BY SettingIs, LenProperties
  <1>6. PICK ch : ch = p[j + 1]
    OBVIOUS
  <1>7. \A k \in Nat : Inside(s, k) <=> s.style # "bare" /\ 3 <= k /\ k < n + 2
    BY <1>4 DEF Inside
  <1>8. CASE j < 2
    <2>1. ch # Blank /\ ch # Single /\ ch # Double
      <3>1. CASE j = 0
        <4>1. j + 1 = 1
          BY <3>1
        <4> QED
          BY <1>4, <1>6, <4>1, KeyIs
      <3>2. CASE j = 1
        <4>1. j + 1 = 2
          BY <3>2
        <4> QED
          BY <1>4, <1>6, <4>1, MarksDiffer
      <3> QED
        BY <1>8, <3>1, <3>2
    <2>2. ~Inside(s, j) /\ ~Inside(s, j + 1)
      BY <1>7, <1>8
    <2> QED
      BY <1>6, <2>1, <2>2 DEF Turns, InSingle, InDouble
  <1>9. CASE ~(j < 2)
    <2>1. PICK k \in 1..n : k = j - 1
      BY <1>4, <1>9
    <2>2. ch = b[k]
      <3>1. p[k + 2] = b[k] /\ k + 2 = j + 1
        BY <1>4, <2>1
      <3> QED
        BY <1>6, <3>1
    <2>3. CASE s.style = "bare"
      <3>1. b = v
        BY <1>1, <1>5, <2>3 DEF Body
      <3>2. ch # Blank /\ ch # Single /\ ch # Double
        BY <1>2, <1>5, <2>1, <2>2, <2>3, <3>1 DEF Writable
      <3>3. ~Inside(s, j) /\ ~Inside(s, j + 1)
        BY <2>3 DEF Inside
      <3> QED
        BY <1>6, <3>2, <3>3 DEF Turns, InSingle, InDouble
    <2>4. CASE s.style # "bare"
      <3>1. PICK m : m = Mark(s)
        OBVIOUS
      <3>2. n = l + 2 /\ b[1] = m /\ b[l + 2] = m /\ \A i \in 1..l : b[i + 1] = v[i]
        BY <1>1, <1>2, <1>5, <2>4, <3>1, BodyMarked
      <3>3. Inside(s, j) <=> 1 < k
        BY <1>7, <2>1, <2>4
      <3>4. Inside(s, j + 1) <=> k < n
        BY <1>7, <2>1, <2>4
      <3>5. ch = m <=> k = 1 \/ k = n
        <4>1. CASE k = 1 \/ k = n
          BY <2>2, <3>2, <4>1
        <4>2. CASE ~(k = 1 \/ k = n)
          <5>1. PICK i \in 1..l : i = k - 1
            BY <2>1, <3>2, <4>2
          <5>2. ch = v[i]
            <6>1. b[i + 1] = v[i] /\ i + 1 = k
              BY <2>1, <3>2, <5>1
            <6> QED
              BY <2>2, <6>1
          <5>3. v[i] # m
            BY <1>5, <2>4, <3>1, SettingIs, MarksDiffer DEF Writable, Mark
          <5> QED
            BY <4>2, <5>2, <5>3
        <4> QED
          BY <4>1, <4>2
      <3>6. k = 1 => n > 1
        BY <3>2
      <3>7. CASE s.style = "single"
        <4>1. m = Single
          BY <3>1, <3>7 DEF Mark
        <4>2. ch = Blank => 1 < k
          BY <2>1, <3>5, <4>1, MarksDiffer
        <4>3. InSingle(s, j) <=> 1 < k
          BY <3>3, <3>7 DEF InSingle
        <4>4. InSingle(s, j + 1) <=> k < n
          BY <3>4, <3>7 DEF InSingle
        <4>5. ~InDouble(s, j) /\ ~InDouble(s, j + 1)
          BY <3>7 DEF InDouble
        <4>6. ch = Double => 1 < k
          BY <2>1, <3>5, <4>1, MarksDiffer
        <4>7. (k < n) <=> ~((1 < k) <=> (k = 1 \/ k = n))
          BY <2>1, <3>6
        <4> QED
          BY <1>6, <3>5, <4>1, MarksDiffer, <4>2, <4>3, <4>4, <4>5, <4>6, <4>7 DEF Turns
      <3>8. CASE s.style = "double"
        <4>1. m = Double
          BY <3>1, <3>8 DEF Mark
        <4>2. ch = Blank => 1 < k
          BY <2>1, <3>5, <4>1, MarksDiffer
        <4>3. InDouble(s, j) <=> 1 < k
          BY <3>3, <3>8 DEF InDouble
        <4>4. InDouble(s, j + 1) <=> k < n
          BY <3>4, <3>8 DEF InDouble
        <4>5. ~InSingle(s, j) /\ ~InSingle(s, j + 1)
          BY <3>8 DEF InSingle
        <4>6. ch = Single => 1 < k
          BY <2>1, <3>5, <4>1, MarksDiffer
        <4>7. (k < n) <=> ~((1 < k) <=> (k = 1 \/ k = n))
          BY <2>1, <3>6
        <4> QED
          BY <1>6, <3>5, <4>1, MarksDiffer, <4>2, <4>3, <4>4, <4>5, <4>6, <4>7 DEF Turns
      <3> QED
        BY <2>4, <3>7, <3>8, SettingIs
    <2> QED
      BY <2>3, <2>4
  <1> QED
    BY <1>8, <1>9

LEMMA RestStep ==
  ASSUME NEW X, NEW s \in Seq(X), NEW d \in Nat, d <= Len(s)
  PROVE  /\ d = Len(s) => Rest(s, d) = <<>>
         /\ d < Len(s) => /\ Rest(s, d) # <<>>
                          /\ Head(Rest(s, d)) = s[d + 1]
                          /\ Tail(Rest(s, d)) = Rest(s, d + 1)
  <1>1. PICK n \in Nat : n = Len(s)
    BY LenProperties
  <1>2. PICK r : r = Rest(s, d)
    OBVIOUS
  <1>3. r \in Seq(X) /\ Len(r) = n - d /\ \A k \in 1..n - d : r[k] = s[k + d]
    <2>1. d \in 0..Len(s)
      BY <1>1
    <2> QED
      BY <1>1, <1>2, <2>1, RestIs
  <1>4. CASE d = n
    <2>1. Len(r) = 0
      BY <1>3, <1>4
    <2>2. r = <<>>
      BY <1>3, <2>1
    <2> QED
      BY <1>1, <1>2, <1>4, <2>2
  <1>5. CASE d < n
    <2>1. 1 \in 1..n - d /\ 1 + d = d + 1
      BY <1>5
    <2>2. r # <<>> /\ Head(r) = r[1]
      BY <1>3, <1>5
    <2>3. r[1] = s[d + 1]
      BY <1>3, <2>1
    <2>4. PICK e \in Nat : e = d + 1
      OBVIOUS
    <2>5. PICK t : t = Rest(s, e)
      OBVIOUS
    <2>6. t \in Seq(X) /\ Len(t) = n - e /\ \A k \in 1..n - e : t[k] = s[k + e]
      <3>1. e \in 0..Len(s)
        BY <1>1, <1>5, <2>4
      <3> QED
        BY <1>1, <2>5, <3>1, RestIs
    <2>7. Tail(r) \in Seq(X) /\ Len(Tail(r)) = n - e /\ \A k \in 1..n - e : Tail(r)[k] = r[k + 1]
      <3>1. Tail(r) \in Seq(X) /\ Len(Tail(r)) = Len(r) - 1 /\ \A k \in 1..Len(r) - 1 : Tail(r)[k] = r[k + 1]
        BY <1>3, <2>2
      <3>2. Len(r) - 1 = n - e
        BY <1>3, <2>4
      <3> QED
        BY <3>1, <3>2
    <2>8. \A k \in 1..n - e : Tail(r)[k] = t[k]
      <3> SUFFICES ASSUME NEW k \in 1..n - e PROVE Tail(r)[k] = t[k]
        OBVIOUS
      <3>1. k + 1 \in 1..n - d /\ (k + 1) + d = k + e
        BY <2>4
      <3>2. r[k + 1] = s[k + e]
        BY <1>3, <3>1
      <3> QED
        BY <2>6, <2>7, <3>2
    <2>9. Tail(r) = t
      BY <2>6, <2>7, <2>8, SeqEqual
    <2> QED
      BY <1>1, <1>2, <1>5, <2>2, <2>3, <2>4, <2>5, <2>9
  <1> QED
    BY <1>1, <1>4, <1>5

\* The first symbols of a text.
Prefix(s, j) == SubSeq(s, 1, j)

LEMMA PrefixStep ==
  ASSUME NEW X, NEW s \in Seq(X), NEW j \in Nat, j < Len(s)
  PROVE  Append(Prefix(s, j), s[j + 1]) = Prefix(s, j + 1) /\ Prefix(s, j + 1) # <<>>
  <1>1. PICK n \in Nat : n = Len(s)
    BY LenProperties
  <1>2. ASSUME NEW i \in Nat, i <= n
        PROVE  /\ Prefix(s, i) \in Seq(X) /\ Len(Prefix(s, i)) = i
               /\ \A k \in 1..i : Prefix(s, i)[k] = s[k]
    <2>1. PICK x \in Int : x = 1
      OBVIOUS
    <2>2. PICK u : u = SubSeq(s, x, i)
      OBVIOUS
    <2>3. \A k \in x..i : s[k] \in X
      <3> SUFFICES ASSUME NEW k \in x..i PROVE s[k] \in X
        OBVIOUS
      <3>1. k \in 1..Len(s)
        BY <1>1, <1>2, <2>1
      <3> QED
        BY <3>1, ElementOfSeq
    <2>4. /\ u \in Seq(X)
          /\ Len(u) = IF x <= i THEN i - x + 1 ELSE 0
          /\ \A k \in 1..i - x + 1 : u[k] = s[x + k - 1]
      BY <2>2, <2>3, SubSeqProperties
    <2>5. i - x + 1 = i /\ (x <= i \/ i = 0) /\ \A k \in 1..i : x + k - 1 = k
      BY <2>1
    <2>6. Prefix(s, i) = u
      BY <2>1, <2>2 DEF Prefix
    <2>7. Len(u) = i /\ \A k \in 1..i : u[k] = s[k]
      BY <2>4, <2>5
    <2> QED
      BY <2>4, <2>6, <2>7
  <1>3. PICK e \in Nat : e = j + 1
    OBVIOUS
  <1>4. PICK t, u : t = Prefix(s, j) /\ u = Prefix(s, e)
    OBVIOUS
  <1>5. t \in Seq(X) /\ Len(t) = j /\ \A k \in 1..j : t[k] = s[k]
    <2>1. j <= n
      BY <1>1
    <2> QED
      BY <1>2, <1>4, <2>1
  <1>6. u \in Seq(X) /\ Len(u) = e /\ \A k \in 1..e : u[k] = s[k]
    <2>1. e <= n
      BY <1>1, <1>3
    <2> QED
      BY <1>2, <1>4, <2>1
  <1>7. PICK a : a = Append(t, s[j + 1])
    OBVIOUS
  <1>8. s[j + 1] \in X
    <2>1. j + 1 \in 1..Len(s)
      BY <1>1
    <2> QED
      BY <2>1, ElementOfSeq
  <1>9. /\ a \in Seq(X) /\ Len(a) = e /\ \A k \in 1..e : a[k] = IF k = e THEN s[j + 1] ELSE t[k]
    <2>1. a \in Seq(X) /\ Len(a) = Len(t) + 1
      BY <1>5, <1>7, <1>8
    <2>2. \A k \in 1..Len(t) + 1 : a[k] = IF k = Len(t) + 1 THEN s[j + 1] ELSE t[k]
      BY <1>5, <1>7, <1>8
    <2> QED
      BY <1>3, <1>5, <2>1, <2>2
  <1>10. \A k \in 1..e : a[k] = u[k]
    <2> SUFFICES ASSUME NEW k \in 1..e PROVE a[k] = u[k]
      OBVIOUS
    <2>1. CASE k = e
      BY <1>3, <1>6, <1>9, <2>1
    <2>2. CASE k # e
      <3>1. k \in 1..j
        BY <1>3, <2>2
      <3> QED
        BY <1>5, <1>6, <1>9, <2>2, <3>1
    <2> QED
      BY <2>1, <2>2
  <1>11. a = u
    BY <1>6, <1>9, <1>10, SeqEqual
  <1>12. u # <<>>
    BY <1>3, <1>6
  <1> QED
    BY <1>3, <1>4, <1>7, <1>11, <1>12

LEMMA PrefixAll ==
  ASSUME NEW X, NEW s \in Seq(X)
  PROVE  Prefix(s, Len(s)) = s
  <1>1. Prefix(s, Len(s)) = Rest(s, 0)
    BY DEF Prefix, Rest
  <1>2. PICK n \in Nat : n = Len(s)
    BY LenProperties
  <1>3. PICK r : r = Rest(s, 0)
    OBVIOUS
  <1>4. r \in Seq(X) /\ Len(r) = n /\ \A k \in 1..n : r[k] = s[k]
    <2>1. 0 \in 0..Len(s) /\ n - 0 = n /\ \A k \in 1..n : k + 0 = k
      BY <1>2
    <2>2. r \in Seq(X) /\ Len(r) = Len(s) - 0 /\ \A k \in 1..Len(s) - 0 : r[k] = s[k + 0]
      BY <1>3, <2>1, RestIs
    <2> QED
      BY <1>2, <2>1, <2>2
  <1>5. r = s
    BY <1>2, <1>4, SeqEqual
  <1> QED
    BY <1>1, <1>3, <1>5

-----------------------------------------------------------------------------
(* Splitting a string of pairs *)

\* Settings that can be written as key=value pairs.
IsDsn(list) ==
  /\ list \in Seq([key : Keys, value : Seq(Chars), style : Quotes])
  /\ \A k \in DOMAIN list : Writable(list[k])

LEMMA DsnIs ==
  ASSUME NEW list, IsDsn(list)
  PROVE  /\ Len(list) \in Nat /\ DOMAIN list = 1..Len(list)
         /\ \A k \in 1..Len(list) : IsSetting(list[k]) /\ Writable(list[k])
  <1>1. Len(list) \in Nat /\ DOMAIN list = 1..Len(list)
    BY LenProperties DEF IsDsn
  <1>2. ASSUME NEW k \in 1..Len(list) PROVE IsSetting(list[k]) /\ Writable(list[k])
    <2>1. list \in Seq([key : Keys, value : Seq(Chars), style : Quotes])
      BY DEF IsDsn
    <2>2. list[k] \in [key : Keys, value : Seq(Chars), style : Quotes]
      BY <2>1, ElementOfSeq
    <2> QED
      BY <1>1, <2>2 DEF IsDsn, IsSetting
  <1> QED
    BY <1>1, <1>2

Pieces(list) == [k \in DOMAIN list |-> WritePair(list[k]) \o <<Blank>>]

\* Where the pieces end.
Off(list) == CHOOSE off \in [0..Len(list) -> Nat] : Offsets(Pieces(list), WriteDsn(list), off)

LEMMA PieceIs ==
  ASSUME NEW s, IsSetting(s), NEW p, p = WritePair(s)
  PROVE  /\ p \in Seq(Alphabet) /\ Len(p) > 0
         /\ p \o <<Blank>> \in Seq(Alphabet) /\ Len(p \o <<Blank>>) = Len(p) + 1
         /\ \A j \in 1..Len(p) + 1 : (p \o <<Blank>>)[j] = IF j <= Len(p) THEN p[j] ELSE Blank
  <1>1. PICK b \in Seq(Alphabet), key \in Keys : b = Body(s) /\ key = s.key
    BY PairIs, SettingIs
  <1>2. p = Keyed(key, b)
    BY <1>1, PairIs
  <1>3. p \in Seq(Alphabet) /\ Len(p) = Len(b) + 2
    BY <1>2, KeyedIs
  <1>4. PICK n \in Nat : n = Len(p) /\ n > 0
    <2>1. Len(b) \in Nat
      BY LenProperties
    <2> QED
      BY <1>3, <2>1
  <1>5. PICK one : one = <<Blank>>
    OBVIOUS
  <1>6. one \in Seq(Alphabet) /\ Len(one) = 1 /\ one[1] = Blank
    <2>1. PICK ch \in Alphabet : ch = Blank
      BY DEF Alphabet
    <2> QED
      BY <1>5, <2>1
  <1>7. PICK all : all = p \o one
    OBVIOUS
  <1>8. /\ all \in Seq(Alphabet) /\ Len(all) = Len(p) + Len(one)
        /\ \A j \in 1..Len(p) + Len(one) : all[j] = IF j <= Len(p) THEN p[j] ELSE one[j - Len(p)]
    <2>1. one \in Seq(Alphabet)
      BY <1>6
    <2>2. p \in Seq(Alphabet)
      BY <1>3
    <2> QED
      BY <1>7, <2>1, <2>2, ConcatProperties
  <1>9. Len(all) = n + 1 /\ \A j \in 1..n + 1 : all[j] = IF j <= n THEN p[j] ELSE one[j - n]
    BY <1>4, <1>6, <1>8
  <1>10. \A j \in 1..n + 1 : ~(j <= n) => j - n = 1
    OBVIOUS
  <1>11. \A j \in 1..n + 1 : all[j] = IF j <= n THEN p[j] ELSE Blank
    BY <1>6, <1>9, <1>10
  <1> QED
    BY <1>3, <1>4, <1>5, <1>7, <1>8, <1>9, <1>11

\* One piece of the text: a pair and a blank.
HasPiece(list, n, p) ==
  /\ Off(list)[n + 1] = Off(list)[n] + Len(p) + 1
  /\ Off(list)[n] + Len(p) + 1 <= Len(WriteDsn(list))
  /\ \A j \in 0..Len(p) : WriteDsn(list)[Off(list)[n] + j + 1] = IF j < Len(p) THEN p[j + 1] ELSE Blank

LEMMA DsnText ==
  ASSUME NEW list, IsDsn(list)
  PROVE  /\ WriteDsn(list) \in Seq(Alphabet)
         /\ Off(list) \in [0..Len(list) -> Nat] /\ Off(list)[0] = 0
         /\ Off(list)[Len(list)] = Len(WriteDsn(list))
         /\ \A n \in 0..Len(list) - 1 : HasPiece(list, n, WritePair(list[n + 1]))
  <1>1. PICK l \in Nat : l = Len(list) /\ DOMAIN list = 1..l
    BY DsnIs
  <1>2. PICK seqs : seqs = Pieces(list)
    OBVIOUS
  <1>3. seqs = [k \in 1..l |-> WritePair(list[k]) \o <<Blank>>]
    BY <1>1, <1>2 DEF Pieces
  <1>4. \A k \in 1..l : seqs[k] \in Seq(Alphabet)
    <2> SUFFICES ASSUME NEW k \in 1..l PROVE seqs[k] \in Seq(Alphabet)
      OBVIOUS
    <2>1. IsSetting(list[k])
      BY <1>1, DsnIs
    <2>2. WritePair(list[k]) \o <<Blank>> \in Seq(Alphabet)
      BY <2>1, PieceIs
    <2> QED
      BY <1>3, <2>2
  <1>5. seqs \in Seq(Seq(Alphabet)) /\ Len(seqs) = l
    BY <1>3, <1>4
  <1>6. PICK all : all = WriteDsn(list)
    OBVIOUS
  <1>7. all = FlattenSeq(seqs)
    BY <1>2, <1>6 DEF WriteDsn, Pieces
  <1>8. all \in Seq(Alphabet)
    BY <1>5, <1>7, FlattenType
  <1>9. \E off \in [0..l -> Nat] : Offsets(seqs, all, off)
    BY <1>5, <1>7, FlattenPlaces
  <1>10. PICK off : off = Off(list)
    OBVIOUS
  <1>11. off \in [0..l -> Nat] /\ Offsets(seqs, all, off)
    <2>1. off = CHOOSE x \in [0..l -> Nat] : Offsets(seqs, all, x)
      BY <1>1, <1>2, <1>6, <1>10 DEF Off
    <2> QED
      BY <1>9, <2>1
  <1>12. off[0] = 0 /\ off[l] = Len(all)
    BY <1>5, <1>11 DEF Offsets
  <1>13. ASSUME NEW n \in 0..l - 1 PROVE HasPiece(list, n, WritePair(list[n + 1]))
    <2>1. PICK k \in 1..l : k = n + 1
      BY <1>1
    <2>2. PICK s, p : s = list[k] /\ p = WritePair(s)
      OBVIOUS
    <2>3. IsSetting(s)
      BY <1>1, <2>2, DsnIs
    <2>4. PICK t : t = p \o <<Blank>>
      OBVIOUS
    <2>5. PICK m \in Nat : m = Len(p)
      BY <2>2, <2>3, PieceIs, LenProperties
    <2>6. Len(t) = m + 1 /\ \A j \in 1..m + 1 : t[j] = IF j <= m THEN p[j] ELSE Blank
      BY <2>2, <2>3, <2>4, <2>5, PieceIs
    <2>7. seqs[k] = t
      BY <1>3, <2>2, <2>4
    <2>8. PICK o \in Nat : o = off[n]
      BY <1>11
    <2>9. k - 1 = n
      BY <2>1
    <2>10. /\ off[k] = o + (m + 1) /\ o + (m + 1) <= Len(all)
           /\ \A j \in 1..m + 1 : all[o + j] = t[j]
      BY <1>5, <1>11, <2>6, <2>7, <2>8, <2>9 DEF Offsets
    <2>11. ASSUME NEW j \in 0..m PROVE all[o + j + 1] = IF j < m THEN p[j + 1] ELSE Blank
      <3>1. j + 1 \in 1..m + 1 /\ o + (j + 1) = o + j + 1 /\ (j + 1 <= m <=> j < m)
        OBVIOUS
      <3>2. all[o + (j + 1)] = t[j + 1]
        BY <2>10, <3>1
      <3> QED
        BY <2>6, <3>1, <3>2
    <2>12. HasPiece(list, n, p)
      <3>1. off[n + 1] = off[n] + m + 1 /\ off[n] + m + 1 <= Len(all)
        <4>1. off[n + 1] = off[k]
          BY <2>1
        <4>2. o + (m + 1) = o + m + 1
          OBVIOUS
        <4>3. off[k] = o + (m + 1) /\ o + (m + 1) <= Len(all)
          BY <2>10
        <4> QED
          BY <2>8, <4>1, <4>2, <4>3
      <3> QED
        BY <1>6, <1>10, <2>5, <2>8, <2>11, <3>1 DEF HasPiece
    <2> QED
      BY <2>1, <2>2, <2>12
  <1> QED
    BY <1>1, <1>6, <1>8, <1>10, <1>11, <1>12, <1>13

\* The pairs before the n-th have been cut, and j symbols of the next one are collected.
SplitAt(list, n, j) ==
  /\ n \in 0..Len(list) /\ j \in Nat
  /\ n = Len(list) => j = 0
  /\ n < Len(list) => j <= Len(WritePair(list[n + 1]))
  /\ rest = Rest(WriteDsn(list), Off(list)[n] + j)
  /\ parts = [k \in 1..n |-> WritePair(list[k])]
  /\ current = IF j = 0 THEN <<>> ELSE Prefix(WritePair(list[n + 1]), j)
  /\ in_single <=> InSingle(list[n + 1], j)
  /\ in_double <=> InDouble(list[n + 1], j)

LEMMA SplitStarts ==
  ASSUME NEW list, IsDsn(list), rest' = WriteDsn(list), parts' = <<>>, current' = <<>>, ~in_single', ~in_double'
  PROVE  SplitAt(list, 0, 0)'
  <1>1. PICK l \in Nat : l = Len(list)
    BY DsnIs
  <1>2. PICK all \in Seq(Alphabet) : all = WriteDsn(list)
    BY DsnText
  <1>3. rest' = Rest(WriteDsn(list), Off(list)[0] + 0)
    <2>1. Rest(all, 0) = all
      BY RestAll
    <2>2. Off(list)[0] + 0 = 0
      BY DsnText
    <2> QED
      BY <1>2, <2>1, <2>2
  <1>4. ~InSingle(list[0 + 1], 0) /\ ~InDouble(list[0 + 1], 0)
    BY DEF InSingle, InDouble, Inside
  <1>5. 0 < Len(list) => 0 <= Len(WritePair(list[0 + 1]))
    <2> SUFFICES ASSUME 0 < Len(list) PROVE 0 <= Len(WritePair(list[0 + 1]))
      OBVIOUS
    <2>1. 0 + 1 \in 1..Len(list)
      BY <1>1
    <2>2. PICK s : s = list[0 + 1]
      OBVIOUS
    <2>3. IsSetting(s)
      BY <2>1, <2>2, DsnIs
    <2>4. Len(WritePair(s)) \in Nat
      BY <2>3, PieceIs, LenProperties
    <2> QED
      BY <2>2, <2>4
  <1>6. parts' = [k \in 1..0 |-> WritePair(list[k])]
    OBVIOUS
  <1>7. 0 \in 0..Len(list)
    BY <1>1
  <1> QED
    BY <1>3, <1>4, <1>5, <1>6, <1>7 DEF SplitAt

LEMMA SplitTurn ==
  ASSUME NEW list, IsDsn(list), NEW n, NEW j, SplitAt(list, n, j),
         in_single \in BOOLEAN, in_double \in BOOLEAN, SplitChar
  PROVE  \E m, i : SplitAt(list, m, i)'
  <1>1. PICK l \in Nat : l = Len(list)
    BY DsnIs
  <1>2. n \in 0..l /\ j \in Nat
    BY <1>1 DEF SplitAt
  <1>3. PICK all \in Seq(Alphabet) : all = WriteDsn(list)
    BY DsnText
  <1>4. PICK o \in Nat : o = Off(list)[n]
    BY <1>1, <1>2, DsnText
  <1>5. PICK r : r = rest
    OBVIOUS
  <1>6. r = Rest(all, o + j) /\ r # <<>>
    BY <1>3, <1>4, <1>5 DEF SplitAt, SplitChar
  <1>7. n < l
    <2> SUFFICES ASSUME n = l PROVE FALSE
      BY <1>2
    <2>1. j = 0 /\ o = Len(all)
      BY <1>1, <1>3, <1>4, DsnText DEF SplitAt
    <2>2. o + j = o /\ o <= Len(all)
      BY <2>1
    <2>3. Rest(all, o) = <<>>
      BY <2>1, <2>2, RestStep
    <2> QED
      BY <1>6, <2>2, <2>3
  <1>8. PICK s, p : s = list[n + 1] /\ p = WritePair(s)
    OBVIOUS
  <1>9. IsSetting(s) /\ Writable(s)
    <2>1. n + 1 \in 1..l
      BY <1>2, <1>7
    <2> QED
      BY <1>1, <1>8, <2>1, DsnIs
  <1>10. PICK t \in Nat : t = Len(p) /\ t > 0
    BY <1>8, <1>9, PieceIs, LenProperties
  <1>11. p \in Seq(Alphabet)
    BY <1>8, <1>9, PieceIs
  <1>12. HasPiece(list, n, p)
    <2>1. n \in 0..l - 1
      BY <1>2, <1>7
    <2> QED
      BY <1>1, <1>8, <2>1, DsnText
  <1>13. /\ Off(list)[n + 1] = o + t + 1 /\ o + t + 1 <= Len(all)
         /\ \A k \in 0..t : all[o + k + 1] = IF k < t THEN p[k + 1] ELSE Blank
    BY <1>3, <1>4, <1>10, <1>12 DEF HasPiece
  <1>14. j <= t
    BY <1>1, <1>7, <1>8, <1>10 DEF SplitAt
  <1>15. PICK ch : ch = Head(r)
    OBVIOUS
  <1>16. ch = IF j < t THEN p[j + 1] ELSE Blank
    <2>1. j \in 0..t /\ o + j < Len(all) /\ o + j <= Len(all) /\ o + j \in Nat
      <3>1. Len(all) \in Nat
        BY LenProperties
      <3> QED
        BY <1>2, <1>13, <1>14, <3>1
    <2>2. Head(r) = all[o + j + 1]
      BY <1>6, <2>1, RestStep
    <2> QED
      BY <1>13, <1>15, <2>1, <2>2
  <1>17. Tail(r) = Rest(all, o + j + 1)
    <2>1. o + j < Len(all) /\ o + j <= Len(all) /\ o + j \in Nat
      <3>1. Len(all) \in Nat
        BY LenProperties
      <3> QED
        BY <1>2, <1>13, <1>14, <3>1
    <2> QED
      BY <1>6, <2>1, RestStep
  <1>18. /\ in_single' = (in_single # (ch = Single /\ ~in_double))
         /\ in_double' = (in_double # (ch = Double /\ ~in_single))
         /\ current' = IF ch = Blank /\ ~in_single /\ ~in_double THEN <<>> ELSE Append(current, ch)
         /\ parts' = IF ch = Blank /\ ~in_single /\ ~in_double /\ current # <<>> THEN Append(parts, current) ELSE parts
         /\ rest' = Tail(r)
    BY <1>5, <1>15 DEF SplitChar
  <1>19. (in_single <=> InSingle(s, j)) /\ (in_double <=> InDouble(s, j))
    BY <1>8 DEF SplitAt
  <1>20. /\ in_single' <=> ~(in_single <=> (ch = Single /\ ~in_double))
         /\ in_double' <=> ~(in_double <=> (ch = Double /\ ~in_single))
    BY <1>18
  <1>21. parts = [k \in 1..n |-> WritePair(list[k])]
    BY DEF SplitAt
  <1>22. current = IF j = 0 THEN <<>> ELSE Prefix(p, j)
    BY <1>8 DEF SplitAt
  <1>23. CASE j < t
    <2>1. Turns(s, j, ch)
      <3>1. j < Len(p)
        BY <1>10, <1>23
      <3>2. Turns(s, j, p[j + 1])
        BY <1>2, <1>8, <1>9, <3>1, PairTurns
      <3> QED
        BY <1>16, <1>23, <3>2
    <2>2. ~(ch = Blank /\ ~in_single /\ ~in_double)
      BY <1>19, <2>1 DEF Turns
    <2>3. in_single' <=> InSingle(s, j + 1)
      BY <1>19, <1>20, <2>1 DEF Turns
    <2>4. in_double' <=> InDouble(s, j + 1)
      BY <1>19, <1>20, <2>1 DEF Turns
    <2>5. parts' = [k \in 1..n |-> WritePair(list[k])]
      BY <1>18, <1>21, <2>2
    <2>6. current' = Prefix(p, j + 1)
      <3>1. current' = Append(current, ch)
        BY <1>18, <2>2
      <3>2. current = Prefix(p, j)
        <4>1. CASE j = 0
          <5>1. Prefix(p, 0) = <<>>
            BY DEF Prefix
          <5> QED
            BY <1>22, <4>1, <5>1
        <4>2. CASE j # 0
          BY <1>22, <4>2
        <4> QED
          BY <4>1, <4>2
      <3>3. Append(Prefix(p, j), p[j + 1]) = Prefix(p, j + 1)
        <4>1. j < Len(p)
          BY <1>10, <1>23
        <4> QED
          BY <1>2, <1>11, <4>1, PrefixStep
      <3> QED
        BY <1>16, <1>23, <3>1, <3>2, <3>3
    <2>7. rest' = Rest(WriteDsn(list), Off(list)[n] + (j + 1))
      <3>1. o + j + 1 = o + (j + 1)
        BY <1>2
      <3> QED
        BY <1>3, <1>4, <1>17, <1>18, <3>1
    <2>8. j + 1 \in Nat /\ j + 1 # 0 /\ j + 1 <= t
      BY <1>2, <1>23
    <2>9. SplitAt(list, n, j + 1)'
      BY <1>1, <1>2, <1>7, <1>8, <1>10, <2>3, <2>4, <2>5, <2>6, <2>7, <2>8 DEF SplitAt
    <2> QED
      BY <2>9
  <1>24. CASE ~(j < t)
    <2>1. j = t /\ j # 0 /\ ch = Blank
      BY <1>2, <1>10, <1>14, <1>16, <1>24
    <2>2. ~Inside(s, j)
      BY <1>8, <1>10, <2>1 DEF Inside
    <2>3. ~in_single /\ ~in_double
      BY <1>19, <2>2 DEF InSingle, InDouble
    <2>4. current = p
      <3>1. Prefix(p, Len(p)) = p
        BY <1>11, PrefixAll
      <3> QED
        BY <1>10, <1>22, <2>1, <3>1
    <2>5. p # <<>>
      BY <1>10
    <2>6. parts' = Append(parts, p) /\ current' = <<>>
      BY <1>18, <2>1, <2>3, <2>4, <2>5
    <2>7. ~in_single' /\ ~in_double'
      BY <1>20, <2>1, <2>3, MarksDiffer
    <2>8. PICK m \in 0..l : m = n + 1
      BY <1>2, <1>7
    <2>9. parts' = [k \in 1..m |-> WritePair(list[k])]
      <3>1. PICK w : w = [k \in 1..n |-> WritePair(list[k])]
        OBVIOUS
      <3>2. Append(w, WritePair(list[m])) = [k \in 1..m |-> WritePair(list[k])]
        BY <1>2, <2>8, <3>1
      <3> QED
        BY <1>8, <1>21, <2>6, <2>8, <3>1, <3>2
    <2>10. rest' = Rest(WriteDsn(list), Off(list)[m] + 0)
      <3>1. o + j + 1 = Off(list)[m] + 0
        BY <1>13, <2>1, <2>8
      <3> QED
        BY <1>3, <1>17, <1>18, <3>1
    <2>11. ~InSingle(list[m + 1], 0) /\ ~InDouble(list[m + 1], 0)
      BY DEF InSingle, InDouble, Inside
    <2>12. m < l => 0 <= Len(WritePair(list[m + 1]))
      <3> SUFFICES ASSUME m < l PROVE 0 <= Len(WritePair(list[m + 1]))
        OBVIOUS
      <3>1. m + 1 \in 1..l
        OBVIOUS
      <3>2. PICK q : q = list[m + 1]
        OBVIOUS
      <3>3. IsSetting(q)
        BY <1>1, <3>1, <3>2, DsnIs
      <3>4. Len(WritePair(q)) \in Nat
        BY <3>3, PieceIs, LenProperties
      <3> QED
        BY <3>2, <3>4
    <2>13. SplitAt(list, m, 0)'
      BY <1>1, <2>6, <2>7, <2>9, <2>10, <2>11, <2>12 DEF SplitAt
    <2> QED
      BY <2>13
  <1> QED
    BY <1>23, <1>24

\* What the parts of a list are, once their quotes are removed.
Reading(list) == [k \in 1..Len(list) |-> Keyed(list[k].key, list[k].value)]

\* A part that was cut keeps its key and loses its quotes.
LEMMA PartIs ==
  ASSUME NEW s, IsSetting(s), Writable(s)
  PROVE  /\ Has(WritePair(s), "=")
         /\ Before(WritePair(s), "=") \o <<"=">> \o Stripped(After(WritePair(s), "=")) = Keyed(s.key, s.value)
  <1>1. PICK b \in Seq(Alphabet), key \in Keys : b = Body(s) /\ key = s.key
    BY PairIs, SettingIs
  <1>2. PICK p : p = WritePair(s)
    OBVIOUS
  <1>3. p = Keyed(key, b)
    BY <1>1, <1>2, PairIs
  <1>4. Has(p, "=") /\ Before(p, "=") = <<key>> /\ After(p, "=") = b
    BY <1>3, KeyedIs
  <1>5. Stripped(b) = s.value
    BY <1>1, BodyStripped
  <1>6. <<key>> \o <<"=">> = <<key, "=">>
    <2>1. PICK eq : eq = "="
      OBVIOUS
    <2>2. PICK one : one = <<key>>
      OBVIOUS
    <2>3. one \in Seq(Alphabet) /\ eq \in Alphabet
      <3>1. key \in Alphabet /\ eq \in Alphabet
        BY <2>1, KeyIs DEF Alphabet
      <3> QED
        BY <2>2, <3>1
    <2>4. Append(one, eq) = one \o <<eq>>
      BY <2>3, AppendIsConcat
    <2>5. Append(one, eq) = <<key, eq>>
      <3>1. one \in Seq(Alphabet) /\ Len(one) = 1 /\ one[1] = key
        BY <2>2, <2>3
      <3>2. PICK a : a = Append(one, eq)
        OBVIOUS
      <3>3. /\ a \in Seq(Alphabet) /\ Len(a) = Len(one) + 1
            /\ \A i \in 1..Len(one) : a[i] = one[i]
            /\ a[Len(one) + 1] = eq
        BY <2>3, <3>2, AppendProperties
      <3>4. Len(a) = 2 /\ a[1] = key /\ a[2] = eq
        <4>1. 1 \in 1..1 /\ 1 + 1 = 2
          OBVIOUS
        <4> QED
          BY <3>1, <3>3, <4>1
      <3>5. PICK two : two = <<key, eq>>
        OBVIOUS
      <3>6. two \in Seq(Alphabet) /\ Len(two) = 2 /\ two[1] = key /\ two[2] = eq
        <4>1. key \in Alphabet
          BY KeyIs
        <4> QED
          BY <2>3, <3>5, <4>1
      <3>7. \A i \in 1..2 : a[i] = two[i]
        <4>1. \A i \in 1..2 : i = 1 \/ i = 2
          OBVIOUS
        <4> QED
          BY <3>4, <3>6, <4>1
      <3>8. a = two
        BY <3>3, <3>4, <3>6, <3>7, SeqEqual
      <3> QED
        BY <3>2, <3>5, <3>8
    <2> QED
      BY <2>1, <2>2, <2>4, <2>5
  <1>7. Before(p, "=") \o <<"=">> \o Stripped(After(p, "=")) = Keyed(s.key, s.value)
    BY <1>1, <1>4, <1>5, <1>6 DEF Keyed
  <1> QED
    BY <1>2, <1>4, <1>7

LEMMA SplitEnds ==
  ASSUME NEW list, IsDsn(list), NEW n, NEW j, SplitAt(list, n, j), SplitDone
  PROVE  parts' = Reading(list)
  <1>1. PICK l \in Nat : l = Len(list)
    BY DsnIs
  <1>2. n \in 0..l /\ j \in Nat
    BY <1>1 DEF SplitAt
  <1>3. PICK all \in Seq(Alphabet) : all = WriteDsn(list)
    BY DsnText
  <1>4. PICK o \in Nat : o = Off(list)[n]
    BY <1>1, <1>2, DsnText
  <1>5. Rest(all, o + j) = <<>>
    BY <1>3, <1>4 DEF SplitAt, SplitDone
  <1>6. n = l
    <2> SUFFICES ASSUME n < l PROVE FALSE
      BY <1>2
    <2>1. PICK p : p = WritePair(list[n + 1])
      OBVIOUS
    <2>2. n + 1 \in 1..l /\ n \in 0..l - 1
      BY <1>2
    <2>3. IsSetting(list[n + 1])
      BY <1>1, <2>2, DsnIs
    <2>4. PICK t \in Nat : t = Len(p)
      BY <2>1, <2>3, PieceIs, LenProperties
    <2>5. o + t + 1 <= Len(all)
      BY <1>1, <1>3, <1>4, <2>1, <2>2, <2>4, DsnText DEF HasPiece
    <2>6. j <= t
      BY <1>1, <2>1, <2>4 DEF SplitAt
    <2>7. Len(all) \in Nat
      BY LenProperties
    <2>8. o + j \in Nat /\ o + j < Len(all) /\ o + j <= Len(all)
      BY <1>2, <2>5, <2>6, <2>7
    <2>9. Rest(all, o + j) # <<>>
      BY <2>8, RestStep
    <2> QED
      BY <1>5, <2>9
  <1>7. current = <<>> /\ parts = [k \in 1..l |-> WritePair(list[k])]
    BY <1>1, <1>6 DEF SplitAt
  <1>8. parts' = [k \in DOMAIN parts |->
                    IF Has(parts[k], "=")
                      THEN Before(parts[k], "=") \o <<"=">> \o Stripped(After(parts[k], "=")) ELSE parts[k]]
    BY <1>7 DEF SplitDone
  <1>9. parts' = [k \in 1..l |->
                    IF Has(WritePair(list[k]), "=")
                      THEN Before(WritePair(list[k]), "=") \o <<"=">> \o Stripped(After(WritePair(list[k]), "="))
                      ELSE WritePair(list[k])]
    BY <1>7, <1>8
  <1>10. \A k \in 1..l :
           /\ Has(WritePair(list[k]), "=")
           /\ Before(WritePair(list[k]), "=") \o <<"=">> \o Stripped(After(WritePair(list[k]), "="))
                = Keyed(list[k].key, list[k].value)
    <2> SUFFICES ASSUME NEW k \in 1..l
                 PROVE  /\ Has(WritePair(list[k]), "=")
                        /\ Before(WritePair(list[k]), "=") \o <<"=">> \o Stripped(After(WritePair(list[k]), "="))
                             = Keyed(list[k].key, list[k].value)
      OBVIOUS
    <2>1. PICK s : s = list[k]
      OBVIOUS
    <2>2. IsSetting(s) /\ Writable(s)
      BY <1>1, <2>1, DsnIs
    <2> QED
      BY <2>1, <2>2, PartIs
  <1>11. parts' = [k \in 1..l |-> Keyed(list[k].key, list[k].value)]
    BY <1>9, <1>10, Zenon
  <1> QED
    BY <1>1, <1>11 DEF Reading

-----------------------------------------------------------------------------
(* Assigning the parts *)

\* A list of settings, in whatever way they are written.
IsList(list) ==
  /\ list = [k \in 1..Len(list) |-> list[k]] /\ Len(list) \in Nat
  /\ \A k \in 1..Len(list) : list[k].key \in Keys /\ list[k].value \in Seq(Chars)

LEMMA DsnIsList ==
  ASSUME NEW list, IsDsn(list)
  PROVE  IsList(list)
  <1>1. list = [k \in 1..Len(list) |-> list[k]]
    BY DEF IsDsn
  <1>2. Len(list) \in Nat
    BY DsnIs
  <1>3. ASSUME NEW k \in 1..Len(list) PROVE list[k].key \in Keys /\ list[k].value \in Seq(Chars)
    BY <1>3, DsnIs, SettingIs
  <1> QED
    BY <1>1, <1>2, <1>3 DEF IsList

LEMMA ReadingIs ==
  ASSUME NEW list, IsList(list)
  PROVE  Reading(list) \in Seq(Seq(Alphabet)) /\ Len(Reading(list)) = Len(list)
  <1>1. PICK l \in Nat : l = Len(list)
    BY DEF IsList
  <1>2. \A k \in 1..l : Keyed(list[k].key, list[k].value) \in Seq(Alphabet)
    <2> SUFFICES ASSUME NEW k \in 1..l PROVE Keyed(list[k].key, list[k].value) \in Seq(Alphabet)
      OBVIOUS
    <2>1. PICK key \in Keys, v \in Seq(Chars) : key = list[k].key /\ v = list[k].value
      BY <1>1 DEF IsList
    <2>2. v \in Seq(Alphabet)
      BY CharsIn
    <2> QED
      BY <2>1, <2>2, KeyedIs
  <1>3. PICK w : w = [k \in 1..l |-> Keyed(list[k].key, list[k].value)]
    OBVIOUS
  <1>4. w \in Seq(Seq(Alphabet)) /\ Len(w) = l
    BY <1>2, <1>3
  <1> QED
    BY <1>1, <1>3, <1>4 DEF Reading

\* The settings of a key among the first m.
Those(list, m, f) == {k \in 1..m : list[k].key = f}

\* What the first m settings make of a field that began as start.
TakenAs(list, m, f, start) ==
  IF Those(list, m, f) = {} THEN start ELSE list[Max(Those(list, m, f))].value

\* What all of them make of it.
Take(list, f, start) == TakenAs(list, Len(list), f, start)

AllValid(list) == \A k \in 1..Len(list) : Valid(list[k].key, list[k].value)

\* The first m parts have been assigned to a Config that began as base.
PartsAt(list, base, m) ==
  /\ m \in 0..Len(list)
  /\ parts = Rest(Reading(list), m)
  /\ \A k \in 1..m : Valid(list[k].key, list[k].value)
  /\ config = [f \in Fields |-> TakenAs(list, m, f, base[f])]

\* A list that is assigned has the meaning of the one that was given.
OrDefault(f, value) == IF f = "dbname" /\ value = <<>> THEN Default[f] ELSE value

Stands(list, base) ==
  /\ \A f \in Fields : Meant[f] = OrDefault(f, Take(list, f, base[f]))
  /\ (\A k \in DOMAIN given : Valid(given[k].key, given[k].value)) <=> AllValid(list)

\* Where the assignments of a string of pairs begin.
Start(f) == IF f = "dbname" THEN <<>> ELSE Default[f]

DsnBase == [f \in Fields |-> Start(f)]

LEMMA BaseIs == DsnBase = [Default EXCEPT !["dbname"] = <<>>]
  <1>1. Default = [f \in Fields |-> Default[f]] /\ "dbname" \in Fields
    BY DefaultIs DEF IsConfig, Fields
  <1>2. PICK d, e : d = Default /\ e = DsnBase
    OBVIOUS
  <1>3. e = [f \in Fields |-> IF f = "dbname" THEN <<>> ELSE d[f]]
    BY <1>2 DEF DsnBase, Start
  <1> QED
    BY <1>1, <1>2, <1>3

LEMMA PartsStart ==
  ASSUME NEW list, IsList(list), NEW base, base = [f \in Fields |-> base[f]],
         parts' = Reading(list), config' = base
  PROVE  PartsAt(list, base, 0)'
  <1>1. PICK w \in Seq(Seq(Alphabet)) : w = Reading(list)
    BY ReadingIs
  <1>2. Rest(w, 0) = w
    BY RestAll
  <1>3. \A f : Those(list, 0, f) = {}
    BY DEF Those
  <1>4. \A f \in Fields : TakenAs(list, 0, f, base[f]) = base[f]
    BY <1>3 DEF TakenAs
  <1>7. config' = [f \in Fields |-> TakenAs(list, 0, f, base[f])]
    BY <1>4
  <1>8. 0 \in 0..Len(list)
    BY DEF IsList
  <1>9. parts' = Rest(Reading(list), 0)
    BY <1>1, <1>2
  <1>10. \A k \in 1..0 : Valid(list[k].key, list[k].value)
    OBVIOUS
  <1> QED
    BY <1>7, <1>8, <1>9, <1>10 DEF PartsAt

LEMMA LastOne ==
  ASSUME NEW S, NEW m \in Nat, S \subseteq 1..m
  PROVE  Max(S \cup {m + 1}) = m + 1
  <1>1. PICK T : T = S \cup {m + 1}
    OBVIOUS
  <1>2. m + 1 \in T /\ \A y \in T : m + 1 >= y
    BY <1>1
  <1>3. \A x \in T : (\A y \in T : x >= y) => x = m + 1
    BY <1>1, <1>2
  <1>4. Max(T) = m + 1
    BY <1>2, <1>3 DEF Max
  <1> QED
    BY <1>1, <1>4

\* The next setting counts for its own key.
TakesNext(list, m, f, start) ==
  TakenAs(list, m + 1, f, start)
    = IF list[m + 1].key = f THEN list[m + 1].value ELSE TakenAs(list, m, f, start)

LEMMA TakenStep ==
  ASSUME NEW list, NEW m \in Nat, NEW f, NEW start
  PROVE  TakesNext(list, m, f, start)
  <1>0. PICK n \in Nat : n = m + 1
    OBVIOUS
  <1>1. CASE list[n].key = f
    <2>1. Those(list, n, f) = Those(list, m, f) \cup {n}
      BY <1>0, <1>1 DEF Those
    <2>2. PICK S : S = Those(list, m, f)
      OBVIOUS
    <2>3. S \subseteq 1..m
      BY <2>2 DEF Those
    <2>4. Max(S \cup {m + 1}) = m + 1
      BY <2>3, LastOne
    <2>5. Those(list, n, f) # {} /\ Max(Those(list, n, f)) = n
      BY <1>0, <2>1, <2>2, <2>4
    <2> QED
      BY <1>0, <1>1, <2>5 DEF TakenAs, TakesNext
  <1>2. CASE list[n].key # f
    <2>1. Those(list, n, f) = Those(list, m, f)
      BY <1>0, <1>2 DEF Those
    <2> QED
      BY <1>0, <1>2, <2>1 DEF TakenAs, TakesNext
  <1> QED
    BY <1>1, <1>2

LEMMA OtherValid ==
  ASSUME NEW v \in Seq(Chars)
  PROVE  Valid("other", v)
  <1>1. ~Has(v, Bad)
    <2> SUFFICES ASSUME NEW k \in DOMAIN v, v[k] = Bad PROVE FALSE
      BY DEF Has
    <2>1. v[k] \in Chars
      BY LenProperties, ElementOfSeq
    <2> QED
      BY <2>1, ConfigAssumption
  <1> QED
    BY <1>1 DEF Valid

LEMMA PartsTurn ==
  ASSUME NEW list, IsList(list), NEW base, NEW m, PartsAt(list, base, m), ParsePart
  PROVE  \/ stage' = "parts" /\ \E n : PartsAt(list, base, n)'
         \/ stage' = "failed" /\ ~AllValid(list)
  <1>1. PICK l \in Nat : l = Len(list)
    BY DEF IsList
  <1>2. m \in 0..l /\ m \in Nat
    BY <1>1 DEF PartsAt
  <1>3. PICK w \in Seq(Seq(Alphabet)) : w = Reading(list) /\ Len(w) = l
    BY <1>1, ReadingIs
  <1>4. PICK r : r = parts
    OBVIOUS
  <1>5. r = Rest(w, m) /\ r # <<>>
    BY <1>3, <1>4 DEF PartsAt, ParsePart
  <1>6. m < l
    <2> SUFFICES ASSUME m = l PROVE FALSE
      BY <1>2
    <2>1. Rest(w, m) = <<>>
      BY <1>2, <1>3, RestStep
    <2> QED
      BY <1>5, <2>1
  <1>7. PICK n \in 1..l : n = m + 1
    BY <1>2, <1>6
  <1>8. PICK key \in Keys, v \in Seq(Chars) : key = list[n].key /\ v = list[n].value
    BY <1>1 DEF IsList
  <1>9. Head(r) = w[n] /\ Tail(r) = Rest(w, n)
    <2>1. m < Len(w) /\ m <= Len(w)
      BY <1>2, <1>3, <1>6
    <2>2. Head(Rest(w, m)) = w[m + 1] /\ Tail(Rest(w, m)) = Rest(w, m + 1)
      BY <1>2, <2>1, RestStep
    <2> QED
      BY <1>5, <1>7, <2>2
  <1>10. PICK p : p = Head(r)
    OBVIOUS
  <1>11. p = Keyed(key, v)
    BY <1>1, <1>3, <1>8, <1>9, <1>10 DEF Reading
  <1>12. Has(p, "=") /\ Trimmed(Before(p, "=")) = <<key>> /\ After(p, "=") = v
    <2>1. v \in Seq(Alphabet)
      BY CharsIn
    <2>2. Has(p, "=") /\ Before(p, "=") = <<key>> /\ After(p, "=") = v
      BY <1>11, <2>1, KeyedIs
    <2> QED
      BY <2>2, TrimmedKey
  <1>13. parts' = Rest(Reading(list), n) /\ stage = "parts"
    BY <1>3, <1>4, <1>9 DEF ParsePart
  <1>14. PICK c : c = config
    OBVIOUS
  <1>15. c = [f \in Fields |-> TakenAs(list, m, f, base[f])]
    BY <1>14 DEF PartsAt
  <1>16. \A f \in Fields : TakenAs(list, n, f, base[f]) = IF key = f THEN v ELSE TakenAs(list, m, f, base[f])
    <2> SUFFICES ASSUME NEW f \in Fields
                 PROVE  TakenAs(list, n, f, base[f]) = IF key = f THEN v ELSE TakenAs(list, m, f, base[f])
      OBVIOUS
    <2>1. PICK start : start = base[f]
      OBVIOUS
    <2>2. TakenAs(list, n, f, start) = IF list[n].key = f THEN list[n].value ELSE TakenAs(list, m, f, start)
      <3>1. TakesNext(list, m, f, start)
        BY <1>2, TakenStep
      <3> QED
        BY <1>7, <3>1 DEF TakesNext
    <2> QED
      BY <1>8, <2>1, <2>2
  <1>17. ASSUME config' = [f \in Fields |-> IF key = f THEN v ELSE c[f]], Valid(key, v), stage' = stage
         PROVE  stage' = "parts" /\ \E i : PartsAt(list, base, i)'
    <2>1. config' = [f \in Fields |-> TakenAs(list, n, f, base[f])]
      BY <1>15, <1>16, <1>17
    <2>2. \A k \in 1..n : Valid(list[k].key, list[k].value)
      <3> SUFFICES ASSUME NEW k \in 1..n PROVE Valid(list[k].key, list[k].value)
        OBVIOUS
      <3>1. CASE k = n
        BY <1>8, <1>17, <3>1
      <3>2. CASE k # n
        <4>1. k \in 1..m
          BY <1>2, <1>7, <3>2
        <4> QED
          BY <4>1 DEF PartsAt
      <3> QED
        BY <3>1, <3>2
    <2>3. n \in 0..Len(list)
      BY <1>1
    <2>4. PartsAt(list, base, n)'
      BY <1>13, <2>1, <2>2, <2>3 DEF PartsAt
    <2> QED
      BY <1>13, <1>17, <2>4
  <1>18. CASE key \in Fields
    <2>1. <<key>> \in {<<f>> : f \in Fields} /\ <<key>>[1] = key
      BY <1>18
    <2>2. CASE Valid(key, v)
      <3>1. config' = [c EXCEPT ![key] = v] /\ stage' = stage
        BY <1>4, <1>10, <1>12, <1>14, <2>1, <2>2 DEF ParsePart
      <3>2. config' = [f \in Fields |-> IF key = f THEN v ELSE c[f]]
        BY <1>15, <1>18, <3>1
      <3> QED
        BY <1>17, <2>2, <3>1, <3>2
    <2>3. CASE ~Valid(key, v)
      <3>1. stage' = "failed"
        BY <1>4, <1>10, <1>12, <1>14, <2>1, <2>3 DEF ParsePart
      <3> QED
        BY <1>1, <1>8, <2>3, <3>1 DEF AllValid
    <2> QED
      BY <2>2, <2>3
  <1>19. CASE key \notin Fields
    <2>1. key = "other"
      BY <1>19 DEF Keys
    <2>2. <<key>> \notin {<<f>> : f \in Fields}
      <3> SUFFICES ASSUME NEW f \in Fields, <<key>> = <<f>> PROVE FALSE
        OBVIOUS
      <3> QED
        BY <1>19
    <2>3. config' = c /\ stage' = stage
      BY <1>4, <1>10, <1>12, <1>14, <2>2 DEF ParsePart
    <2>4. Valid(key, v)
      BY <2>1, OtherValid
    <2>5. config' = [f \in Fields |-> IF key = f THEN v ELSE c[f]]
      BY <1>15, <1>19, <2>3
    <2> QED
      BY <1>17, <2>3, <2>4, <2>5
  <1> QED
    BY <1>18, <1>19

LEMMA MaxIn ==
  ASSUME NEW m \in Nat, NEW S, S \subseteq 1..m, S # {}
  PROVE  Max(S) \in S
  <1>1. PICK D : D = {d \in Nat : m - d \in S}
    OBVIOUS
  <1>2. D \subseteq Nat
    BY <1>1
  <1>3. D # {}
    <2>1. PICK x \in S : TRUE
      OBVIOUS
    <2>2. m - x \in Nat /\ m - (m - x) = x
      BY <2>1
    <2>3. m - x \in D
      BY <1>1, <2>2
    <2> QED
      BY <2>3
  <1>4. PICK j \in D : \A d \in D : j <= d
    BY <1>2, <1>3, Least
  <1>5. PICK x \in S : x = m - j
    BY <1>1
  <1>6. \A y \in S : x >= y
    <2> SUFFICES ASSUME NEW y \in S PROVE x >= y
      OBVIOUS
    <2>1. y \in Nat /\ m - y \in Nat /\ m - (m - y) = y /\ j \in Nat
      BY <1>2
    <2>2. m - y \in D
      BY <1>1, <2>1
    <2>3. j <= m - y
      BY <1>4, <2>2
    <2> QED
      BY <1>5, <2>1, <2>3
  <1> QED
    BY <1>6 DEF Max

LEMMA ValueIsSet ==
  ASSUME NEW v \in Seq(Chars)
  PROVE  v # Unset
  <1> SUFFICES ASSUME v = Unset PROVE FALSE
    OBVIOUS
  <1>1. Len(v) = 1 /\ v[1] = Unset[1]
    BY DEF Unset
  <1>2. 1 \in 1..Len(v)
    BY <1>1
  <1>3. v[1] \in Chars
    BY <1>2, ElementOfSeq
  <1> QED
    BY <1>1, <1>3, ConfigAssumption

\* What is meant is what all the assignments make, with the default of an empty database.
LEMMA MeantIs ==
  ASSUME NEW list, IsList(list), given = list, NEW f \in Fields,
         NEW start, start \in {Start(f), Default[f]}, NEW taken, taken = Take(list, f, start)
  PROVE  Meant[f] = OrDefault(f, taken)
  <1>1. PICK l \in Nat : l = Len(list)
    BY DEF IsList
  <1>2. PICK S : S = Those(list, l, f)
    OBVIOUS
  <1>3. PICK as : as = GivenAs(f)
    OBVIOUS
  <1>4. S = {k \in DOMAIN given : given[k].key = f}
    <2>1. DOMAIN list = 1..l
      BY <1>1 DEF IsList
    <2> QED
      BY <1>2, <2>1 DEF Those
  <1>5. as = IF S = {} THEN Unset ELSE list[Max(S)].value
    BY <1>3, <1>4 DEF GivenAs
  <1>6. Meant[f] = IF as = Unset \/ (f = "dbname" /\ as = <<>>) THEN Default[f] ELSE as
    BY <1>3 DEF Meant
  <1>7. taken = IF S = {} THEN start ELSE list[Max(S)].value
    BY <1>1, <1>2 DEF Take, TakenAs
  <1>8. CASE S = {}
    BY <1>5, <1>6, <1>7, <1>8 DEF Start, OrDefault
  <1>9. CASE S # {}
    <2>1. Max(S) \in 1..l
      <3>1. S \subseteq 1..l
        BY <1>2 DEF Those
      <3> QED
        BY <1>9, <3>1, MaxIn
    <2>2. list[Max(S)].value \in Seq(Chars)
      BY <1>1, <2>1 DEF IsList
    <2>3. as # Unset /\ as = taken
      BY <1>5, <1>7, <1>9, <2>2, ValueIsSet
    <2> QED
      BY <1>6, <2>3 DEF OrDefault
  <1> QED
    BY <1>8, <1>9

LEMMA DsnStands ==
  ASSUME NEW list, IsList(list), given = list
  PROVE  Stands(list, DsnBase)
  <1>1. PICK l \in Nat : l = Len(list)
    BY DEF IsList
  <1>2. DOMAIN given = 1..l
    BY <1>1 DEF IsList
  <1>3. (\A k \in DOMAIN given : Valid(given[k].key, given[k].value)) <=> AllValid(list)
    BY <1>1, <1>2 DEF AllValid
  <1>4. ASSUME NEW f \in Fields PROVE Meant[f] = OrDefault(f, Take(list, f, DsnBase[f]))
    <2>1. PICK start, taken : start = Start(f) /\ taken = Take(list, f, start)
      OBVIOUS
    <2>2. Meant[f] = OrDefault(f, taken)
      BY <2>1, MeantIs
    <2> QED
      BY <2>1, <2>2 DEF DsnBase
  <1> QED
    BY <1>3, <1>4 DEF Stands

LEMMA SameMeant ==
  ASSUME given' = given
  PROVE  Meant' = Meant /\ (Acceptable' <=> Acceptable)
  BY DEF Acceptable, Meant, GivenAs

LEMMA StillStands ==
  ASSUME NEW list, NEW base, Stands(list, base), given' = given
  PROVE  Stands(list, base)'
  BY SameMeant DEF Stands

LEMMA PartsEnd ==
  ASSUME NEW list, IsList(list), NEW base, Stands(list, base), NEW m, PartsAt(list, base, m), PartsDone
  PROVE  ReadsAsMeant'
  <1>1. PICK l \in Nat : l = Len(list)
    BY DEF IsList
  <1>2. m \in 0..l /\ m \in Nat
    BY <1>1 DEF PartsAt
  <1>3. PICK w \in Seq(Seq(Alphabet)) : w = Reading(list) /\ Len(w) = l
    BY <1>1, ReadingIs
  <1>4. Rest(w, m) = <<>>
    BY <1>3 DEF PartsAt, PartsDone
  <1>5. m = l
    <2> SUFFICES ASSUME m < l PROVE FALSE
      BY <1>2
    <2>1. m < Len(w) /\ m <= Len(w)
      BY <1>2, <1>3
    <2>2. Rest(w, m) # <<>>
      BY <1>2, <2>1, RestStep
    <2> QED
      BY <1>4, <2>2
  <1>6. \A k \in DOMAIN given : Valid(given[k].key, given[k].value)
    <2>1. AllValid(list)
      BY <1>1, <1>5 DEF PartsAt, AllValid
    <2> QED
      BY <2>1 DEF Stands
  <1>7. PICK c, want : c = config /\ want = Meant
    OBVIOUS
  <1>8. c = [f \in Fields |-> c[f]]
    BY <1>7 DEF PartsAt
  <1>9. \A f \in Fields : want[f] = IF f = "dbname" /\ c[f] = <<>> THEN Default[f] ELSE c[f]
    <2> SUFFICES ASSUME NEW f \in Fields
                 PROVE  want[f] = IF f = "dbname" /\ c[f] = <<>> THEN Default[f] ELSE c[f]
      OBVIOUS
    <2>1. PICK taken : taken = TakenAs(list, l, f, base[f])
      OBVIOUS
    <2>2. c[f] = taken
      BY <1>5, <1>7, <2>1 DEF PartsAt
    <2>3. Meant[f] = OrDefault(f, taken)
      BY <1>1, <2>1 DEF Stands, Take
    <2>4. Meant[f] = IF f = "dbname" /\ taken = <<>> THEN Default[f] ELSE taken
      BY <2>3 DEF OrDefault
    <2> QED
      BY <1>7, <2>2, <2>4
  <1>10. want = [f \in Fields |-> want[f]]
    BY <1>7 DEF Meant
  <1>11. "user" \in Fields /\ "dbname" \in Fields
    BY DEF Fields
  <1>12. want["user"] = c["user"]
    BY <1>9, <1>11
  <1>13. Checked(c) /\ given' = given
    BY <1>7 DEF PartsDone
  <1>14. Acceptable <=> c["user"] # <<>>
    BY <1>6, <1>7, <1>12 DEF Acceptable
  <1>15. CASE c["user"] = <<>>
    <2>1. stage' = "failed"
      BY <1>13, <1>15 DEF Checked
    <2>2. ~Acceptable'
      BY <1>13, <1>14, <1>15, SameMeant
    <2> QED
      BY <2>1, <2>2 DEF ReadsAsMeant
  <1>16. CASE c["user"] # <<>>
    <2>1. stage' = "parsed" /\ config' = IF c["dbname"] = <<>> THEN [c EXCEPT !["dbname"] = Default["dbname"]] ELSE c
      BY <1>13, <1>16 DEF Checked
    <2>2. config' = [f \in Fields |-> IF f = "dbname" /\ c[f] = <<>> THEN Default[f] ELSE c[f]]
      BY <1>8, <1>11, <2>1
    <2>3. config' = want
      BY <1>9, <1>10, <2>2
    <2>4. Acceptable' /\ Meant' = want
      BY <1>7, <1>13, <1>14, <1>16, SameMeant
    <2> QED
      BY <2>1, <2>3, <2>4 DEF ReadsAsMeant
  <1> QED
    BY <1>15, <1>16

LEMMA PartsFail ==
  ASSUME NEW list, NEW base, Stands(list, base), given' = given, stage' = "failed", ~AllValid(list)
  PROVE  ReadsAsMeant'
  <1>1. ~Acceptable
    BY DEF Stands, Acceptable
  <1> QED
    BY <1>1, SameMeant DEF ReadsAsMeant

-----------------------------------------------------------------------------
(* Percent encoding *)

Escape(c) == <<"%">> \o Code[c]

\* The digits of a code, and that no two characters have the same.
LEMMA CodeIs ==
  /\ \A c \in DOMAIN Code : Code[c] \in Seq(HexDigits) /\ Len(Code[c]) = 2
  /\ \A c, d \in DOMAIN Code : Code[c] = Code[d] => c = d
  <1>1. PICK b : b = Blank
    OBVIOUS
  <1>2. b \notin {":", "@", "/", "?", "%", "+", "&", "A~", "(c)"}
    BY <1>1, Zenon DEF Blank
  <1>3. DOMAIN Code = {":", "@", "/", "?", "%", "+", b, "&", "A~", "(c)"}
    BY <1>1 DEF Code
  <1>4. /\ Code[":"] = <<"3", "a">> /\ Code["@"] = <<"4", "0">> /\ Code["/"] = <<"2", "f">>
        /\ Code["?"] = <<"3", "f">> /\ Code["%"] = <<"2", "5">> /\ Code["+"] = <<"2", "b">>
        /\ Code["&"] = <<"2", "6">> /\ Code["A~"] = <<"c", "3">> /\ Code["(c)"] = <<"a", "9">>
        /\ Code[b] = <<"2", "0">>
    BY <1>1, <1>2 DEF Code
  <1>5. ASSUME NEW c \in DOMAIN Code PROVE Code[c] \in Seq(HexDigits) /\ Len(Code[c]) = 2
    <2>1. PICK h \in HexDigits, l \in HexDigits : Code[c] = <<h, l>>
      <3>1. {"0", "2", "3", "4", "5", "6", "9", "a", "b", "c", "f"} \subseteq HexDigits
        BY DEF HexDigits
      <3>2. c \in {":", "@", "/", "?", "%", "+", b, "&", "A~", "(c)"}
        BY <1>3, <1>5
      <3> QED
        BY <1>4, <3>1, <3>2
    <2> QED
      BY <2>1
  <1>6. ASSUME NEW c \in DOMAIN Code, NEW d \in DOMAIN Code, Code[c] = Code[d] PROVE c = d
    <2>1. Code[c][1] = Code[d][1] /\ Code[c][2] = Code[d][2]
      BY <1>6
    <2>2. CASE c = b
      BY <1>3, <1>4, <2>1, <2>2
    <2>3. CASE c # b
      BY <1>3, <1>4, <2>1, <2>3
    <2> QED
      BY <2>2, <2>3
  <1> QED
    BY <1>5, <1>6

\* A symbol that none of the pieces has.
LEMMA FlattenLacks ==
  ASSUME NEW X, NEW seqs \in Seq(Seq(X)), NEW c, \A k \in 1..Len(seqs) : ~Has(seqs[k], c)
  PROVE  ~Has(FlattenSeq(seqs), c)
  <1>1. PICK n \in Nat : n = Len(seqs)
    BY LenProperties
  <1>2. PICK f \in [0..n -> Seq(X)] :
          /\ f[0] = <<>>
          /\ \A k \in 1..n : f[k] = f[k - 1] \o seqs[k]
          /\ FlattenSeq(seqs) = f[n]
    BY <1>1, FlattenSteps
  <1>3. PICK S : S = {m \in Nat : m <= n => ~Has(f[m], c)}
    OBVIOUS
  <1>4. 0 \in S
    BY <1>2, <1>3 DEF Has
  <1>5. ASSUME NEW m \in Nat, m \in S PROVE m + 1 \in S
    <2> SUFFICES ASSUME m + 1 <= n PROVE ~Has(f[m + 1], c)
      BY <1>3
    <2>1. PICK k \in 1..n : k = m + 1
      OBVIOUS
    <2>2. ~Has(f[m], c)
      BY <1>3, <1>5
    <2>3. f[k] = f[m] \o seqs[k] /\ f[m] \in Seq(X) /\ seqs[k] \in Seq(X)
      <3>1. k - 1 = m /\ m \in 0..n
        BY <2>1
      <3>2. seqs[k] \in Seq(X)
        BY <1>1, ElementOfSeq
      <3> QED
        BY <1>2, <3>1, <3>2
    <2>4. ~Has(seqs[k], c)
      BY <1>1
    <2>5. ~Has(f[m] \o seqs[k], c)
      BY <2>2, <2>3, <2>4, HasConcat
    <2> QED
      BY <2>1, <2>3, <2>5
  <1>6. Nat \subseteq S
    BY <1>4, <1>5, SetInduction
  <1> QED
    BY <1>2, <1>3, <1>6

\* A text of pieces of one symbol each.
LEMMA FlattenSingles ==
  ASSUME NEW X, NEW v \in Seq(X), NEW seqs, seqs = [k \in 1..Len(v) |-> <<v[k]>>]
  PROVE  FlattenSeq(seqs) = v
  <1>1. PICK n \in Nat : n = Len(v)
    BY LenProperties
  <1>2. seqs \in Seq(Seq(X)) /\ Len(seqs) = n
    <2>1. \A k \in 1..n : <<v[k]>> \in Seq(X)
      <3>1. \A k \in 1..n : v[k] \in X
        BY <1>1, ElementOfSeq
      <3> QED
        BY <3>1
    <2> QED
      BY <1>1, <2>1
  <1>3. PICK f \in [0..n -> Seq(X)] :
          /\ f[0] = <<>>
          /\ \A k \in 1..n : f[k] = f[k - 1] \o seqs[k]
          /\ FlattenSeq(seqs) = f[n]
    BY <1>2, FlattenSteps
  <1>4. PICK off \in [0..n -> Nat] : Offsets(seqs, FlattenSeq(seqs), off)
    BY <1>2, FlattenPlaces
  <1>5. PICK all \in Seq(X) : all = FlattenSeq(seqs)
    BY <1>2, FlattenType
  <1>6. /\ off[0] = 0 /\ Len(all) = off[n]
        /\ \A k \in 1..n : off[k] = off[k - 1] + 1 /\ all[off[k - 1] + 1] = v[k]
    <2>1. \A k \in 1..n : Len(seqs[k]) = 1 /\ seqs[k][1] = v[k]
      BY <1>1
    <2>2. off[0] = 0 /\ Len(all) = off[n]
      BY <1>2, <1>4, <1>5 DEF Offsets
    <2>3. ASSUME NEW k \in 1..n PROVE off[k] = off[k - 1] + 1 /\ all[off[k - 1] + 1] = v[k]
      <3>1. off[k] = off[k - 1] + Len(seqs[k])
        BY <1>2, <1>4 DEF Offsets
      <3>2. \A j \in 1..Len(seqs[k]) : all[off[k - 1] + j] = seqs[k][j]
        BY <1>2, <1>4, <1>5 DEF Offsets
      <3>3. Len(seqs[k]) = 1 /\ seqs[k][1] = v[k]
        BY <2>1
      <3>4. 1 \in 1..1
        OBVIOUS
      <3> QED
        BY <3>1, <3>2, <3>3, <3>4
    <2> QED
      BY <2>2, <2>3
  <1>7. PICK S : S = {m \in Nat : m <= n => off[m] = m}
    OBVIOUS
  <1>8. 0 \in S
    BY <1>6, <1>7
  <1>9. ASSUME NEW m \in Nat, m \in S PROVE m + 1 \in S
    <2> SUFFICES ASSUME m + 1 <= n PROVE off[m + 1] = m + 1
      BY <1>7
    <2>1. PICK k \in 1..n : k = m + 1
      OBVIOUS
    <2>2. k - 1 = m
      BY <2>1
    <2>3. off[m] = m
      BY <1>7, <1>9
    <2> QED
      BY <1>6, <2>1, <2>2, <2>3
  <1>10. Nat \subseteq S
    BY <1>8, <1>9, SetInduction
  <1>11. Len(all) = n
    BY <1>6, <1>7, <1>10
  <1>12. \A k \in 1..n : all[k] = v[k]
    <2> SUFFICES ASSUME NEW k \in 1..n PROVE all[k] = v[k]
      OBVIOUS
    <2>1. PICK m \in Nat : m = k - 1
      OBVIOUS
    <2>2. m + 1 = k /\ off[m] = m
      BY <1>7, <1>10, <2>1
    <2> QED
      BY <1>6, <2>1, <2>2
  <1> QED
    BY <1>1, <1>5, <1>11, <1>12, SeqEqual

LEMMA BytesSame ==
  ASSUME NEW X, NEW v \in Seq(X), ~Has(v, "e'")
  PROVE  Bytes(v) = v
  <1>1. PICK seqs : seqs = [k \in DOMAIN v |-> IF v[k] = "e'" THEN <<"A~", "(c)">> ELSE <<v[k]>>]
    OBVIOUS
  <1>2. seqs = [k \in 1..Len(v) |-> <<v[k]>>]
    BY <1>1, LenProperties DEF Has
  <1>3. FlattenSeq(seqs) = v
    BY <1>2, FlattenSingles
  <1> QED
    BY <1>1, <1>3 DEF Bytes

LEMMA EscapeIs ==
  ASSUME NEW c \in DOMAIN Code, NEW e, e = Escape(c)
  PROVE  /\ e \in Seq(Alphabet) /\ Len(e) = 3 /\ e[1] = "%" /\ e[2] = Code[c][1] /\ e[3] = Code[c][2]
         /\ \A d : Has(e, d) => d = "%" \/ d \in HexDigits
  <1>1. PICK code \in Seq(HexDigits) : code = Code[c] /\ Len(code) = 2
    BY CodeIs
  <1>2. PICK A : A = {"%"} \cup HexDigits
    OBVIOUS
  <1>3. PICK one : one = <<"%">>
    OBVIOUS
  <1>4. one \in Seq(A) /\ Len(one) = 1 /\ one[1] = "%"
    BY <1>2, <1>3
  <1>5. code \in Seq(A)
    <2>1. HexDigits \subseteq A
      BY <1>2
    <2> QED
      BY <2>1, SeqMonotonic
  <1>6. e = one \o code
    BY <1>1, <1>3 DEF Escape
  <1>7. /\ e \in Seq(A) /\ Len(e) = Len(one) + Len(code)
        /\ \A k \in 1..Len(one) : e[k] = one[k]
        /\ \A k \in 1..Len(code) : e[Len(one) + k] = code[k]
    <2>1. one \in Seq(A)
      BY <1>4
    <2>2. /\ one \o code \in Seq(A) /\ Len(one \o code) = Len(one) + Len(code)
          /\ \A k \in 1..Len(one) : (one \o code)[k] = one[k]
          /\ \A k \in 1..Len(code) : (one \o code)[Len(one) + k] = code[k]
      BY <1>5, <2>1, ConcatIs
    <2> QED
      BY <1>6, <2>2
  <1>8. Len(e) = 3 /\ (\A k \in 1..1 : e[k] = one[k]) /\ (\A k \in 1..2 : e[1 + k] = code[k])
    BY <1>1, <1>4, <1>7
  <1>9. e[1] = "%" /\ e[2] = code[1] /\ e[3] = code[2]
    <2>1. 1 \in 1..1 /\ 1 \in 1..2 /\ 2 \in 1..2 /\ 1 + 1 = 2 /\ 1 + 2 = 3
      OBVIOUS
    <2> QED
      BY <1>4, <1>8, <2>1
  <1>10. e \in Seq(Alphabet)
    <2>1. A \subseteq Alphabet
      BY <1>2 DEF Alphabet
    <2> QED
      BY <1>7, <2>1, SeqMonotonic
  <1>11. ASSUME NEW d, Has(e, d) PROVE d = "%" \/ d \in HexDigits
    <2>1. PICK k \in DOMAIN e : e[k] = d
      BY <1>11 DEF Has
    <2>2. e[k] \in A
      BY <1>7, LenProperties, ElementOfSeq
    <2> QED
      BY <1>2, <2>1, <2>2
  <1> QED
    BY <1>1, <1>8, <1>9, <1>10, <1>11

\* What percent_decode reads at each place.
ByteOf(hex) ==
  IF hex \in Range(Code) THEN CHOOSE c \in DOMAIN Code : Code[c] = hex
  ELSE IF hex[1] \in HexDigits \cup {"+"} /\ hex[2] \in HexDigits THEN "(byte)" ELSE Bad

Decoding(bytes) ==
  [k \in DOMAIN bytes |->
     IF bytes[k] = "%" /\ k + 2 <= Len(bytes)
       THEN Read(<<ByteOf(SubSeq(bytes, k + 1, k + 2))>>, k + 3)
       ELSE Read(<<IF bytes[k] = "+" THEN Blank ELSE bytes[k]>>, k + 1)]

LEMMA DecodeIs ==
  ASSUME NEW text, NEW bytes, bytes = Bytes(text)
  PROVE  percent_decode(text) = From(Len(bytes), Decoding(bytes))[1]
  BY DEF percent_decode, Decoding, ByteOf

LEMMA ByteIs ==
  ASSUME NEW c \in DOMAIN Code
  PROVE  ByteOf(Code[c]) = c
  <1>1. Code[c] \in Range(Code)
    BY DEF Range
  <1>2. (CHOOSE d \in DOMAIN Code : Code[d] = Code[c]) = c
    BY CodeIs
  <1> QED
    BY <1>1, <1>2 DEF ByteOf

LEMMA DecodingAdvances ==
  ASSUME NEW X, NEW t \in Seq(X)
  PROVE  Advances(Len(t), Decoding(t))
  <1>1. PICK n \in Nat : n = Len(t)
    BY LenProperties
  <1>2. PICK read : read = Decoding(t)
    OBVIOUS
  <1>3. ASSUME NEW k \in 1..n PROVE read[k].next \in k + 1..n + 1
    <2>1. k \in DOMAIN t
      BY <1>1, LenProperties
    <2>2. CASE t[k] = "%" /\ k + 2 <= n
      <3>1. PICK piece : piece = <<ByteOf(SubSeq(t, k + 1, k + 2))>>
        OBVIOUS
      <3>2. read[k] = Read(piece, k + 3)
        BY <1>1, <1>2, <2>1, <2>2, <3>1 DEF Decoding
      <3>3. read[k].next = k + 3
        BY <3>2 DEF Read
      <3> QED
        BY <2>2, <3>3
    <2>3. CASE ~(t[k] = "%" /\ k + 2 <= n)
      <3>1. PICK piece : piece = <<IF t[k] = "+" THEN Blank ELSE t[k]>>
        OBVIOUS
      <3>2. read[k] = Read(piece, k + 1)
        BY <1>1, <1>2, <2>1, <2>3, <3>1 DEF Decoding
      <3>3. read[k].next = k + 1
        BY <3>2 DEF Read
      <3> QED
        BY <3>3
    <2> QED
      BY <2>2, <2>3
  <1> QED
    BY <1>1, <1>2, <1>3 DEF Advances

\* A character as itself or in percent encoding.
Spells(piece, c) ==
  \/ piece = <<c>> /\ c \notin {"%", "+", "e'"}
  \/ c \in DOMAIN Code /\ piece = Escape(c)

LEMMA SpellsIs ==
  ASSUME NEW c \in Alphabet, NEW piece, Spells(piece, c)
  PROVE  piece \in Seq(Alphabet) /\ ~Has(piece, "e'")
  <1>1. CASE piece = <<c>> /\ c # "e'"
    BY <1>1 DEF Has
  <1>2. CASE c \in DOMAIN Code /\ piece = Escape(c)
    <2>1. piece \in Seq(Alphabet) /\ \A d : Has(piece, d) => d = "%" \/ d \in HexDigits
      BY <1>2, EscapeIs
    <2> QED
      BY <2>1 DEF HexDigits
  <1> QED
    BY <1>1, <1>2 DEF Spells

\* Where a piece of a text is, the text has its symbols.
LEMMA DecodesPiece ==
  ASSUME NEW t \in Seq(Alphabet), NEW o \in Nat, NEW piece, NEW c \in Alphabet, Spells(piece, c),
         o + Len(piece) <= Len(t), \A j \in 1..Len(piece) : t[o + j] = piece[j]
  PROVE  Len(piece) > 0 /\ Decoding(t)[o + 1] = Read(<<c>>, o + Len(piece) + 1)
  <1>1. PICK n \in Nat : n = Len(t)
    BY LenProperties
  <1>2. CASE piece = <<c>> /\ c \notin {"%", "+", "e'"}
    <2>1. Len(piece) = 1 /\ piece[1] = c
      BY <1>2
    <2>2. o + 1 <= n /\ o + 1 \in DOMAIN t
      BY <1>1, <2>1, LenProperties
    <2>3. t[o + 1] = c
      <3>1. 1 \in 1..1
        OBVIOUS
      <3> QED
        BY <2>1, <3>1
    <2>4. Decoding(t)[o + 1] = Read(<<c>>, o + 1 + 1)
      BY <1>2, <2>2, <2>3 DEF Decoding
    <2> QED
      BY <2>1, <2>4
  <1>3. CASE c \in DOMAIN Code /\ piece = Escape(c)
    <2>1. piece \in Seq(Alphabet) /\ Len(piece) = 3 /\ piece[1] = "%" /\ piece[2] = Code[c][1] /\ piece[3] = Code[c][2]
      BY <1>3, EscapeIs
    <2>2. o + 3 <= n /\ t[o + 1] = "%" /\ t[o + 2] = Code[c][1] /\ t[o + 3] = Code[c][2]
      <3>1. 1 \in 1..3 /\ 2 \in 1..3 /\ 3 \in 1..3
        OBVIOUS
      <3> QED
        BY <1>1, <2>1, <3>1
    <2>3. PICK k \in 1..n : k = o + 1 /\ k + 1 = o + 2 /\ k + 2 = o + 3 /\ k + 3 = o + 3 + 1
      BY <2>2
    <2>4. PICK hex : hex = SubSeq(t, k + 1, k + 2)
      OBVIOUS
    <2>5. hex = Code[c]
      <3>1. PICK i \in Nat, j \in Nat : i = k + 1 /\ j = k + 2
        OBVIOUS
      <3>2. 1 <= i /\ i <= j + 1 /\ j <= Len(t) /\ j - i + 1 = 2
        BY <1>1, <2>2, <2>3, <3>1
      <3>3. SubSeq(t, i, j) \in Seq(Alphabet) /\ Len(SubSeq(t, i, j)) = j - i + 1
            /\ \A m \in 1..j - i + 1 : SubSeq(t, i, j)[m] = t[i + m - 1]
        BY <3>2, SubSeqIs
      <3>4. hex \in Seq(Alphabet) /\ Len(hex) = 2 /\ \A m \in 1..2 : hex[m] = t[i + m - 1]
        BY <2>4, <3>1, <3>2, <3>3
      <3>5. hex[1] = t[i] /\ hex[2] = t[j]
        <4>1. 1 \in 1..2 /\ 2 \in 1..2 /\ i + 1 - 1 = i /\ i + 2 - 1 = j
          BY <3>1
        <4> QED
          BY <3>4, <4>1
      <3>6. hex[1] = Code[c][1] /\ hex[2] = Code[c][2]
        BY <2>2, <2>3, <3>1, <3>5
      <3>7. PICK code \in Seq(HexDigits) : code = Code[c] /\ Len(code) = 2
        BY <1>3, CodeIs
      <3>8. \A m \in 1..2 : hex[m] = code[m]
        <4>1. \A m \in 1..2 : m = 1 \/ m = 2
          OBVIOUS
        <4> QED
          BY <3>6, <3>7, <4>1
      <3>9. hex = code
        BY <3>4, <3>7, <3>8, SeqEqual
      <3> QED
        BY <3>7, <3>9
    <2>6. ByteOf(hex) = c
      BY <1>3, <2>5, ByteIs
    <2>7. PICK byte : byte = ByteOf(SubSeq(t, k + 1, k + 2))
      OBVIOUS
    <2>8. Decoding(t)[k] = Read(<<byte>>, k + 3)
      <3>1. k \in DOMAIN t /\ t[k] = "%" /\ k + 2 <= Len(t)
        BY <1>1, <2>2, <2>3, LenProperties
      <3> QED
        BY <2>7, <3>1 DEF Decoding
    <2> QED
      BY <2>1, <2>3, <2>4, <2>6, <2>7, <2>8
  <1> QED
    BY <1>2, <1>3 DEF Spells

\* A text of which each character is itself or in percent encoding is decoded.
LEMMA DecodesAll ==
  ASSUME NEW v \in Seq(Alphabet), NEW seqs, seqs = [k \in 1..Len(v) |-> seqs[k]],
         \A k \in 1..Len(v) : Spells(seqs[k], v[k])
  PROVE  percent_decode(FlattenSeq(seqs)) = v
  <1>1. PICK l \in Nat : l = Len(v)
    BY LenProperties
  <1>2. \A k \in 1..l : v[k] \in Alphabet
    BY <1>1, ElementOfSeq
  <1>3. \A k \in 1..l : seqs[k] \in Seq(Alphabet) /\ ~Has(seqs[k], "e'")
    BY <1>1, <1>2, SpellsIs
  <1>4. seqs \in Seq(Seq(Alphabet)) /\ Len(seqs) = l
    BY <1>1, <1>3
  <1>5. PICK t \in Seq(Alphabet) : t = FlattenSeq(seqs)
    BY <1>4, FlattenType
  <1>6. PICK n \in Nat : n = Len(t)
    BY LenProperties
  <1>7. Bytes(t) = t
    <2>1. \A k \in 1..Len(seqs) : ~Has(seqs[k], "e'")
      BY <1>3, <1>4
    <2>2. ~Has(FlattenSeq(seqs), "e'")
      BY <1>4, <2>1, FlattenLacks
    <2> QED
      BY <1>5, <2>2, BytesSame
  <1>8. PICK read : read = Decoding(t)
    OBVIOUS
  <1>9. percent_decode(t) = From(n, read)[1]
    BY <1>6, <1>7, <1>8, DecodeIs
  <1>10. Advances(n, read)
    BY <1>6, <1>8, DecodingAdvances
  <1>11. PICK off \in [0..l -> Nat] : Offsets(seqs, t, off)
    BY <1>4, <1>5, FlattenPlaces
  <1>12. off[0] = 0 /\ n = off[l]
    BY <1>4, <1>6, <1>11 DEF Offsets
  <1>13. ASSUME NEW k \in 1..l
         PROVE  /\ off[k - 1] \in Nat /\ off[k - 1] + 1 \in 1..n
                /\ read[off[k - 1] + 1] = Read(<<v[k]>>, off[k] + 1)
    <2>1. PICK o \in Nat, m \in Nat, piece \in Seq(Alphabet), c \in Alphabet :
            o = off[k - 1] /\ m = off[k] /\ piece = seqs[k] /\ c = v[k]
      <3>1. k - 1 \in 0..l /\ k \in 0..l
        OBVIOUS
      <3> QED
        BY <1>2, <1>3, <3>1
    <2>2. m = o + Len(piece) /\ o + Len(piece) <= n /\ \A j \in 1..Len(piece) : t[o + j] = piece[j]
      BY <1>4, <1>6, <1>11, <2>1 DEF Offsets
    <2>3. Spells(piece, c)
      BY <1>1, <2>1
    <2>4. Len(piece) > 0 /\ read[o + 1] = Read(<<c>>, o + Len(piece) + 1)
      BY <1>6, <1>8, <2>2, <2>3, DecodesPiece
    <2>5. o + 1 \in 1..n
      <3>1. Len(piece) \in Nat
        BY LenProperties
      <3> QED
        BY <2>2, <2>4, <3>1
    <2> QED
      BY <2>1, <2>2, <2>4, <2>5
  <1>14. PICK S : S = {k \in 1..l + 1 : From(n, read)[off[k - 1] + 1] = Rest(v, k - 1)}
    OBVIOUS
  <1>15. l + 1 \in S
    <2>1. l + 1 \in 1..l + 1 /\ (l + 1) - 1 = l
      OBVIOUS
    <2>2. From(n, read)[n + 1] = <<>>
      BY <1>10, FromStep
    <2>3. Rest(v, l) = <<>>
      BY <1>1, RestStep
    <2> QED
      BY <1>12, <1>14, <2>1, <2>2, <2>3
  <1>16. ASSUME NEW k \in 1..l, \A j \in k + 1..l + 1 : j \in S PROVE k \in S
    <2>1. PICK d \in Nat : d = k - 1 /\ d + 1 = k /\ d < l
      OBVIOUS
    <2>2. PICK p \in 1..n : p = off[d] + 1 /\ read[p] = Read(<<v[k]>>, off[k] + 1)
      BY <1>13, <2>1
    <2>3. From(n, read)[p] = read[p].piece \o From(n, read)[read[p].next]
      BY <1>10, FromStep
    <2>4. read[p].piece = <<v[k]>> /\ read[p].next = off[k] + 1
      BY <2>2 DEF Read
    <2>5. From(n, read)[off[k] + 1] = Rest(v, k)
      <3>1. k + 1 \in k + 1..l + 1 /\ (k + 1) - 1 = k
        OBVIOUS
      <3>2. k + 1 \in S
        BY <1>16, <3>1
      <3> QED
        BY <1>14, <3>1, <3>2
    <2>6. <<v[k]>> \o Rest(v, k) = Rest(v, d)
      <3>1. PICK r \in Seq(Alphabet) : r = Rest(v, d) /\ Len(r) = l - d
        <4>1. d \in 0..Len(v)
          BY <1>1, <2>1
        <4> QED
          BY <1>1, <4>1, RestIs
      <3>2. \A i \in 1..l - d : r[i] = v[i + d]
        <4>1. d \in 0..Len(v)
          BY <1>1, <2>1
        <4> QED
          BY <1>1, <3>1, <4>1, RestIs
      <3>3. r[1] = v[k]
        <4>1. 1 \in 1..l - d /\ 1 + d = k
          BY <2>1
        <4> QED
          BY <3>2, <4>1
      <3>4. Rest(r, 1) = Rest(v, k)
        <4>1. d \in 0..Len(v) /\ 1 \in 0..Len(v) - d
          BY <1>1, <2>1
        <4>2. Rest(Rest(v, d), 1) = Rest(v, d + 1)
          BY <4>1, RestRest
        <4> QED
          BY <2>1, <3>1, <4>2
      <3>5. Len(r) > 0
        BY <2>1, <3>1
      <3>6. <<r[1]>> \o Rest(r, 1) = r
        BY <3>5, HeadRest
      <3> QED
        BY <3>1, <3>3, <3>4, <3>6
    <2>7. From(n, read)[off[k - 1] + 1] = Rest(v, k - 1)
      BY <2>1, <2>2, <2>3, <2>4, <2>5, <2>6
    <2>8. k \in 1..l + 1
      OBVIOUS
    <2> QED
      BY <1>14, <2>7, <2>8
  <1>17. 1..l + 1 \subseteq S
    BY <1>15, <1>16, DownInduction
  <1>18. From(n, read)[1] = v
    <2>1. 1 \in 1..l + 1 /\ 1 - 1 = 0 /\ 0 + 1 = 1
      OBVIOUS
    <2>2. 1 \in S
      BY <1>17, <2>1
    <2>3. From(n, read)[off[0] + 1] = Rest(v, 0)
      BY <1>14, <2>1, <2>2
    <2>4. Rest(v, 0) = v
      BY RestAll
    <2> QED
      BY <1>12, <2>1, <2>3, <2>4
  <1> QED
    BY <1>5, <1>9, <1>18

\* What delimits the components of a URI.
Marks == {":", "@", "/", "?", "&"}

Encoding(bytes) == [k \in DOMAIN bytes |-> IF bytes[k] \in DOMAIN Code THEN Escape(bytes[k]) ELSE <<bytes[k]>>]

LEMMA WrittenRaw ==
  ASSUME NEW s, s.style = "raw"
  PROVE  Written(s) = s.value
  BY DEF Written

LEMMA WrittenEncoded ==
  ASSUME NEW s, s.style = "encoded"
  PROVE  Written(s) = FlattenSeq(Encoding(Bytes(s.value)))
  BY DEF Written, Encoding, Escape

LEMMA BytesType ==
  ASSUME NEW v \in Seq(Alphabet)
  PROVE  Bytes(v) \in Seq(Alphabet)
  <1>1. PICK seqs : seqs = [k \in DOMAIN v |-> IF v[k] = "e'" THEN <<"A~", "(c)">> ELSE <<v[k]>>]
    OBVIOUS
  <1>2. PICK n \in Nat : n = Len(v) /\ DOMAIN v = 1..n
    BY LenProperties
  <1>3. \A k \in 1..n : seqs[k] \in Seq(Alphabet)
    <2>1. \A k \in 1..n : v[k] \in Alphabet
      BY <1>2, ElementOfSeq
    <2>2. <<"A~", "(c)">> \in Seq(Alphabet)
      <3>1. "A~" \in Alphabet /\ "(c)" \in Alphabet
        BY DEF Alphabet
      <3> QED
        BY <3>1
    <2> QED
      BY <1>1, <1>2, <2>1, <2>2
  <1>4. seqs \in Seq(Seq(Alphabet))
    BY <1>1, <1>2, <1>3
  <1>5. FlattenSeq(seqs) \in Seq(Alphabet)
    BY <1>4, FlattenType
  <1> QED
    BY <1>1, <1>5 DEF Bytes

LEMMA EncodingIs ==
  ASSUME NEW b \in Seq(Alphabet)
  PROVE  FlattenSeq(Encoding(b)) \in Seq(Alphabet) /\ \A c \in Marks : ~Has(FlattenSeq(Encoding(b)), c)
  <1>1. PICK n \in Nat : n = Len(b) /\ DOMAIN b = 1..n
    BY LenProperties
  <1>2. PICK seqs : seqs = Encoding(b)
    OBVIOUS
  <1>3. ASSUME NEW k \in 1..n PROVE seqs[k] \in Seq(Alphabet) /\ \A c \in Marks : ~Has(seqs[k], c)
    <2>1. PICK ch \in Alphabet : ch = b[k]
      BY <1>1, ElementOfSeq
    <2>2. CASE ch \in DOMAIN Code
      <3>1. PICK e : e = Escape(ch)
        OBVIOUS
      <3>2. seqs[k] = e
        BY <1>1, <1>2, <2>1, <2>2, <3>1 DEF Encoding
      <3>3. e \in Seq(Alphabet) /\ \A d : Has(e, d) => d = "%" \/ d \in HexDigits
        BY <2>2, <3>1, EscapeIs
      <3>4. \A d \in Marks : d # "%" /\ d \notin HexDigits
        BY DEF Marks, HexDigits
      <3> QED
        BY <3>2, <3>3, <3>4
    <2>3. CASE ch \notin DOMAIN Code
      <3>1. seqs[k] = <<ch>>
        BY <1>1, <1>2, <2>1, <2>3 DEF Encoding
      <3>2. Marks \subseteq DOMAIN Code
        BY DEF Marks, Code
      <3>3. \A c \in Marks : ~Has(<<ch>>, c)
        BY <2>3, <3>2, HasOne
      <3> QED
        BY <3>1, <3>3
    <2> QED
      BY <2>2, <2>3
  <1>4. seqs \in Seq(Seq(Alphabet)) /\ Len(seqs) = n
    <2>1. seqs = [k \in 1..n |-> seqs[k]]
      BY <1>1, <1>2 DEF Encoding
    <2> QED
      BY <1>3, <2>1
  <1>5. FlattenSeq(seqs) \in Seq(Alphabet)
    BY <1>4, FlattenType
  <1>6. ASSUME NEW c \in Marks PROVE ~Has(FlattenSeq(seqs), c)
    <2>1. \A k \in 1..Len(seqs) : ~Has(seqs[k], c)
      BY <1>3, <1>4
    <2> QED
      BY <1>4, <2>1, FlattenLacks
  <1> QED
    BY <1>2, <1>5, <1>6

\* A setting that a URI can carry as it is written: raw without the delimiters of its
\* component, encoded where that is decoded or changes nothing, decoded within ASCII.
IsUriSetting(s) == s \in [key : Keys, value : Seq(Chars), style : {"raw", "encoded"}]

Spelled(s) ==
  /\ s.style = "raw" => \A c \in Delimiters[s.key] : ~Has(s.value, c)
  /\ s.style = "encoded" /\ s.key \notin Decoded => Written(s) = s.value
  /\ s.key \in Decoded => ~Has(s.value, "e'")

LEMMA WrittenIs ==
  ASSUME NEW s, IsUriSetting(s), Spelled(s)
  PROVE  /\ s.key \in Keys /\ s.value \in Seq(Chars) /\ Written(s) \in Seq(Alphabet)
         /\ \A c \in Marks \cap Delimiters[s.key] : ~Has(Written(s), c)
         /\ s.key \notin Decoded => Written(s) = s.value
  <1>1. PICK v \in Seq(Chars), key \in Keys : v = s.value /\ key = s.key
    BY DEF IsUriSetting
  <1>2. v \in Seq(Alphabet)
    BY CharsIn
  <1>3. CASE s.style = "raw"
    <2>1. Written(s) = v
      BY <1>1, <1>3, WrittenRaw
    <2> QED
      BY <1>1, <1>2, <1>3, <2>1 DEF Spelled
  <1>4. CASE s.style = "encoded"
    <2>1. PICK b \in Seq(Alphabet) : b = Bytes(v)
      BY <1>2, BytesType
    <2>2. Written(s) = FlattenSeq(Encoding(b))
      BY <1>1, <1>4, <2>1, WrittenEncoded
    <2>3. Written(s) \in Seq(Alphabet) /\ \A c \in Marks : ~Has(Written(s), c)
      BY <2>2, EncodingIs
    <2> QED
      BY <1>1, <1>4, <2>3 DEF Spelled
  <1> QED
    BY <1>3, <1>4 DEF IsUriSetting

\* What is decoded is decoded to what was written.
LEMMA WrittenDecodes ==
  ASSUME NEW s, IsUriSetting(s), Spelled(s), s.key \in Decoded
  PROVE  percent_decode(Written(s)) = s.value
  <1>1. PICK v \in Seq(Chars) : v = s.value
    BY DEF IsUriSetting
  <1>2. v \in Seq(Alphabet) /\ ~Has(v, "e'")
    BY <1>1, CharsIn DEF Spelled
  <1>3. PICK n \in Nat : n = Len(v) /\ DOMAIN v = 1..n
    BY LenProperties
  <1>4. \A k \in 1..n : v[k] \in Alphabet /\ v[k] # "e'"
    BY <1>2, <1>3, ElementOfSeq DEF Has
  <1>5. CASE s.style = "raw"
    <2>1. PICK seqs : seqs = [k \in 1..Len(v) |-> <<v[k]>>]
      OBVIOUS
    <2>2. FlattenSeq(seqs) = v
      BY <2>1, FlattenSingles
    <2>3. ASSUME NEW k \in 1..Len(v) PROVE Spells(seqs[k], v[k])
      <3>1. "%" \in Delimiters[s.key] /\ "+" \in Delimiters[s.key]
        BY DEF Decoded, Delimiters
      <3>2. ~Has(v, "%") /\ ~Has(v, "+")
        BY <1>1, <1>5, <3>1 DEF Spelled
      <3>3. v[k] # "%" /\ v[k] # "+" /\ v[k] # "e'"
        BY <1>3, <1>4, <3>2 DEF Has
      <3>4. seqs[k] = <<v[k]>>
        BY <2>1
      <3> QED
        BY <3>3, <3>4 DEF Spells
    <2>4. seqs = [k \in 1..Len(v) |-> seqs[k]]
      BY <2>1
    <2>5. percent_decode(FlattenSeq(seqs)) = v
      BY <1>2, <2>3, <2>4, DecodesAll
    <2> QED
      BY <1>1, <1>5, <2>2, <2>5, WrittenRaw
  <1>6. CASE s.style = "encoded"
    <2>1. Bytes(v) = v
      BY <1>2, BytesSame
    <2>2. PICK seqs : seqs = Encoding(v)
      OBVIOUS
    <2>3. ASSUME NEW k \in 1..Len(v) PROVE Spells(seqs[k], v[k])
      <3>1. PICK c \in Alphabet : c = v[k] /\ c # "e'"
        BY <1>3, <1>4
      <3>2. CASE c \in DOMAIN Code
        <4>1. seqs[k] = Escape(c)
          BY <1>3, <2>2, <3>1, <3>2 DEF Encoding
        <4> QED
          BY <3>1, <3>2, <4>1 DEF Spells
      <3>3. CASE c \notin DOMAIN Code
        <4>1. seqs[k] = <<c>>
          BY <1>3, <2>2, <3>1, <3>3 DEF Encoding
        <4>2. c # "%" /\ c # "+"
          BY <3>3 DEF Code
        <4> QED
          BY <3>1, <4>1, <4>2 DEF Spells
      <3> QED
        BY <3>2, <3>3
    <2>4. seqs = [k \in 1..Len(v) |-> seqs[k]]
      BY <1>3, <2>2 DEF Encoding
    <2>5. percent_decode(FlattenSeq(seqs)) = v
      BY <1>2, <2>3, <2>4, DecodesAll
    <2>6. Written(s) = FlattenSeq(seqs)
      BY <1>1, <1>6, <2>1, <2>2, WrittenEncoded
    <2> QED
      BY <1>1, <2>5, <2>6
  <1> QED
    BY <1>5, <1>6 DEF IsUriSetting

LEMMA NothingDecoded == percent_decode(<<>>) = <<>>
  <1>1. PICK v, seqs : v = <<>> /\ seqs = <<>>
    OBVIOUS
  <1>2. v \in Seq(Alphabet) /\ Len(v) = 0 /\ seqs = [k \in 1..Len(v) |-> seqs[k]]
    BY <1>1
  <1>3. percent_decode(FlattenSeq(seqs)) = v
    <2>1. \A k \in 1..Len(v) : Spells(seqs[k], v[k])
      BY <1>2
    <2> QED
      BY <1>2, <2>1, DecodesAll
  <1>4. FlattenSeq(seqs) = <<>>
    <2>1. seqs \in Seq(Seq(Alphabet)) /\ Len(seqs) = 0
      BY <1>1
    <2>2. \A k \in 1..Len(seqs) : seqs[k] = <<>>
      BY <2>1
    <2> QED
      BY <2>1, <2>2, FlattenNothing
  <1> QED
    BY <1>1, <1>3, <1>4

-----------------------------------------------------------------------------
(* Lists with the meaning of other lists *)

LEMMA MaxIs ==
  ASSUME NEW m \in Nat, NEW S, S \subseteq 1..m, NEW x \in S, \A y \in S : x >= y
  PROVE  Max(S) = x
  <1>1. \A z \in S : (\A y \in S : z >= y) => z = x
    <2> SUFFICES ASSUME NEW z \in S, \A y \in S : z >= y PROVE z = x
      OBVIOUS
    <2>1. z >= x /\ x >= z /\ x \in Nat /\ z \in Nat
      OBVIOUS
    <2> QED
      BY <2>1
  <1> QED
    BY <1>1 DEF Max

LEMMA TakenNone ==
  ASSUME NEW list, NEW m, NEW f, NEW start, \A k \in 1..m : list[k].key # f
  PROVE  TakenAs(list, m, f, start) = start
  BY DEF TakenAs, Those

\* The last setting of a key counts.
LastOf(list, m, f, p) == p \in 1..m /\ list[p].key = f /\ \A k \in 1..m : list[k].key = f => k <= p

LEMMA TakenLast ==
  ASSUME NEW list, NEW m \in Nat, NEW f, NEW start, NEW p, LastOf(list, m, f, p)
  PROVE  TakenAs(list, m, f, start) = list[p].value
  <1>1. PICK S : S = Those(list, m, f)
    OBVIOUS
  <1>2. S \subseteq 1..m /\ p \in S
    BY <1>1 DEF Those, LastOf
  <1>3. \A y \in S : p >= y
    BY <1>1 DEF Those, LastOf
  <1>4. Max(S) = p
    BY <1>2, <1>3, MaxIs
  <1> QED
    BY <1>1, <1>2, <1>4 DEF TakenAs

LEMMA LastGiven ==
  ASSUME NEW list, NEW m \in Nat, NEW f, NEW j \in 1..m, list[j].key = f
  PROVE  \E p : LastOf(list, m, f, p)
  <1>1. PICK D : D = {d \in Nat : m - d \in Those(list, m, f)}
    OBVIOUS
  <1>2. m - j \in D
    <2>1. m - j \in Nat /\ m - (m - j) = j
      OBVIOUS
    <2> QED
      BY <1>1, <2>1 DEF Those
  <1>3. D \subseteq Nat /\ D # {}
    BY <1>1, <1>2
  <1>4. PICK d \in D : \A e \in D : d <= e
    BY <1>3, Least
  <1>5. PICK p \in 1..m : p = m - d /\ list[p].key = f
    BY <1>1 DEF Those
  <1>6. ASSUME NEW k \in 1..m, list[k].key = f PROVE k <= p
    <2>1. m - k \in Nat /\ m - (m - k) = k /\ d \in Nat
      BY <1>3
    <2>2. m - k \in D
      BY <1>1, <1>6, <2>1 DEF Those
    <2>3. d <= m - k
      BY <1>4, <2>2
    <2> QED
      BY <1>5, <2>1, <2>3
  <1> QED
    BY <1>5, <1>6 DEF LastOf

\* The settings of the keys among the first m are valid.
ValidIn(list, m, keys) == \A k \in 1..m : list[k].key \in keys => Valid(list[k].key, list[k].value)

Alike(list, m, b, f) ==
  OrDefault(f, Take(b, f, Default[f])) = OrDefault(f, TakenAs(list, m, f, Default[f]))

\* The list b stands for the settings of the keys among the first m of a list.
Carries(b, keys, list, m) ==
  /\ IsList(b)
  /\ \A k \in 1..Len(b) : b[k].key \in keys
  /\ \A f \in keys \cap Fields : Alike(list, m, b, f)
  /\ AllValid(b) <=> ValidIn(list, m, keys)

\* One list behind another.
Follows(a, b, c) == c = a \o b

LEMMA BothAre ==
  ASSUME NEW a, IsList(a), NEW b, IsList(b), NEW c, Follows(a, b, c)
  PROVE  /\ IsList(c) /\ Len(a) \in Nat /\ Len(b) \in Nat /\ Len(c) = Len(a) + Len(b)
         /\ \A k \in 1..Len(a) : c[k] = a[k]
         /\ \A k \in 1..Len(b) : c[Len(a) + k] = b[k]
  <1>1. PICK m \in Nat, n \in Nat : m = Len(a) /\ n = Len(b)
    BY DEF IsList
  <1>2. PICK X : X = {a[k] : k \in 1..m} \cup {b[k] : k \in 1..n}
    OBVIOUS
  <1>3. a \in Seq(X)
    <2>1. a = [k \in 1..m |-> a[k]]
      BY <1>1 DEF IsList
    <2>2. \A k \in 1..m : a[k] \in X
      BY <1>2
    <2> QED
      BY <2>1, <2>2
  <1>4. b \in Seq(X)
    <2>1. b = [k \in 1..n |-> b[k]]
      BY <1>1 DEF IsList
    <2>2. \A k \in 1..n : b[k] \in X
      BY <1>2
    <2> QED
      BY <2>1, <2>2
  <1>5. /\ a \o b \in Seq(X) /\ Len(a \o b) = Len(a) + Len(b)
        /\ \A k \in 1..Len(a) : (a \o b)[k] = a[k]
        /\ \A k \in 1..Len(b) : (a \o b)[Len(a) + k] = b[k]
    BY <1>3, <1>4, ConcatIs
  <1>6. c \in Seq(X) /\ Len(c) = m + n /\ (\A k \in 1..m : c[k] = a[k]) /\ (\A k \in 1..n : c[m + k] = b[k])
    BY <1>1, <1>5 DEF Follows
  <1>7. ASSUME NEW k \in 1..m + n PROVE c[k].key \in Keys /\ c[k].value \in Seq(Chars)
    <2>1. CASE k <= m
      <3>1. k \in 1..m
        BY <2>1
      <3> QED
        BY <1>1, <1>6, <3>1 DEF IsList
    <2>2. CASE k > m
      <3>1. PICK j \in 1..n : j = k - m /\ m + j = k
        BY <2>2
      <3> QED
        BY <1>1, <1>6, <3>1 DEF IsList
    <2> QED
      BY <2>1, <2>2
  <1>8. c = [k \in 1..m + n |-> c[k]]
    BY <1>6
  <1>9. IsList(c)
    BY <1>6, <1>7, <1>8 DEF IsList
  <1> QED
    BY <1>1, <1>6, <1>9

\* Only one of two lists has a key.
LEMMA TakeFirst ==
  ASSUME NEW a, IsList(a), NEW b, IsList(b), NEW c, Follows(a, b, c), NEW f, NEW start,
         \A k \in 1..Len(b) : b[k].key # f
  PROVE  Take(c, f, start) = Take(a, f, start)
  <1>1. PICK m \in Nat, n \in Nat : m = Len(a) /\ n = Len(b)
    BY DEF IsList
  <1>2. Len(c) = m + n /\ (\A k \in 1..m : c[k] = a[k]) /\ (\A k \in 1..n : c[m + k] = b[k])
    BY <1>1, BothAre
  <1>3. Those(c, m + n, f) = Those(a, m, f)
    <2>1. ASSUME NEW k \in 1..m + n, c[k].key = f PROVE k \in 1..m
      <3> SUFFICES ASSUME k > m PROVE FALSE
        OBVIOUS
      <3>1. PICK j \in 1..n : j = k - m /\ m + j = k
        OBVIOUS
      <3> QED
        BY <1>1, <1>2, <2>1, <3>1
    <2> QED
      BY <1>2, <2>1 DEF Those
  <1>4. \A k \in Those(a, m, f) : c[k] = a[k]
    BY <1>2 DEF Those
  <1>5. PICK S : S = Those(a, m, f)
    OBVIOUS
  <1>6. CASE S = {}
    BY <1>1, <1>2, <1>3, <1>5, <1>6 DEF Take, TakenAs
  <1>7. CASE S # {}
    <2>1. S \subseteq 1..m
      BY <1>5 DEF Those
    <2>2. Max(S) \in S
      BY <1>7, <2>1, MaxIn
    <2> QED
      BY <1>1, <1>2, <1>3, <1>4, <1>5, <1>7, <2>2 DEF Take, TakenAs
  <1> QED
    BY <1>6, <1>7

LEMMA TakeSecond ==
  ASSUME NEW a, IsList(a), NEW b, IsList(b), NEW c, Follows(a, b, c), NEW f, NEW start,
         \A k \in 1..Len(a) : a[k].key # f
  PROVE  Take(c, f, start) = Take(b, f, start)
  <1>1. PICK m \in Nat, n \in Nat : m = Len(a) /\ n = Len(b)
    BY DEF IsList
  <1>2. Len(c) = m + n /\ (\A k \in 1..m : c[k] = a[k]) /\ (\A k \in 1..n : c[m + k] = b[k])
    BY <1>1, BothAre
  <1>3. CASE \E j \in 1..n : b[j].key = f
    <2>0. PICK p : LastOf(b, n, f, p)
      <3>1. PICK j \in 1..n : b[j].key = f
        BY <1>3
      <3> QED
        BY <3>1, LastGiven
    <2>1. p \in 1..n /\ b[p].key = f /\ \A k \in 1..n : b[k].key = f => k <= p
      BY <2>0 DEF LastOf
    <2>2. PICK q \in 1..m + n : q = m + p /\ m <= q
      <3>1. m + p \in 1..m + n /\ m <= m + p
        BY <2>1
      <3> QED
        BY <3>1
    <2>3. c[q] = b[p]
      BY <1>2, <2>1, <2>2
    <2>4. ASSUME NEW k \in 1..m + n, c[k].key = f PROVE k <= q
      <3> SUFFICES ASSUME k > m PROVE k <= q
        <4>1. k <= m => k <= q
          BY <2>2
        <4> QED
          BY <4>1
      <3>1. PICK j \in 1..n : j = k - m /\ m + j = k
        OBVIOUS
      <3>2. b[j].key = f
        BY <1>2, <2>4, <3>1
      <3>3. j <= p
        BY <2>1, <3>2
      <3> QED
        BY <2>1, <2>2, <3>1, <3>3
    <2>5. TakenAs(c, m + n, f, start) = c[q].value
      <3>1. PICK s \in Nat : s = m + n
        OBVIOUS
      <3>2. LastOf(c, s, f, q)
        BY <2>1, <2>3, <2>4, <3>1 DEF LastOf
      <3>3. TakenAs(c, s, f, start) = c[q].value
        BY <3>2, TakenLast
      <3> QED
        BY <3>1, <3>3
    <2>6. TakenAs(b, n, f, start) = b[p].value
      BY <2>0, TakenLast
    <2> QED
      BY <1>1, <1>2, <2>3, <2>5, <2>6 DEF Take
  <1>4. CASE \A j \in 1..n : b[j].key # f
    <2>1. ASSUME NEW k \in 1..m + n PROVE c[k].key # f
      <3>1. CASE k <= m
        <4>1. k \in 1..m
          BY <3>1
        <4> QED
          BY <1>1, <1>2, <4>1
      <3>2. CASE k > m
        <4>1. PICK j \in 1..n : j = k - m /\ m + j = k
          BY <3>2
        <4> QED
          BY <1>2, <1>4, <4>1
      <3> QED
        BY <3>1, <3>2
    <2>2. TakenAs(c, m + n, f, start) = start /\ TakenAs(b, n, f, start) = start
      BY <1>4, <2>1, TakenNone
    <2> QED
      BY <1>1, <1>2, <2>2 DEF Take
  <1> QED
    BY <1>3, <1>4

LEMMA CarriesBoth ==
  ASSUME NEW a, NEW b, NEW c, Follows(a, b, c), NEW keys, NEW more, keys \cap more = {}, NEW both, both = keys \cup more,
         NEW list, NEW l, Carries(a, keys, list, l), Carries(b, more, list, l)
  PROVE  Carries(c, both, list, l)
  <1>1. IsList(a) /\ IsList(b)
    BY DEF Carries
  <1>2. PICK m \in Nat, n \in Nat : m = Len(a) /\ n = Len(b)
    BY <1>1 DEF IsList
  <1>3. IsList(c) /\ Len(c) = m + n /\ (\A k \in 1..m : c[k] = a[k]) /\ (\A k \in 1..n : c[m + k] = b[k])
    BY <1>1, <1>2, BothAre
  <1>4. \A k \in 1..m + n : k \in 1..m \/ \E j \in 1..n : k = m + j
    <2> SUFFICES ASSUME NEW k \in 1..m + n, ~(k \in 1..m) PROVE \E j \in 1..n : k = m + j
      OBVIOUS
    <2>1. k - m \in 1..n /\ k = m + (k - m)
      OBVIOUS
    <2> QED
      BY <2>1
  <1>5. (\A k \in 1..m : a[k].key \in keys) /\ (\A k \in 1..n : b[k].key \in more)
    BY <1>2 DEF Carries
  <1>6. \A k \in 1..m + n : c[k].key \in both
    BY <1>3, <1>4, <1>5
  <1>7. ASSUME NEW f \in both \cap Fields PROVE Alike(list, l, c, f)
    <2>1. CASE f \in keys
      <3>1. \A k \in 1..Len(b) : b[k].key # f
        BY <1>2, <1>5, <2>1
      <3>2. Take(c, f, Default[f]) = Take(a, f, Default[f])
        BY <1>1, <3>1, TakeFirst
      <3>3. Alike(list, l, a, f)
        BY <1>7, <2>1 DEF Carries
      <3> QED
        BY <3>2, <3>3 DEF Alike
    <2>2. CASE f \in more
      <3>1. \A k \in 1..Len(a) : a[k].key # f
        BY <1>2, <1>5, <2>2
      <3>2. Take(c, f, Default[f]) = Take(b, f, Default[f])
        BY <1>1, <3>1, TakeSecond
      <3>3. Alike(list, l, b, f)
        BY <1>7, <2>2 DEF Carries
      <3> QED
        BY <3>2, <3>3 DEF Alike
    <2> QED
      BY <1>7, <2>1, <2>2
  <1>8. AllValid(c) <=> AllValid(a) /\ AllValid(b)
    <2>1. (\A k \in 1..m + n : Valid(c[k].key, c[k].value))
            <=> (\A k \in 1..m : Valid(a[k].key, a[k].value)) /\ (\A k \in 1..n : Valid(b[k].key, b[k].value))
      <3>1. \A k \in 1..m : k \in 1..m + n
        OBVIOUS
      <3>2. \A k \in 1..n : m + k \in 1..m + n
        OBVIOUS
      <3> QED
        BY <1>3, <1>4, <3>1, <3>2
    <2> QED
      BY <1>2, <1>3, <2>1 DEF AllValid
  <1>9. ValidIn(list, l, both) <=> ValidIn(list, l, keys) /\ ValidIn(list, l, more)
    BY DEF ValidIn
  <1>10. AllValid(c) <=> ValidIn(list, l, both)
    BY <1>8, <1>9 DEF Carries
  <1> QED
    BY <1>3, <1>6, <1>7, <1>10 DEF Carries

LEMMA ReadingBoth ==
  ASSUME NEW a, IsList(a), NEW b, IsList(b), NEW c, Follows(a, b, c)
  PROVE  Reading(c) = Reading(a) \o Reading(b)
  <1>1. PICK m \in Nat, n \in Nat : m = Len(a) /\ n = Len(b)
    BY DEF IsList
  <1>2. IsList(c) /\ Len(c) = m + n /\ (\A k \in 1..m : c[k] = a[k]) /\ (\A k \in 1..n : c[m + k] = b[k])
    BY <1>1, BothAre
  <1>3. PICK v \in Seq(Seq(Alphabet)), w \in Seq(Seq(Alphabet)), x \in Seq(Seq(Alphabet)) :
          v = Reading(a) /\ w = Reading(b) /\ x = Reading(c) /\ Len(v) = m /\ Len(w) = n /\ Len(x) = m + n
    BY <1>1, <1>2, ReadingIs
  <1>4. PICK y : y = v \o w
    OBVIOUS
  <1>5. y \in Seq(Seq(Alphabet)) /\ Len(y) = m + n /\ (\A k \in 1..m : y[k] = v[k]) /\ (\A k \in 1..n : y[m + k] = w[k])
    <2>1. /\ v \o w \in Seq(Seq(Alphabet)) /\ Len(v \o w) = Len(v) + Len(w)
          /\ \A k \in 1..Len(v) : (v \o w)[k] = v[k]
          /\ \A k \in 1..Len(w) : (v \o w)[Len(v) + k] = w[k]
      BY ConcatIs
    <2> QED
      BY <1>3, <1>4, <2>1
  <1>6. ASSUME NEW k \in 1..m + n PROVE x[k] = y[k]
    <2>1. x[k] = Keyed(c[k].key, c[k].value)
      BY <1>2, <1>3 DEF Reading
    <2>2. CASE k <= m
      <3>1. k \in 1..m
        BY <2>2
      <3>2. v[k] = Keyed(a[k].key, a[k].value)
        BY <1>1, <1>3, <3>1 DEF Reading
      <3> QED
        BY <1>2, <1>5, <2>1, <3>1, <3>2
    <2>3. CASE k > m
      <3>1. PICK j \in 1..n : j = k - m /\ m + j = k
        BY <2>3
      <3>2. w[j] = Keyed(b[j].key, b[j].value)
        BY <1>1, <1>3, <3>1 DEF Reading
      <3> QED
        BY <1>2, <1>5, <2>1, <3>1, <3>2
    <2> QED
      BY <2>2, <2>3
  <1>7. x = y
    BY <1>3, <1>5, <1>6, SeqEqual
  <1> QED
    BY <1>3, <1>4, <1>7

-----------------------------------------------------------------------------
(* The components of a URI *)

Gives(list, key) == \E k \in 1..Len(list) : list[k].key = key

\* A list of settings that can be written as a URI.
IsUri(list) ==
  /\ list = [k \in 1..Len(list) |-> list[k]] /\ Len(list) \in Nat
  /\ \A k \in 1..Len(list) : IsUriSetting(list[k]) /\ Spelled(list[k])
  /\ \A j, k \in 1..Len(list) : list[j].key = list[k].key => j = k \/ list[j].key \in QueryKeys
  /\ Gives(list, "port") => Gives(list, "host")
  /\ \A k \in 1..Len(list) : list[k].key = "host" /\ list[k].value = <<>> => Gives(list, "port")

LEMMA UriSetting ==
  ASSUME NEW list, IsUri(list), NEW k \in 1..Len(list)
  PROVE  IsUriSetting(list[k]) /\ Spelled(list[k]) /\ list[k].key \in Keys /\ list[k].value \in Seq(Chars)
  BY DEF IsUri, IsUriSetting

LEMMA UriIsList ==
  ASSUME NEW list, IsUri(list)
  PROVE  IsList(list)
  <1>1. list = [k \in 1..Len(list) |-> list[k]] /\ Len(list) \in Nat
    BY DEF IsUri
  <1>2. ASSUME NEW k \in 1..Len(list) PROVE list[k].key \in Keys /\ list[k].value \in Seq(Chars)
    BY UriSetting
  <1> QED
    BY <1>1, <1>2 DEF IsList

Pair(key, value) == [key |-> key, value |-> value]

LEMMA OneIs ==
  ASSUME NEW key \in Keys, NEW v \in Seq(Chars), NEW b, b = <<Pair(key, v)>>
  PROVE  /\ IsList(b) /\ Len(b) = 1 /\ b[1].key = key /\ b[1].value = v /\ Reading(b) = <<Keyed(key, v)>>
         /\ \A f, start : Take(b, f, start) = IF key = f THEN v ELSE start
  <1>1. Len(b) = 1 /\ b[1].key = key /\ b[1].value = v /\ b = [k \in 1..1 |-> b[k]]
    BY DEF Pair
  <1>2. IsList(b)
    BY <1>1 DEF IsList
  <1>3. Reading(b) = <<Keyed(key, v)>>
    BY <1>1 DEF Reading
  <1>4. ASSUME NEW f, NEW start PROVE Take(b, f, start) = IF key = f THEN v ELSE start
    <2>1. CASE key = f
      <3>1. LastOf(b, 1, f, 1)
        BY <1>1, <2>1 DEF LastOf
      <3>2. TakenAs(b, 1, f, start) = b[1].value
        BY <3>1, TakenLast
      <3> QED
        BY <1>1, <2>1, <3>2 DEF Take
    <2>2. CASE key # f
      <3>1. \A k \in 1..1 : b[k].key # f
        BY <1>1, <2>2
      <3>2. TakenAs(b, 1, f, start) = start
        BY <3>1, TakenNone
      <3> QED
        BY <1>1, <2>2, <3>2 DEF Take
    <2> QED
      BY <2>1, <2>2
  <1> QED
    BY <1>1, <1>2, <1>3, <1>4

LEMMA NoneIs ==
  ASSUME NEW b, b = <<>>
  PROVE  IsList(b) /\ Len(b) = 0 /\ Reading(b) = <<>> /\ AllValid(b) /\ \A f, start : Take(b, f, start) = start
  <1>1. Len(b) = 0 /\ b = [k \in 1..0 |-> b[k]]
    OBVIOUS
  <1>2. IsList(b)
    BY <1>1 DEF IsList
  <1>3. Reading(b) = <<>>
    BY <1>1 DEF Reading
  <1>4. ASSUME NEW f, NEW start PROVE Take(b, f, start) = start
    <2>1. TakenAs(b, 0, f, start) = start
      <3>1. \A k \in 1..0 : b[k].key # f
        OBVIOUS
      <3> QED
        BY <3>1, TakenNone
    <2> QED
      BY <1>1, <2>1 DEF Take
  <1>5. AllValid(b)
    BY <1>1 DEF AllValid
  <1> QED
    BY <1>1, <1>2, <1>3, <1>4, <1>5

\* A list with at most one setting, for a key that a list gives at most once.
LEMMA CarriesNone ==
  ASSUME NEW list, IsUri(list), NEW key, ~Gives(list, key), NEW l, l = Len(list), NEW keys, keys = {key}
  PROVE  Carries(<<>>, keys, list, l)
  <1>1. PICK b : b = <<>>
    OBVIOUS
  <1>2. IsList(b) /\ Len(b) = 0 /\ AllValid(b) /\ \A f, start : Take(b, f, start) = start
    BY <1>1, NoneIs
  <1>3. \A k \in 1..l : list[k].key # key
    BY DEF Gives
  <1>4. ASSUME NEW f \in keys PROVE Alike(list, l, b, f)
    <2>1. TakenAs(list, l, f, Default[f]) = Default[f]
      BY <1>3, TakenNone
    <2>2. Take(b, f, Default[f]) = Default[f]
      BY <1>2
    <2> QED
      BY <2>1, <2>2 DEF Alike
  <1>5. ValidIn(list, l, keys)
    BY <1>3 DEF ValidIn
  <1>6. \A k \in 1..Len(b) : b[k].key \in keys
    BY <1>2
  <1>7. Carries(b, keys, list, l)
    BY <1>2, <1>4, <1>5, <1>6 DEF Carries
  <1> QED
    BY <1>1, <1>7

OnlyOne(list, l, key, p) ==
  /\ \A k \in 1..l : list[k].key = key => k = p
  /\ \A start : TakenAs(list, l, key, start) = list[p].value
  /\ ValidIn(list, l, {key}) <=> Valid(key, list[p].value)

LEMMA OneGiven ==
  ASSUME NEW list, IsUri(list), NEW p \in 1..Len(list), NEW key, list[p].key = key, key \notin QueryKeys,
         NEW l, l = Len(list)
  PROVE  OnlyOne(list, l, key, p)
  <1>1. key \in Keys /\ l \in Nat
    BY UriSetting DEF IsUri
  <1>2. \A k \in 1..l : list[k].key = key => k = p
    BY DEF IsUri
  <1>3. LastOf(list, l, key, p)
    BY <1>1, <1>2 DEF LastOf
  <1>4. \A start : TakenAs(list, l, key, start) = list[p].value
    BY <1>1, <1>3, TakenLast
  <1>5. ValidIn(list, l, {key}) <=> Valid(key, list[p].value)
    BY <1>2 DEF ValidIn
  <1> QED
    BY <1>2, <1>4, <1>5 DEF OnlyOne

LEMMA CarriesOne ==
  ASSUME NEW list, IsUri(list), NEW p \in 1..Len(list), NEW key, list[p].key = key, key \notin QueryKeys,
         NEW l, l = Len(list), NEW keys, keys = {key}, NEW v, v = list[p].value
  PROVE  Carries(<<Pair(key, v)>>, keys, list, l)
  <1>1. PICK b : b = <<Pair(key, v)>>
    OBVIOUS
  <1>2. key \in Keys /\ v \in Seq(Chars)
    BY UriSetting
  <1>3. /\ IsList(b) /\ Len(b) = 1 /\ b[1].key = key /\ b[1].value = v
        /\ \A f, start : Take(b, f, start) = IF key = f THEN v ELSE start
    BY <1>1, <1>2, OneIs
  <1>4. ASSUME NEW f \in keys PROVE Alike(list, l, b, f)
    <2>1. PICK start : start = Default[f]
      OBVIOUS
    <2>2. TakenAs(list, l, key, start) = v
      <3>1. OnlyOne(list, l, key, p)
        BY OneGiven
      <3> QED
        BY <3>1 DEF OnlyOne
    <2>3. Take(b, f, start) = v /\ key = f
      BY <1>3, <1>4
    <2> QED
      BY <2>1, <2>2, <2>3 DEF Alike
  <1>5. AllValid(b) <=> Valid(key, v)
    <2>1. \A k \in 1..1 : k = 1
      OBVIOUS
    <2>2. 1 \in 1..1
      OBVIOUS
    <2> QED
      BY <1>3, <2>1, <2>2 DEF AllValid
  <1>6. ValidIn(list, l, keys) <=> Valid(key, v)
    <2>1. OnlyOne(list, l, key, p)
      BY OneGiven
    <2> QED
      BY <2>1 DEF OnlyOne
  <1>7. \A k \in 1..Len(b) : b[k].key \in keys
    <2>1. \A k \in 1..1 : k = 1
      OBVIOUS
    <2> QED
      BY <1>3, <2>1
  <1>8. Carries(b, keys, list, l)
    BY <1>3, <1>4, <1>5, <1>6, <1>7 DEF Carries
  <1> QED
    BY <1>1, <1>8

\* An empty user or database is as good as none.
LEMMA CarriesEmpty ==
  ASSUME NEW list, IsUri(list), NEW p \in 1..Len(list), NEW key \in {"user", "dbname"}, list[p].key = key,
         NEW l, l = Len(list), NEW keys, keys = {key}, list[p].value = <<>>
  PROVE  Carries(<<>>, keys, list, l)
  <1>1. PICK b : b = <<>>
    OBVIOUS
  <1>2. IsList(b) /\ Len(b) = 0 /\ AllValid(b) /\ \A f, start : Take(b, f, start) = start
    BY <1>1, NoneIs
  <1>3. key \notin QueryKeys
    BY DEF QueryKeys
  <1>4. ASSUME NEW f \in keys PROVE Alike(list, l, b, f)
    <2>1. PICK start : start = Default[f]
      OBVIOUS
    <2>2. TakenAs(list, l, key, start) = list[p].value
      <3>1. OnlyOne(list, l, key, p)
        BY <1>3, OneGiven
      <3> QED
        BY <3>1 DEF OnlyOne
    <2>3. Take(b, f, start) = start /\ key = f
      BY <1>2, <1>4
    <2>4. OrDefault(f, start) = OrDefault(f, <<>>)
      BY <2>1, <2>3 DEF OrDefault, Default
    <2> QED
      BY <2>1, <2>2, <2>3, <2>4 DEF Alike
  <1>5. ValidIn(list, l, keys)
    <2>1. Valid(key, list[p].value)
      BY EmptyValid
    <2>2. OnlyOne(list, l, key, p)
      BY <1>3, OneGiven
    <2> QED
      BY <2>1, <2>2 DEF OnlyOne
  <1>6. \A k \in 1..Len(b) : b[k].key \in keys
    BY <1>2
  <1>7. Carries(b, keys, list, l)
    BY <1>2, <1>4, <1>5, <1>6 DEF Carries
  <1> QED
    BY <1>1, <1>7

\* Where only a password is given, the user is empty.
LEMMA CarriesUser ==
  ASSUME NEW list, IsUri(list), ~Gives(list, "user"), NEW l, l = Len(list), NEW keys, keys = {"user"}
  PROVE  Carries(<<Pair("user", <<>>)>>, keys, list, l)
  <1>1. PICK b, v, key : v = <<>> /\ key = "user" /\ b = <<Pair(key, v)>>
    OBVIOUS
  <1>2. key \in Keys /\ v \in Seq(Chars)
    BY <1>1 DEF Keys, Fields
  <1>3. /\ IsList(b) /\ Len(b) = 1 /\ b[1].key = key /\ b[1].value = v
        /\ \A f, start : Take(b, f, start) = IF key = f THEN v ELSE start
    <2>1. b = <<Pair(key, v)>>
      BY <1>1
    <2> QED
      BY <1>2, <2>1, OneIs
  <1>4. \A k \in 1..l : list[k].key # key
    BY <1>1 DEF Gives
  <1>5. ASSUME NEW f \in keys PROVE Alike(list, l, b, f)
    <2>1. PICK start : start = Default[f]
      OBVIOUS
    <2>2. TakenAs(list, l, f, start) = start
      BY <1>1, <1>4, TakenNone
    <2>3. Take(b, f, start) = v
      BY <1>1, <1>3
    <2>4. start = v
      BY <1>1, <2>1 DEF Default
    <2> QED
      BY <2>1, <2>2, <2>3, <2>4 DEF Alike
  <1>6. AllValid(b)
    <2>1. \A k \in 1..1 : k = 1
      OBVIOUS
    <2> QED
      BY <1>1, <1>3, <2>1, EmptyValid DEF AllValid
  <1>7. ValidIn(list, l, keys)
    BY <1>1, <1>4 DEF ValidIn
  <1>8. \A k \in 1..Len(b) : b[k].key \in keys
    <2>1. \A k \in 1..1 : k = 1
      OBVIOUS
    <2> QED
      BY <1>1, <1>3, <2>1
  <1>9. Carries(b, keys, list, l)
    BY <1>3, <1>5, <1>6, <1>7, <1>8 DEF Carries
  <1> QED
    BY <1>1, <1>9

\* What WriteUri writes of a component.
Part(list, key, prefix) ==
  FlattenSeq([k \in DOMAIN list |-> IF list[k].key = key THEN prefix \o Written(list[k]) ELSE <<>>])

LEMMA PartMissing ==
  ASSUME NEW list, IsUri(list), NEW key, ~Gives(list, key), NEW prefix
  PROVE  Part(list, key, prefix) = <<>>
  <1>1. PICK l \in Nat : l = Len(list) /\ DOMAIN list = 1..l
    BY DEF IsUri
  <1>2. PICK seqs : seqs = [k \in DOMAIN list |-> IF list[k].key = key THEN prefix \o Written(list[k]) ELSE <<>>]
    OBVIOUS
  <1>3. \A k \in 1..l : seqs[k] = <<>>
    BY <1>1, <1>2 DEF Gives
  <1>4. seqs = [k \in 1..l |-> <<>>]
    BY <1>1, <1>2, <1>3
  <1>5. seqs \in Seq(Seq({})) /\ Len(seqs) = l
    BY <1>4
  <1>6. FlattenSeq(seqs) = <<>>
    BY <1>3, <1>5, FlattenNothing
  <1> QED
    BY <1>2, <1>6 DEF Part

LEMMA PartGiven ==
  ASSUME NEW list, IsUri(list), NEW p \in 1..Len(list), NEW key, list[p].key = key, key \notin QueryKeys,
         NEW prefix \in Seq(Alphabet)
  PROVE  Part(list, key, prefix) = prefix \o Written(list[p])
  <1>1. PICK l \in Nat : l = Len(list) /\ DOMAIN list = 1..l
    BY DEF IsUri
  <1>2. PICK seqs : seqs = [k \in DOMAIN list |-> IF list[k].key = key THEN prefix \o Written(list[k]) ELSE <<>>]
    OBVIOUS
  <1>3. \A k \in 1..l : list[k].key = key => k = p
    <2>1. OnlyOne(list, l, key, p)
      BY <1>1, OneGiven
    <2> QED
      BY <2>1 DEF OnlyOne
  <1>4. \A k \in 1..l : k # p => seqs[k] = <<>>
    BY <1>1, <1>2, <1>3
  <1>5. seqs[p] = prefix \o Written(list[p])
    BY <1>1, <1>2
  <1>6. prefix \o Written(list[p]) \in Seq(Alphabet)
    <2>1. PICK w \in Seq(Alphabet) : w = Written(list[p])
      BY UriSetting, WrittenIs
    <2> QED
      BY <2>1, ConcatIs
  <1>7. \A k \in 1..l : seqs[k] \in Seq(Alphabet)
    <2>1. <<>> \in Seq(Alphabet)
      OBVIOUS
    <2> QED
      BY <1>4, <1>5, <1>6, <2>1
  <1>8. seqs = [k \in 1..l |-> seqs[k]]
    BY <1>1, <1>2
  <1>9. seqs \in Seq(Seq(Alphabet)) /\ Len(seqs) = l
    BY <1>7, <1>8
  <1>10. FlattenSeq(seqs) = seqs[p]
    BY <1>1, <1>4, <1>9, FlattenOnly
  <1> QED
    BY <1>2, <1>5, <1>10 DEF Part

-----------------------------------------------------------------------------
(* The query of a URI *)

LEMMA FromPairIs ==
  ASSUME NEW pair
  PROVE  FromPair(pair) = <<>> \/ FromPair(pair) = <<FromPair(pair)[1]>>
  <1>1. PICK x : x = <<Before(pair, "=")[1], "=">> \o
                       (IF Before(pair, "=")[1] = "application_name" THEN percent_decode(After(pair, "="))
                                                                      ELSE After(pair, "="))
    OBVIOUS
  <1>2. FromPair(pair) = <<>> \/ FromPair(pair) = <<x>>
    BY <1>1 DEF FromPair
  <1> QED
    BY <1>2

\* A pair of the query that is read as a setting.
Says(p, x) == p \in Seq(Alphabet) /\ ~Has(p, "&") /\ FromPair(p) = <<x>>

LEMMA QuerySays ==
  ASSUME NEW s, IsUriSetting(s), Spelled(s), s.key \in QueryKeys
  PROVE  Says(Keyed(s.key, Written(s)), Keyed(s.key, s.value))
  <1>1. PICK key, w, v, p : key = s.key /\ w = Written(s) /\ v = s.value /\ p = Keyed(key, w)
    OBVIOUS
  <1>2. key \in Keys /\ key \in QueryKeys /\ w \in Seq(Alphabet)
    BY <1>1, WrittenIs
  <1>3. ~Has(w, "&")
    <2>1. "&" \in Marks \cap Delimiters[s.key]
      BY DEF Marks, Delimiters, QueryKeys
    <2> QED
      BY <1>1, <2>1, WrittenIs
  <1>4. p \in Seq(Alphabet) /\ Has(p, "=") /\ Before(p, "=") = <<key>> /\ After(p, "=") = w
    BY <1>1, <1>2, KeyedIs
  <1>5. ~Has(p, "&")
    <2>1. PICK two : two = <<key, "=">>
      OBVIOUS
    <2>2. two \in Seq(Alphabet) /\ Len(two) = 2 /\ two[1] = key /\ two[2] = "="
      <3>1. key \in Alphabet /\ "=" \in Alphabet
        BY <1>2, KeyIs DEF Alphabet
      <3> QED
        BY <2>1, <3>1
    <2>3. ~Has(two, "&")
      <3>1. key # "&"
        BY <1>2 DEF QueryKeys
      <3>2. \A i \in 1..2 : i = 1 \/ i = 2
        OBVIOUS
      <3>3. DOMAIN two = 1..2
        BY <2>2
      <3> QED
        BY <2>2, <3>1, <3>2, <3>3 DEF Has
    <2>4. two \in Seq(Alphabet)
      BY <2>2
    <2>5. ~Has(two \o w, "&")
      BY <1>2, <1>3, <2>3, <2>4, HasConcat
    <2> QED
      BY <1>1, <2>1, <2>5 DEF Keyed
  <1>6. (IF key = "application_name" THEN percent_decode(w) ELSE w) = v
    <2>1. CASE key = "application_name"
      <3>1. s.key \in Decoded
        BY <1>1, <2>1 DEF Decoded
      <3>2. percent_decode(Written(s)) = s.value
        BY <3>1, WrittenDecodes
      <3> QED
        BY <1>1, <2>1, <3>2
    <2>2. CASE key # "application_name"
      <3>1. s.key \notin Decoded
        BY <1>1, <1>2, <2>2 DEF Decoded, QueryKeys
      <3>2. Written(s) = s.value
        BY <3>1, WrittenIs
      <3> QED
        BY <1>1, <2>2, <3>2
    <2> QED
      BY <2>1, <2>2
  <1>7. FromPair(p) = <<Keyed(key, v)>>
    <2>1. Before(p, "=")[1] = key /\ Before(p, "=") \in {<<f>> : f \in QueryKeys}
      BY <1>2, <1>4
    <2>2. FromPair(p) = << <<key, "=">> \o (IF key = "application_name" THEN percent_decode(w) ELSE w) >>
      BY <1>4, <2>1 DEF FromPair
    <2> QED
      BY <1>6, <2>2 DEF Keyed
  <1> QED
    BY <1>1, <1>4, <1>5, <1>7 DEF Says

LEMMA QueryNone == FromQuery(<<>>) = <<>>
  <1>1. PICK t : t = <<>>
    OBVIOUS
  <1>2. t \in Seq({}) /\ ~Has(t, "&") /\ ~Has(t, "=")
    BY <1>1 DEF Has
  <1>3. Split(t, "&") = <<t>>
    BY <1>2, SplitNone
  <1>4. PICK pairs : pairs = Split(t, "&")
    OBVIOUS
  <1>5. FromPair(t) = <<>>
    BY <1>2 DEF FromPair
  <1>6. PICK seqs : seqs = [k \in DOMAIN pairs |-> FromPair(pairs[k])]
    OBVIOUS
  <1>7. Len(seqs) = 1 /\ seqs \in Seq(Seq({})) /\ \A k \in 1..Len(seqs) : seqs[k] = <<>>
    <2>1. DOMAIN pairs = 1..1 /\ pairs[1] = t
      BY <1>3, <1>4
    <2>2. seqs = [k \in 1..1 |-> <<>>]
      BY <1>5, <1>6, <2>1
    <2> QED
      BY <2>2
  <1>8. FlattenSeq(seqs) = <<>>
    BY <1>7, FlattenNothing
  <1> QED
    BY <1>1, <1>4, <1>6, <1>8 DEF FromQuery

LEMMA QueryOne ==
  ASSUME NEW p, NEW x, Says(p, x)
  PROVE  FromQuery(p) = <<x>>
  <1>1. Split(p, "&") = <<p>>
    BY SplitNone DEF Says
  <1>2. PICK pairs : pairs = Split(p, "&")
    OBVIOUS
  <1>3. PICK seqs : seqs = [k \in DOMAIN pairs |-> FromPair(pairs[k])]
    OBVIOUS
  <1>4. DOMAIN pairs = 1..1 /\ pairs[1] = p
    BY <1>1, <1>2
  <1>5. seqs = [k \in 1..1 |-> <<x>>]
    BY <1>3, <1>4 DEF Says
  <1>6. seqs \in Seq(Seq({x})) /\ Len(seqs) = 1 /\ seqs[1] = <<x>>
    BY <1>5
  <1>7. FlattenSeq(seqs) = seqs[1]
    <2>1. 1 \in 1..Len(seqs) /\ \A k \in 1..Len(seqs) : k # 1 => seqs[k] = <<>>
      BY <1>6
    <2> QED
      BY <1>6, <2>1, FlattenOnly
  <1> QED
    BY <1>2, <1>3, <1>6, <1>7 DEF FromQuery

\* One more pair in the query.
AsksMore(t, r, x) == FromQuery(t) = FromQuery(r) \o <<x>>

LEMMA QueryMore ==
  ASSUME NEW r \in Seq(Alphabet), NEW p, NEW x, Says(p, x), NEW t, Joined(t, r, "&", p)
  PROVE  AsksMore(t, r, x)
  <1>1. PICK pairs, more : pairs = Split(r, "&") /\ more = Split(t, "&")
    OBVIOUS
  <1>2. pairs \in Seq(Seq(Alphabet))
    BY <1>1, SplitType
  <1>3. PICK n \in Nat : n = Len(pairs) /\ DOMAIN pairs = 1..n
    BY <1>2, LenProperties
  <1>4. more = pairs \o <<p>>
    <2>1. PICK c \in Alphabet : c = "&"
      BY DEF Alphabet
    <2>2. p \in Seq(Alphabet) /\ ~Has(p, c)
      BY <2>1 DEF Says
    <2>3. Joined(t, r, c, p)
      BY <2>1
    <2>4. SplitsMore(t, r, c, p)
      BY <2>2, <2>3, SplitMore
    <2> QED
      BY <1>1, <2>1, <2>4 DEF SplitsMore
  <1>5. Len(more) = n + 1 /\ DOMAIN more = 1..n + 1 /\ more[n + 1] = p /\ \A k \in 1..n : more[k] = pairs[k]
    <2>1. PICK one : one = <<p>>
      OBVIOUS
    <2>2. one \in Seq(Seq(Alphabet)) /\ Len(one) = 1 /\ one[1] = p
      BY <2>1 DEF Says
    <2>3. one \in Seq(Seq(Alphabet))
      BY <2>2
    <2>4. /\ pairs \o one \in Seq(Seq(Alphabet)) /\ Len(pairs \o one) = Len(pairs) + Len(one)
          /\ \A k \in 1..Len(pairs) : (pairs \o one)[k] = pairs[k]
          /\ \A k \in 1..Len(one) : (pairs \o one)[Len(pairs) + k] = one[k]
      BY <1>2, <2>3, ConcatIs
    <2>5. more = pairs \o one
      BY <1>4, <2>1
    <2>6. more \in Seq(Seq(Alphabet)) /\ Len(more) = n + 1 /\ (\A k \in 1..n : more[k] = pairs[k])
          /\ \A k \in 1..1 : more[n + k] = one[k]
      BY <1>3, <2>2, <2>4, <2>5
    <2>7. 1 \in 1..1
      OBVIOUS
    <2> QED
      BY <2>2, <2>6, <2>7, LenProperties
  <1>6. PICK seqs, all : seqs = [k \in 1..n |-> FromPair(pairs[k])] /\ all = [k \in 1..n + 1 |-> FromPair(more[k])]
    OBVIOUS
  <1>7. PICK X : X = {FromPair(pairs[k])[1] : k \in 1..n} \cup {x}
    OBVIOUS
  <1>8. seqs \in Seq(Seq(X)) /\ Len(seqs) = n
    <2>1. ASSUME NEW k \in 1..n PROVE FromPair(pairs[k]) \in Seq(X)
      <3>1. PICK y : y = FromPair(pairs[k])
        OBVIOUS
      <3>2. y = <<>> \/ y = <<y[1]>>
        BY <3>1, FromPairIs
      <3>3. y[1] \in X
        BY <1>7, <3>1
      <3>4. <<>> \in Seq(X) /\ <<y[1]>> \in Seq(X)
        BY <3>3
      <3> QED
        BY <3>1, <3>2, <3>4
    <2> QED
      BY <1>6, <2>1
  <1>9. <<x>> \in Seq(X)
    BY <1>7
  <1>10. all = seqs \o << <<x>> >>
    <2>1. PICK one : one = << <<x>> >>
      OBVIOUS
    <2>2. one \in Seq(Seq(X)) /\ Len(one) = 1 /\ one[1] = <<x>>
      BY <1>9, <2>1
    <2>3. one \in Seq(Seq(X)) /\ seqs \in Seq(Seq(X))
      BY <1>8, <2>2
    <2>4. /\ seqs \o one \in Seq(Seq(X)) /\ Len(seqs \o one) = Len(seqs) + Len(one)
          /\ \A k \in 1..Len(seqs) : (seqs \o one)[k] = seqs[k]
          /\ \A k \in 1..Len(one) : (seqs \o one)[Len(seqs) + k] = one[k]
      BY <2>3, ConcatIs
    <2>5. PICK both : both = seqs \o one
      OBVIOUS
    <2>6. both \in Seq(Seq(X)) /\ Len(both) = n + 1 /\ (\A k \in 1..n : both[k] = seqs[k])
          /\ \A k \in 1..1 : both[n + k] = one[k]
      BY <1>8, <2>2, <2>4, <2>5
    <2>7. both[n + 1] = <<x>>
      <3>1. 1 \in 1..1
        OBVIOUS
      <3> QED
        BY <2>2, <2>6, <3>1
    <2>8. ASSUME NEW k \in 1..n + 1 PROVE all[k] = both[k]
      <3>1. CASE k = n + 1
        BY <1>5, <1>6, <2>7, <3>1 DEF Says
      <3>2. CASE k # n + 1
        <4>1. k \in 1..n
          BY <3>2
        <4> QED
          BY <1>5, <1>6, <2>6, <4>1
      <3> QED
        BY <3>1, <3>2
    <2>9. all = [k \in 1..n + 1 |-> both[k]]
      BY <1>6, <2>8
    <2>10. both = [k \in 1..n + 1 |-> both[k]]
      BY <2>6
    <2> QED
      BY <2>1, <2>5, <2>9, <2>10
  <1>11. FlattenSeq(seqs \o << <<x>> >>) = FlattenSeq(seqs) \o <<x>>
    BY <1>8, <1>9, FlattenMore
  <1>12. FromQuery(r) = FlattenSeq(seqs)
    BY <1>1, <1>3, <1>6 DEF FromQuery
  <1>13. FromQuery(t) = FlattenSeq(all)
    BY <1>1, <1>5, <1>6 DEF FromQuery
  <1> QED
    BY <1>10, <1>11, <1>12, <1>13 DEF AsksMore

\* The settings of the query, one more at a time.
LEMMA CarriesSkip ==
  ASSUME NEW b, NEW keys, NEW list, NEW m \in Nat, Carries(b, keys, list, m), NEW k, k = m + 1,
         list[k].key \notin keys
  PROVE  Carries(b, keys, list, k)
  <1>1. ASSUME NEW f \in keys \cap Fields PROVE Alike(list, k, b, f)
    <2>1. PICK start : start = Default[f]
      OBVIOUS
    <2>2. TakesNext(list, m, f, start)
      BY TakenStep
    <2>3. TakenAs(list, k, f, start) = TakenAs(list, m, f, start)
      BY <1>1, <2>2 DEF TakesNext
    <2>4. Alike(list, m, b, f)
      BY <1>1 DEF Carries
    <2> QED
      BY <2>1, <2>3, <2>4 DEF Alike
  <1>2. ValidIn(list, k, keys) <=> ValidIn(list, m, keys)
    <2>1. \A i \in 1..k : list[i].key \in keys => i \in 1..m
      OBVIOUS
    <2>2. \A i \in 1..m : i \in 1..k
      OBVIOUS
    <2> QED
      BY <2>1, <2>2 DEF ValidIn
  <1> QED
    BY <1>1, <1>2 DEF Carries

IsOne(one, key, v) == one = <<Pair(key, v)>>

LEMMA CarriesMore ==
  ASSUME NEW b, NEW list, NEW m \in Nat, Carries(b, QueryKeys, list, m), NEW k, k = m + 1,
         NEW key \in QueryKeys, NEW v \in Seq(Chars), key = list[k].key, v = list[k].value,
         NEW one, IsOne(one, key, v), NEW c, Follows(b, one, c)
  PROVE  Carries(c, QueryKeys, list, k)
  <1>1. key \in Keys
    BY DEF QueryKeys, Keys, Fields
  <1>2. /\ IsList(one) /\ Len(one) = 1 /\ one[1].key = key /\ one[1].value = v
        /\ \A f, start : Take(one, f, start) = IF key = f THEN v ELSE start
    BY <1>1, OneIs DEF IsOne
  <1>3. PICK n \in Nat : n = Len(b) /\ IsList(b)
    BY DEF Carries, IsList
  <1>4. IsList(c) /\ Len(c) = n + 1 /\ (\A i \in 1..n : c[i] = b[i]) /\ c[n + 1] = one[1]
    <2>1. /\ IsList(c) /\ Len(c) = Len(b) + Len(one)
          /\ \A i \in 1..Len(b) : c[i] = b[i]
          /\ \A i \in 1..Len(one) : c[Len(b) + i] = one[i]
      <3>1. IsList(one) /\ IsList(b)
        BY <1>2, <1>3
      <3> QED
        BY <3>1, BothAre
    <2>2. 1 \in 1..1
      OBVIOUS
    <2> QED
      BY <1>2, <1>3, <2>1, <2>2
  <1>5. \A i \in 1..n + 1 : i \in 1..n \/ i = n + 1
    OBVIOUS
  <1>6. (\A i \in 1..n : i \in 1..n + 1) /\ n + 1 \in 1..n + 1
    OBVIOUS
  <1>7. \A i \in 1..n + 1 : c[i].key \in QueryKeys
    <2>1. \A i \in 1..n : b[i].key \in QueryKeys
      BY <1>3 DEF Carries
    <2> QED
      BY <1>2, <1>4, <1>5, <2>1
  <1>8. ASSUME NEW f \in QueryKeys \cap Fields PROVE Alike(list, k, c, f)
    <2>1. PICK start : start = Default[f]
      OBVIOUS
    <2>2. TakesNext(list, m, f, start) /\ TakesNext(c, n, f, start)
      BY <1>3, TakenStep
    <2>3. TakenAs(list, k, f, start) = IF key = f THEN v ELSE TakenAs(list, m, f, start)
      BY <2>2 DEF TakesNext
    <2>4. CASE key = f
      <3>1. TakenAs(c, n + 1, f, start) = v
        BY <1>2, <1>4, <2>2, <2>4 DEF TakesNext
      <3> QED
        BY <1>4, <2>1, <2>3, <2>4, <3>1 DEF Alike, Take
    <2>5. CASE key # f
      <3>1. \A i \in 1..Len(one) : one[i].key # f
        <4>1. \A i \in 1..1 : i = 1
          OBVIOUS
        <4> QED
          BY <1>2, <2>5, <4>1
      <3>2. Take(c, f, start) = Take(b, f, start)
        BY <1>2, <1>3, <3>1, TakeFirst
      <3>3. Alike(list, m, b, f)
        BY <1>8 DEF Carries
      <3> QED
        BY <2>1, <2>3, <2>5, <3>2, <3>3 DEF Alike
    <2> QED
      BY <2>4, <2>5
  <1>9. AllValid(c) <=> AllValid(b) /\ Valid(key, v)
    <2>1. (\A i \in 1..n + 1 : Valid(c[i].key, c[i].value))
            <=> (\A i \in 1..n : Valid(b[i].key, b[i].value)) /\ Valid(key, v)
      BY <1>2, <1>4, <1>5, <1>6
    <2> QED
      BY <1>3, <1>4, <2>1 DEF AllValid
  <1>10. ValidIn(list, k, QueryKeys) <=> ValidIn(list, m, QueryKeys) /\ Valid(key, v)
    <2>1. \A i \in 1..k : i \in 1..m \/ i = k
      OBVIOUS
    <2>2. (\A i \in 1..m : i \in 1..k) /\ k \in 1..k
      OBVIOUS
    <2> QED
      BY <2>1, <2>2 DEF ValidIn
  <1>11. AllValid(c) <=> ValidIn(list, k, QueryKeys)
    BY <1>9, <1>10 DEF Carries
  <1> QED
    BY <1>4, <1>7, <1>8, <1>11 DEF Carries

\* What WriteUri writes of the query.
Unasked(list, m) == \A j \in 1..m : list[j].key \notin QueryKeys

QueryPiece(list, k) ==
  IF list[k].key \in QueryKeys
    THEN <<IF Unasked(list, k - 1) THEN "?" ELSE "&", list[k].key, "=">> \o Written(list[k]) ELSE <<>>

QueryText(list) == FlattenSeq([k \in DOMAIN list |-> QueryPiece(list, k)])

\* The query that the first m settings make, and the list that it is read as.
QueryIs(list, m, t, r, b) ==
  /\ r \in Seq(Alphabet) /\ Carries(b, QueryKeys, list, m) /\ FromQuery(r) = Reading(b)
  /\ Unasked(list, m) => t = <<>> /\ r = <<>> /\ b = <<>>
  /\ ~Unasked(list, m) => t = <<"?">> \o r

LEMMA QueryStarts ==
  ASSUME NEW list
  PROVE  QueryIs(list, 0, <<>>, <<>>, <<>>)
  <1>1. PICK b : b = <<>>
    OBVIOUS
  <1>2. IsList(b) /\ Len(b) = 0 /\ Reading(b) = <<>> /\ AllValid(b) /\ \A f, start : Take(b, f, start) = start
    BY <1>1, NoneIs
  <1>3. ASSUME NEW f PROVE Alike(list, 0, b, f)
    <2>1. TakenAs(list, 0, f, Default[f]) = Default[f]
      <3>1. \A k \in 1..0 : list[k].key # f
        OBVIOUS
      <3> QED
        BY <3>1, TakenNone
    <2> QED
      BY <1>2, <2>1 DEF Alike
  <1>4. ValidIn(list, 0, QueryKeys)
    BY DEF ValidIn
  <1>5. \A k \in 1..Len(b) : b[k].key \in QueryKeys
    BY <1>2
  <1>6. Carries(b, QueryKeys, list, 0)
    BY <1>2, <1>3, <1>4, <1>5 DEF Carries
  <1>7. b \in Seq(Alphabet)
    BY <1>1
  <1>8. FromQuery(b) = Reading(b)
    BY <1>1, <1>2, QueryNone
  <1>9. Unasked(list, 0)
    BY DEF Unasked
  <1> QED
    BY <1>1, <1>6, <1>7, <1>8, <1>9 DEF QueryIs

\* The text of a pair behind "?" or "&".
LEMMA PairBehind ==
  ASSUME NEW mark \in Alphabet, NEW key \in Alphabet, NEW w \in Seq(Alphabet)
  PROVE  <<mark, key, "=">> \o w = <<mark>> \o Keyed(key, w)
  <1>1. PICK three, one, two, eq : eq = "=" /\ three = <<mark, key, eq>> /\ one = <<mark>> /\ two = <<key, eq>>
    OBVIOUS
  <1>2. eq \in Alphabet
    BY <1>1 DEF Alphabet
  <1>3. /\ three \in Seq(Alphabet) /\ Len(three) = 3 /\ three[1] = mark /\ three[2] = key /\ three[3] = eq
        /\ one \in Seq(Alphabet) /\ Len(one) = 1 /\ one[1] = mark
        /\ two \in Seq(Alphabet) /\ Len(two) = 2 /\ two[1] = key /\ two[2] = eq
    BY <1>1, <1>2
  <1>4. one \in Seq(Alphabet) /\ two \in Seq(Alphabet)
    BY <1>3
  <1>5. PICK both : both = one \o two
    OBVIOUS
  <1>6. /\ both \in Seq(Alphabet) /\ Len(both) = 3
        /\ (\A k \in 1..1 : both[k] = one[k]) /\ \A k \in 1..2 : both[1 + k] = two[k]
    <2>1. /\ one \o two \in Seq(Alphabet) /\ Len(one \o two) = Len(one) + Len(two)
          /\ \A k \in 1..Len(one) : (one \o two)[k] = one[k]
          /\ \A k \in 1..Len(two) : (one \o two)[Len(one) + k] = two[k]
      BY <1>4, ConcatIs
    <2> QED
      BY <1>3, <1>5, <2>1
  <1>7. both[1] = mark /\ both[2] = key /\ both[3] = eq
    <2>1. 1 \in 1..1 /\ 1 \in 1..2 /\ 2 \in 1..2 /\ 1 + 1 = 2 /\ 1 + 2 = 3
      OBVIOUS
    <2> QED
      BY <1>3, <1>6, <2>1
  <1>8. three = both
    <2>1. \A k \in 1..3 : k = 1 \/ k = 2 \/ k = 3
      OBVIOUS
    <2>2. \A k \in 1..3 : three[k] = both[k]
      BY <1>3, <1>7, <2>1
    <2>3. three \in Seq(Alphabet)
      BY <1>3
    <2> QED
      BY <1>3, <1>6, <2>2, <2>3, SeqEqual
  <1>9. Joins(one, two, w)
    BY <1>4, JoinsAlike
  <1>10. three \o w = one \o (two \o w)
    BY <1>5, <1>8, <1>9 DEF Joins
  <1> QED
    BY <1>1, <1>10 DEF Keyed

LEMMA QueryTurn ==
  ASSUME NEW list, IsUri(list), NEW m \in Nat, m < Len(list), NEW k, k = m + 1,
         NEW t, NEW r, NEW b, QueryIs(list, m, t, r, b), t \in Seq(Alphabet)
  PROVE  \E s, c : QueryIs(list, k, t \o QueryPiece(list, k), s, c)
  <1>1. k \in 1..Len(list) /\ k - 1 = m /\ k \in Nat
    BY DEF IsUri
  <1>2. \A j \in 1..k : j \in 1..m \/ j = k
    OBVIOUS
  <1>3. (\A j \in 1..m : j \in 1..k) /\ k \in 1..k
    OBVIOUS
  <1>4. Unasked(list, k) <=> Unasked(list, m) /\ list[k].key \notin QueryKeys
    BY <1>2, <1>3 DEF Unasked
  <1>5. r \in Seq(Alphabet) /\ Carries(b, QueryKeys, list, m) /\ FromQuery(r) = Reading(b)
    BY DEF QueryIs
  <1>6. CASE list[k].key \notin QueryKeys
    <2>1. QueryPiece(list, k) = <<>>
      BY <1>6 DEF QueryPiece
    <2>2. t \o <<>> = t
      BY ConcatEmptySeq
    <2>3. Carries(b, QueryKeys, list, k)
      BY <1>5, <1>6, CarriesSkip
    <2>4. QueryIs(list, k, t, r, b)
      BY <1>4, <1>5, <1>6, <2>3 DEF QueryIs
    <2> QED
      BY <2>1, <2>2, <2>4
  <1>7. CASE list[k].key \in QueryKeys
    <2>1. PICK key \in Keys, v \in Seq(Chars), w \in Seq(Alphabet) :
            key = list[k].key /\ v = list[k].value /\ w = Written(list[k])
      BY <1>1, UriSetting, WrittenIs
    <2>2. PICK p, x : p = Keyed(key, w) /\ x = Keyed(key, v)
      OBVIOUS
    <2>3. Says(p, x)
      <3>1. IsUriSetting(list[k]) /\ Spelled(list[k])
        BY <1>1, UriSetting
      <3> QED
        BY <1>7, <2>1, <2>2, <3>1, QuerySays
    <2>4. PICK one, c : one = <<Pair(key, v)>> /\ c = b \o one
      OBVIOUS
    <2>5. Follows(b, one, c) /\ IsOne(one, key, v)
      BY <2>4 DEF Follows, IsOne
    <2>6. Carries(c, QueryKeys, list, k)
      BY <1>5, <1>7, <2>1, <2>5, CarriesMore
    <2>7. Reading(c) = Reading(b) \o <<x>>
      <3>1. IsList(one) /\ Reading(one) = <<x>>
        BY <2>1, <2>2, <2>4, OneIs
      <3>2. IsList(b)
        BY <1>5 DEF Carries
      <3>3. Reading(c) = Reading(b) \o Reading(one)
        BY <2>5, <3>1, <3>2, ReadingBoth
      <3> QED
        BY <3>1, <3>3
    <2>8. p \in Seq(Alphabet) /\ key \in Alphabet
      BY <2>1, <2>3, KeyIs DEF Says
    <2>9. ~Unasked(list, k)
      BY <1>4, <1>7
    <2>10. CASE Unasked(list, m)
      <3>1. PICK mark \in Alphabet : mark = "?"
        BY DEF Alphabet
      <3>2. t = <<>> /\ r = <<>> /\ b = <<>>
        BY <2>10 DEF QueryIs
      <3>3. QueryPiece(list, k) = <<mark, key, "=">> \o w
        BY <1>1, <1>7, <2>1, <2>10, <3>1 DEF QueryPiece
      <3>4. QueryPiece(list, k) = <<mark>> \o p
        BY <2>1, <2>2, <2>8, <3>3, PairBehind
      <3>5. PICK piece : piece = <<mark>> \o p
        OBVIOUS
      <3>6. piece \in Seq(Alphabet)
        <4>1. <<mark>> \in Seq(Alphabet)
          OBVIOUS
        <4> QED
          BY <2>8, <3>5, <4>1, ConcatIs
      <3>7. t \o piece = piece
        BY <3>2, <3>6, ConcatEmptySeq
      <3>8. FromQuery(p) = <<x>>
        BY <2>3, QueryOne
      <3>9. Reading(b) \o <<x>> = <<x>>
        <4>1. Reading(b) = <<>>
          BY <3>2, NoneIs
        <4>2. <<x>> \in Seq({x})
          OBVIOUS
        <4> QED
          BY <4>1, <4>2, ConcatEmptySeq
      <3>10. QueryIs(list, k, piece, p, c)
        BY <2>6, <2>7, <2>8, <2>9, <3>1, <3>5, <3>8, <3>9 DEF QueryIs
      <3> QED
        BY <3>4, <3>5, <3>6, <3>7, <3>10
    <2>11. CASE ~Unasked(list, m)
      <3>1. PICK mark \in Alphabet, first \in Alphabet : mark = "&" /\ first = "?"
        BY DEF Alphabet
      <3>2. t = <<first>> \o r
        BY <2>11, <3>1 DEF QueryIs
      <3>3. QueryPiece(list, k) = <<mark, key, "=">> \o w
        BY <1>1, <1>7, <2>1, <2>11, <3>1 DEF QueryPiece
      <3>4. QueryPiece(list, k) = <<mark>> \o p
        BY <2>1, <2>2, <2>8, <3>3, PairBehind
      <3>5. PICK one1, one2, piece, left, s :
              one1 = <<first>> /\ one2 = <<mark>> /\ piece = one2 \o p /\ left = r \o one2 /\ s = left \o p
        OBVIOUS
      <3>6. one1 \in Seq(Alphabet) /\ one2 \in Seq(Alphabet)
        BY <3>5
      <3>7. piece \in Seq(Alphabet) /\ left \in Seq(Alphabet)
        BY <1>5, <2>8, <3>5, <3>6, ConcatIs
      <3>8. s \in Seq(Alphabet)
        BY <2>8, <3>5, <3>7, ConcatIs
      <3>9. t \o piece = one1 \o s
        <4>1. Joins(one1, r, piece) /\ Joins(r, one2, p)
          BY <1>5, <2>8, <3>6, <3>7, JoinsAlike
        <4>2. (one1 \o r) \o piece = one1 \o (r \o piece) /\ (r \o one2) \o p = r \o (one2 \o p)
          BY <4>1 DEF Joins
        <4> QED
          BY <3>2, <3>5, <4>2
      <3>10. FromQuery(s) = FromQuery(r) \o <<x>>
        <4>1. Joined(s, r, "&", p)
          BY <3>1, <3>5 DEF Joined
        <4>2. AsksMore(s, r, x)
          BY <1>5, <2>3, <4>1, QueryMore
        <4> QED
          BY <4>2 DEF AsksMore
      <3>11. QueryIs(list, k, one1 \o s, s, c)
        BY <1>5, <2>6, <2>7, <2>9, <3>1, <3>5, <3>8, <3>10 DEF QueryIs
      <3> QED
        BY <3>4, <3>5, <3>7, <3>9, <3>11
    <2> QED
      BY <2>10, <2>11
  <1> QED
    BY <1>6, <1>7

\* The query is read as the settings that it was written from.
LEMMA QueryReads ==
  ASSUME NEW list, IsUri(list)
  PROVE  QueryText(list) \in Seq(Alphabet) /\ \E r, b : QueryIs(list, Len(list), QueryText(list), r, b)
  <1>1. PICK l \in Nat : l = Len(list) /\ DOMAIN list = 1..l
    BY DEF IsUri
  <1>2. PICK seqs : seqs = [k \in 1..l |-> QueryPiece(list, k)]
    OBVIOUS
  <1>4. ASSUME NEW k \in 1..l PROVE seqs[k] \in Seq(Alphabet)
    <2>1. CASE list[k].key \notin QueryKeys
      BY <1>2, <2>1 DEF QueryPiece
    <2>2. CASE list[k].key \in QueryKeys
      <3>1. PICK key \in Alphabet, w \in Seq(Alphabet) : key = list[k].key /\ w = Written(list[k])
        BY <1>1, UriSetting, WrittenIs, KeyIs
      <3>2. PICK mark \in Alphabet, eq \in Alphabet : mark = (IF Unasked(list, k - 1) THEN "?" ELSE "&") /\ eq = "="
        BY DEF Alphabet
      <3>3. seqs[k] = <<mark, key, eq>> \o w
        BY <1>2, <2>2, <3>1, <3>2 DEF QueryPiece
      <3>4. <<mark, key, eq>> \in Seq(Alphabet)
        OBVIOUS
      <3> QED
        BY <3>3, <3>4, ConcatIs
    <2> QED
      BY <2>1, <2>2
  <1>5. seqs \in Seq(Seq(Alphabet)) /\ Len(seqs) = l
    BY <1>2, <1>4
  <1>6. PICK f \in [0..l -> Seq(Alphabet)] :
          /\ f[0] = <<>>
          /\ \A k \in 1..l : f[k] = f[k - 1] \o seqs[k]
          /\ FlattenSeq(seqs) = f[l]
    BY <1>5, FlattenSteps
  <1>7. PICK T : T = {m \in Nat : m <= l => \E r, b : QueryIs(list, m, f[m], r, b)}
    OBVIOUS
  <1>8. 0 \in T
    BY <1>6, <1>7, QueryStarts
  <1>9. ASSUME NEW m \in Nat, m \in T PROVE m + 1 \in T
    <2> SUFFICES ASSUME m + 1 <= l PROVE \E r, b : QueryIs(list, m + 1, f[m + 1], r, b)
      BY <1>7
    <2>1. PICK k \in 1..l : k = m + 1 /\ k - 1 = m /\ m < l
      OBVIOUS
    <2>2. PICK r, b : QueryIs(list, m, f[m], r, b)
      BY <1>7, <1>9
    <2>3. PICK t \in Seq(Alphabet) : t = f[m]
      <3>1. m \in 0..l
        OBVIOUS
      <3> QED
        BY <1>6, <3>1
    <2>4. \E s, c : QueryIs(list, k, t \o QueryPiece(list, k), s, c)
      BY <1>1, <2>1, <2>2, <2>3, QueryTurn
    <2>5. f[k] = t \o QueryPiece(list, k)
      BY <1>2, <1>6, <2>1, <2>3
    <2> QED
      BY <2>1, <2>4, <2>5
  <1>10. Nat \subseteq T
    BY <1>8, <1>9, SetInduction
  <1>11. QueryText(list) = f[l]
    BY <1>1, <1>2, <1>6 DEF QueryText
  <1>12. f[l] \in Seq(Alphabet)
    BY <1>6
  <1> QED
    BY <1>1, <1>7, <1>10, <1>11, <1>12

-----------------------------------------------------------------------------
(* Taking a URI apart *)

Lacks(t, marks) == t \in Seq(Alphabet) /\ \A c \in marks : ~Has(t, c)

LEMMA LacksBoth ==
  ASSUME NEW marks, NEW a, Lacks(a, marks), NEW b, Lacks(b, marks), NEW s, Follows(a, b, s)
  PROVE  Lacks(s, marks)
  <1>1. a \in Seq(Alphabet) /\ b \in Seq(Alphabet) /\ s = a \o b
    BY DEF Lacks, Follows
  <1>2. s \in Seq(Alphabet)
    BY <1>1, ConcatIs
  <1>3. \A c : Has(s, c) <=> Has(a, c) \/ Has(b, c)
    BY <1>1, HasConcat
  <1> QED
    BY <1>2, <1>3 DEF Lacks

LEMMA LacksNothing ==
  ASSUME NEW t, t = <<>>, NEW marks
  PROVE  Lacks(t, marks)
  BY DEF Lacks, Has

\* A text that is missing or follows a c.
Behind(d, c, w) == (d = <<>> /\ w = <<>>) \/ d = <<c>> \o w

LEMMA LacksBehind ==
  ASSUME NEW c \in Alphabet, NEW marks, c \notin marks, NEW w, Lacks(w, marks), NEW d, Behind(d, c, w)
  PROVE  Lacks(d, marks)
  <1>1. CASE d = <<>>
    BY <1>1, LacksNothing
  <1>2. CASE d = <<c>> \o w
    <2>1. PICK one : one = <<c>>
      OBVIOUS
    <2>2. one \in Seq(Alphabet) /\ \A m \in marks : ~Has(one, m)
      BY <2>1, HasOne
    <2>3. Lacks(one, marks)
      BY <2>2 DEF Lacks
    <2>4. Follows(one, w, d)
      BY <1>2, <2>1 DEF Follows
    <2> QED
      BY <2>3, <2>4, LacksBoth
  <1> QED
    BY <1>1, <1>2 DEF Behind

LEMMA SplitBehind ==
  ASSUME NEW c \in Alphabet, NEW a \in Seq(Alphabet), ~Has(a, c), NEW w \in Seq(Alphabet),
         NEW d, Behind(d, c, w), NEW s, Follows(a, d, s)
  PROVE  /\ s \in Seq(Alphabet) /\ Before(s, c) = a /\ After(s, c) = w
         /\ Has(s, c) <=> d # <<>>
  <1>1. CASE d = <<>> /\ w = <<>>
    <2>1. s = a
      BY <1>1, ConcatEmptySeq DEF Follows
    <2> QED
      BY <1>1, <2>1, SplitNever
  <1>2. CASE d = <<c>> \o w
    <2>1. PICK one : one = <<c>>
      OBVIOUS
    <2>2. one \in Seq(Alphabet)
      BY <2>1
    <2>3. Joins(a, one, w)
      BY <2>2, JoinsAlike
    <2>4. s = (a \o one) \o w
      BY <1>2, <2>1, <2>3 DEF Joins, Follows
    <2>5. Joined(s, a, c, w)
      BY <2>1, <2>4 DEF Joined
    <2>6. s \in Seq(Alphabet) /\ Has(s, c) /\ Before(s, c) = a /\ After(s, c) = w
      BY <2>5, SplitOnce
    <2>7. d # <<>>
      <3>1. PICK n \in Nat : n = Len(w)
        BY LenProperties
      <3>2. Len(one \o w) = Len(one) + Len(w)
        BY <2>2, ConcatIs
      <3>3. Len(one) = 1
        BY <2>1
      <3>4. Len(d) = 1 + n
        BY <1>2, <2>1, <3>1, <3>2, <3>3
      <3> QED
        BY <3>4
    <2> QED
      BY <2>6, <2>7
  <1> QED
    BY <1>1, <1>2 DEF Behind

-----------------------------------------------------------------------------
(* What is written of each component, and what it is read as *)

Carried(b, key, list) == Carries(b, {key}, list, Len(list))

Stops == {"@", "/", "?"}

\* The user, of which the text may be empty.
UserIs(list, u) ==
  /\ u = Part(list, "user", <<>>) /\ Lacks(u, Stops \cup {":"})
  /\ percent_decode(u) \in Seq(Chars)
  /\ Carried(<<Pair("user", percent_decode(u))>>, "user", list)
  /\ u = <<>> => Carried(<<>>, "user", list)
  /\ ~Gives(list, "user") => u = <<>>

LEMMA UserPart ==
  ASSUME NEW list, IsUri(list)
  PROVE  \E u : UserIs(list, u)
  <1>1. PICK l, key, keys : l = Len(list) /\ key = "user" /\ keys = {key}
    OBVIOUS
  <1>2. PICK u : u = Part(list, key, <<>>)
    OBVIOUS
  <1>3. CASE ~Gives(list, key)
    <2>1. u = <<>>
      BY <1>2, <1>3, PartMissing
    <2>2. percent_decode(u) = <<>>
      BY <2>1, NothingDecoded
    <2>3. Carries(<<Pair("user", <<>>)>>, keys, list, l)
      BY <1>1, <1>3, CarriesUser
    <2>4. Carries(<<>>, keys, list, l)
      BY <1>1, <1>3, CarriesNone
    <2>5. Lacks(u, Stops \cup {":"})
      BY <2>1, LacksNothing
    <2>6. <<>> \in Seq(Chars)
      OBVIOUS
    <2> QED
      BY <1>1, <1>2, <2>1, <2>2, <2>3, <2>4, <2>5, <2>6 DEF UserIs, Carried
  <1>4. CASE Gives(list, key)
    <2>1. PICK p \in 1..Len(list) : list[p].key = key
      BY <1>4 DEF Gives
    <2>2. PICK v \in Seq(Chars), w \in Seq(Alphabet) : v = list[p].value /\ w = Written(list[p])
      BY UriSetting, WrittenIs
    <2>3. key \notin QueryKeys /\ key \in Decoded /\ key \in {"user", "dbname"}
      BY <1>1 DEF QueryKeys, Decoded
    <2>4. u = w
      <3>1. PICK nothing : nothing = <<>>
        OBVIOUS
      <3>2. nothing \in Seq(Alphabet)
        BY <3>1
      <3>3. Part(list, key, nothing) = nothing \o Written(list[p])
        BY <2>1, <2>3, <3>2, PartGiven
      <3> QED
        BY <1>2, <2>2, <3>1, <3>3, ConcatEmptySeq
    <2>5. IsUriSetting(list[p]) /\ Spelled(list[p])
      BY UriSetting
    <2>6. percent_decode(w) = v
      BY <2>1, <2>2, <2>3, <2>5, WrittenDecodes
    <2>7. Lacks(u, Stops \cup {":"})
      <3>1. \A c \in Marks \cap Delimiters[list[p].key] : ~Has(w, c)
        BY <2>2, <2>5, WrittenIs
      <3>2. Stops \cup {":"} \subseteq Marks \cap Delimiters["user"]
        BY DEF Stops, Marks, Delimiters
      <3> QED
        BY <1>1, <2>1, <2>4, <3>1, <3>2 DEF Lacks
    <2>8. Carries(<<Pair(key, v)>>, keys, list, l)
      BY <1>1, <2>1, <2>2, <2>3, CarriesOne
    <2>9. ASSUME u = <<>> PROVE Carries(<<>>, keys, list, l)
      <3>1. v = <<>>
        BY <2>4, <2>6, <2>9, NothingDecoded
      <3> QED
        BY <1>1, <2>1, <2>2, <2>3, <3>1, CarriesEmpty
    <2> QED
      BY <1>1, <1>2, <1>4, <2>2, <2>4, <2>6, <2>7, <2>8, <2>9 DEF UserIs, Carried
  <1> QED
    BY <1>3, <1>4

\* What parse_uri makes of the text of a component.
ReadAs(key, w) == IF key \in Decoded THEN percent_decode(w) ELSE w

\* A component that follows its mark.
Component(list, key, mark, marks, d, w) ==
  /\ d = Part(list, key, <<mark>>) /\ Behind(d, mark, w) /\ Lacks(w, marks)
  /\ d = <<>> <=> ~Gives(list, key)
  /\ d = <<>> => Carried(<<>>, key, list)
  /\ d # <<>> => ReadAs(key, w) \in Seq(Chars) /\ Carried(<<Pair(key, ReadAs(key, w))>>, key, list)
  /\ key = "dbname" /\ w = <<>> => Carried(<<>>, key, list)

LEMMA TextGiven ==
  ASSUME NEW list, IsUri(list), NEW p \in 1..Len(list), NEW key, list[p].key = key,
         NEW w, w = Written(list[p])
  PROVE  /\ key \in Keys /\ w \in Seq(Alphabet) /\ ReadAs(key, w) = list[p].value /\ ReadAs(key, w) \in Seq(Chars)
         /\ \A marks : marks \subseteq Marks \cap Delimiters[key] => Lacks(w, marks)
  <1>1. IsUriSetting(list[p]) /\ Spelled(list[p])
    BY UriSetting
  <1>2. /\ list[p].key \in Keys /\ list[p].value \in Seq(Chars) /\ Written(list[p]) \in Seq(Alphabet)
        /\ \A c \in Marks \cap Delimiters[list[p].key] : ~Has(Written(list[p]), c)
        /\ list[p].key \notin Decoded => Written(list[p]) = list[p].value
    BY <1>1, WrittenIs
  <1>3. ReadAs(key, w) = list[p].value
    <2>1. CASE key \in Decoded
      BY <1>1, <2>1, WrittenDecodes DEF ReadAs
    <2>2. CASE key \notin Decoded
      BY <1>2, <2>2 DEF ReadAs
    <2> QED
      BY <2>1, <2>2
  <1>4. \A marks : marks \subseteq Marks \cap Delimiters[key] => Lacks(w, marks)
    BY <1>2 DEF Lacks
  <1> QED
    BY <1>2, <1>3, <1>4

LEMMA ComponentPart ==
  ASSUME NEW list, IsUri(list), NEW key \in {"password", "port", "dbname"}, NEW mark \in Alphabet,
         NEW marks, marks \subseteq Marks \cap Delimiters[key]
  PROVE  \E d, w : Component(list, key, mark, marks, d, w)
  <1>1. PICK l, keys : l = Len(list) /\ keys = {key}
    OBVIOUS
  <1>2. PICK d : d = Part(list, key, <<mark>>)
    OBVIOUS
  <1>3. CASE ~Gives(list, key)
    <2>1. d = <<>>
      BY <1>2, <1>3, PartMissing
    <2>2. Carries(<<>>, keys, list, l)
      BY <1>1, <1>3, CarriesNone
    <2>3. PICK w : w = <<>>
      OBVIOUS
    <2>4. Lacks(w, marks)
      BY <2>3, LacksNothing
    <2>5. Component(list, key, mark, marks, d, w)
      BY <1>1, <1>2, <1>3, <2>1, <2>2, <2>3, <2>4 DEF Component, Carried, Behind
    <2> QED
      BY <2>5
  <1>4. CASE Gives(list, key)
    <2>1. PICK p \in 1..Len(list) : list[p].key = key
      BY <1>4 DEF Gives
    <2>2. PICK w, v : w = Written(list[p]) /\ v = list[p].value
      OBVIOUS
    <2>3. key \in Keys /\ w \in Seq(Alphabet) /\ ReadAs(key, w) = v /\ v \in Seq(Chars) /\ Lacks(w, marks)
      BY <2>1, <2>2, TextGiven
    <2>4. key \notin QueryKeys
      BY DEF QueryKeys
    <2>5. PICK one : one = <<mark>>
      OBVIOUS
    <2>6. one \in Seq(Alphabet)
      BY <2>5
    <2>7. Part(list, key, one) = one \o Written(list[p])
      BY <2>1, <2>4, <2>6, PartGiven
    <2>8. d = <<mark>> \o w
      BY <1>2, <2>2, <2>5, <2>7
    <2>9. d # <<>>
      <3>1. Len(one \o w) = Len(one) + Len(w) /\ Len(w) \in Nat
        BY <2>3, <2>6, ConcatIs
      <3>2. Len(one) = 1
        BY <2>5
      <3>3. Len(d) # 0
        BY <2>5, <2>8, <3>1, <3>2
      <3> QED
        BY <3>3
    <2>10. Carries(<<Pair(key, v)>>, keys, list, l)
      BY <1>1, <2>1, <2>2, <2>4, CarriesOne
    <2>11. ASSUME key = "dbname", w = <<>> PROVE Carries(<<>>, keys, list, l)
      <3>1. v = <<>>
        BY <2>3, <2>11 DEF ReadAs, Decoded
      <3>2. key \in {"user", "dbname"}
        BY <2>11
      <3> QED
        BY <1>1, <2>1, <2>2, <3>1, <3>2, CarriesEmpty
    <2>12. Component(list, key, mark, marks, d, w)
      BY <1>1, <1>2, <1>4, <2>3, <2>5, <2>8, <2>9, <2>10, <2>11 DEF Component, Carried, Behind
    <2> QED
      BY <2>12
  <1> QED
    BY <1>3, <1>4

HostIs(list, h) ==
  /\ h = Part(list, "host", <<>>) /\ Lacks(h, Stops \cup {":"})
  /\ ~Gives(list, "host") => h = <<>> /\ ~Gives(list, "port") /\ Carried(<<>>, "host", list)
  /\ Gives(list, "host") => h \in Seq(Chars) /\ Carried(<<Pair("host", h)>>, "host", list)
  /\ Gives(list, "host") /\ h = <<>> => Gives(list, "port")

LEMMA HostPart ==
  ASSUME NEW list, IsUri(list)
  PROVE  \E h : HostIs(list, h)
  <1>1. PICK l, key, keys : l = Len(list) /\ key = "host" /\ keys = {key}
    OBVIOUS
  <1>2. PICK h : h = Part(list, key, <<>>)
    OBVIOUS
  <1>3. CASE ~Gives(list, key)
    <2>1. h = <<>>
      BY <1>2, <1>3, PartMissing
    <2>2. Carries(<<>>, keys, list, l)
      BY <1>1, <1>3, CarriesNone
    <2>3. Lacks(h, Stops \cup {":"})
      BY <2>1, LacksNothing
    <2>4. ~Gives(list, "port")
      BY <1>1, <1>3 DEF IsUri
    <2> QED
      BY <1>1, <1>2, <1>3, <2>1, <2>2, <2>3, <2>4 DEF HostIs, Carried
  <1>4. CASE Gives(list, key)
    <2>1. PICK p \in 1..Len(list) : list[p].key = key
      BY <1>4 DEF Gives
    <2>2. PICK w : w = Written(list[p])
      OBVIOUS
    <2>3. key \notin QueryKeys /\ key \notin Decoded
      BY <1>1 DEF QueryKeys, Decoded
    <2>4. Stops \cup {":"} \subseteq Marks \cap Delimiters[key]
      BY <1>1 DEF Stops, Marks, Delimiters
    <2>5. /\ w \in Seq(Alphabet) /\ ReadAs(key, w) = list[p].value /\ ReadAs(key, w) \in Seq(Chars)
          /\ Lacks(w, Stops \cup {":"})
      BY <2>1, <2>2, <2>4, TextGiven
    <2>6. h = w
      <3>1. PICK nothing : nothing = <<>>
        OBVIOUS
      <3>2. nothing \in Seq(Alphabet)
        BY <3>1
      <3>3. Part(list, key, nothing) = nothing \o Written(list[p])
        BY <2>1, <2>3, <3>2, PartGiven
      <3> QED
        BY <1>2, <2>2, <2>5, <3>1, <3>3, ConcatEmptySeq
    <2>7. h = list[p].value /\ h \in Seq(Chars)
      BY <2>3, <2>5, <2>6 DEF ReadAs
    <2>8. Carries(<<Pair(key, h)>>, keys, list, l)
      BY <1>1, <2>1, <2>3, <2>7, CarriesOne
    <2>9. h = <<>> => Gives(list, "port")
      BY <1>1, <2>1, <2>7 DEF IsUri
    <2> QED
      BY <1>1, <1>2, <1>4, <2>5, <2>6, <2>7, <2>8, <2>9 DEF HostIs, Carried
  <1> QED
    BY <1>3, <1>4

-----------------------------------------------------------------------------
(* What the components of a URI are read as *)

\* Two lists that stand for one key each.
ReadPair(list, key1, key2, text) ==
  \E a, b : /\ Carried(a, key1, list) /\ Carried(b, key2, list)
            /\ text = Reading(a) \o Reading(b)

LEMMA OneReads ==
  ASSUME NEW key, NEW v, NEW list, Carried(<<Pair(key, v)>>, key, list), NEW k, k = key
  PROVE  Reading(<<Pair(key, v)>>) = << <<k, "=">> \o v >>
  BY DEF Reading, Pair, Keyed

LEMMA NoneReads == Reading(<<>>) = <<>>
  BY NoneIs

LEMMA NoneBefore ==
  ASSUME NEW x
  PROVE  <<>> \o <<x>> = <<x>> /\ <<x>> \o <<>> = <<x>> /\ <<>> \o <<>> = <<>>
  <1>1. PICK one, nothing : one = <<x>> /\ nothing = <<>>
    OBVIOUS
  <1>2. one \in Seq({x}) /\ nothing \in Seq({x})
    BY <1>1
  <1>3. nothing \o one = one /\ one \o nothing = one /\ nothing \o nothing = nothing
    BY <1>1, <1>2, ConcatEmptySeq
  <1> QED
    BY <1>1, <1>3

LEMMA TwoOnes ==
  ASSUME NEW x, NEW y
  PROVE  <<x>> \o <<y>> = <<x, y>>
  <1>1. PICK a, b, two, X : a = <<x>> /\ b = <<y>> /\ two = <<x, y>> /\ X = {x, y}
    OBVIOUS
  <1>2. /\ a \in Seq(X) /\ Len(a) = 1 /\ a[1] = x /\ b \in Seq(X) /\ Len(b) = 1 /\ b[1] = y
        /\ two \in Seq(X) /\ Len(two) = 2 /\ two[1] = x /\ two[2] = y
    BY <1>1
  <1>3. a \in Seq(X) /\ b \in Seq(X) /\ two \in Seq(X)
    BY <1>2
  <1>4. PICK both : both = a \o b
    OBVIOUS
  <1>5. both \in Seq(X) /\ Len(both) = 2 /\ (\A k \in 1..1 : both[k] = a[k]) /\ \A k \in 1..1 : both[1 + k] = b[k]
    <2>1. /\ a \o b \in Seq(X) /\ Len(a \o b) = Len(a) + Len(b)
          /\ \A k \in 1..Len(a) : (a \o b)[k] = a[k]
          /\ \A k \in 1..Len(b) : (a \o b)[Len(a) + k] = b[k]
      BY <1>3, ConcatIs
    <2> QED
      BY <1>2, <1>4, <2>1
  <1>6. both[1] = x /\ both[2] = y
    <2>1. 1 \in 1..1 /\ 1 + 1 = 2
      OBVIOUS
    <2> QED
      BY <1>2, <1>5, <2>1
  <1>7. \A k \in 1..2 : both[k] = two[k]
    <2>1. \A k \in 1..2 : k = 1 \/ k = 2
      OBVIOUS
    <2> QED
      BY <1>2, <1>6, <2>1
  <1>8. both = two
    BY <1>2, <1>3, <1>5, <1>7, SeqEqual
  <1> QED
    BY <1>1, <1>4, <1>8

\* The user and the password, with the "@" behind them.
LEMMA InfoReads ==
  ASSUME NEW list, IsUri(list), NEW u, UserIs(list, u), NEW d, NEW w, Component(list, "password", ":", Stops, d, w),
         Gives(list, "user") \/ Gives(list, "password"),
         NEW uw, Follows(u, d, uw), NEW hp \in Seq(Alphabet), NEW a, Joined(a, uw, "@", hp)
  PROVE  /\ ReadPair(list, "user", "password", FromUserinfo(a))
         /\ Has(a, "@") /\ After(a, "@") = hp
  <1>1. PICK at \in Alphabet, colon \in Alphabet : at = "@" /\ colon = ":"
    BY DEF Alphabet
  <1>2. Lacks(u, Stops) /\ u \in Seq(Alphabet) /\ ~Has(u, colon)
    BY <1>1 DEF UserIs, Lacks
  <1>3. Behind(d, colon, w) /\ Lacks(w, Stops) /\ w \in Seq(Alphabet)
    BY <1>1 DEF Component, Lacks
  <1>4. Lacks(d, Stops)
    <2>1. colon \notin Stops
      BY <1>1 DEF Stops
    <2> QED
      BY <1>3, <2>1, LacksBehind
  <1>5. Lacks(uw, Stops)
    BY <1>2, <1>4, LacksBoth
  <1>6. uw \in Seq(Alphabet) /\ ~Has(uw, at)
    BY <1>1, <1>5 DEF Lacks, Stops
  <1>7. Has(a, at) /\ Before(a, at) = uw /\ After(a, at) = hp
    <2>1. Joined(a, uw, at, hp)
      BY <1>1
    <2> QED
      BY <1>6, <2>1, SplitOnce
  <1>8. Before(uw, colon) = u /\ After(uw, colon) = w /\ (Has(uw, colon) <=> d # <<>>)
    BY <1>2, <1>3, SplitBehind
  <1>9. a[1] = at <=> uw = <<>>
    <2>1. PICK one, left : one = <<at>> /\ left = uw \o one
      OBVIOUS
    <2>2. one \in Seq(Alphabet) /\ Len(one) = 1 /\ one[1] = at
      BY <2>1
    <2>3. PICK n \in Nat : n = Len(uw)
      BY <1>6, LenProperties
    <2>4. left \in Seq(Alphabet) /\ Len(left) = n + 1 /\ (\A k \in 1..n : left[k] = uw[k])
          /\ (\A k \in 1..1 : left[n + k] = one[k])
      <3>1. one \in Seq(Alphabet)
        BY <2>2
      <3>2. /\ uw \o one \in Seq(Alphabet) /\ Len(uw \o one) = Len(uw) + Len(one)
            /\ \A k \in 1..Len(uw) : (uw \o one)[k] = uw[k]
            /\ \A k \in 1..Len(one) : (uw \o one)[Len(uw) + k] = one[k]
        BY <1>6, <3>1, ConcatIs
      <3> QED
        BY <2>1, <2>2, <2>3, <3>2
    <2>5. a = left \o hp
      BY <1>1, <2>1 DEF Joined
    <2>6. a[1] = left[1]
      <3>1. left \in Seq(Alphabet)
        BY <2>4
      <3>2. \A k \in 1..Len(left) : (left \o hp)[k] = left[k]
        BY <3>1, ConcatIs
      <3>3. 1 \in 1..Len(left)
        BY <2>4
      <3> QED
        BY <2>5, <3>2, <3>3
    <2>7. CASE n = 0
      <3>1. uw = <<>>
        <4>1. uw \in Seq(Alphabet) /\ Len(uw) = 0
          BY <1>6, <2>3, <2>7
        <4> QED
          BY <4>1
      <3>2. 1 \in 1..1 /\ n + 1 = 1
        BY <2>7
      <3>3. left[1] = at
        BY <2>2, <2>4, <3>2
      <3> QED
        BY <2>6, <3>1, <3>3
    <2>8. CASE n # 0
      <3>1. uw # <<>>
        BY <2>3, <2>8
      <3>2. 1 \in 1..n
        BY <2>8
      <3>3. left[1] = uw[1]
        BY <2>4, <3>2
      <3>4. uw[1] # at
        <4>1. 1 \in DOMAIN uw
          BY <1>6, <2>3, <3>2, LenProperties
        <4> QED
          BY <1>6, <4>1 DEF Has
      <3> QED
        BY <2>6, <3>1, <3>3, <3>4
    <2> QED
      BY <2>7, <2>8
  <1>10. CASE uw = <<>>
    <2>1. Len(u) \in Nat /\ Len(d) \in Nat /\ Len(uw) = Len(u) + Len(d) /\ d \in Seq(Alphabet)
      <3>1. d \in Seq(Alphabet)
        BY <1>4 DEF Lacks
      <3> QED
        BY <1>2, <3>1, ConcatIs DEF Follows
    <2>2. Len(u) = 0 /\ Len(d) = 0
      BY <1>10, <2>1
    <2>3. u = <<>> /\ d = <<>>
      BY <1>2, <2>1, <2>2
    <2>4. Carried(<<>>, "user", list) /\ Carried(<<>>, "password", list)
      BY <2>3 DEF UserIs, Component
    <2>5. FromUserinfo(a) = <<>>
      BY <1>1, <1>9, <1>10 DEF FromUserinfo
    <2>6. Reading(<<>>) \o Reading(<<>>) = <<>>
      BY NoneReads, NoneBefore
    <2> QED
      BY <1>1, <1>7, <2>4, <2>5, <2>6 DEF ReadPair
  <1>11. CASE uw # <<>>
    <2>1. PICK x : x = <<"user", "=">> \o percent_decode(u)
      OBVIOUS
    <2>2. PICK bu : bu = <<Pair("user", percent_decode(u))>>
      OBVIOUS
    <2>3. Carried(bu, "user", list) /\ Reading(bu) = <<x>>
      <3>1. Carried(bu, "user", list)
        BY <2>2 DEF UserIs
      <3> QED
        BY <2>1, <2>2, <3>1, OneReads
    <2>4. FromUserinfo(a) = <<x>> \o (IF d # <<>> THEN << <<"password", "=">> \o percent_decode(w) >> ELSE <<>>)
      BY <1>1, <1>7, <1>8, <1>9, <1>11, <2>1 DEF FromUserinfo
    <2>5. CASE d = <<>>
      <3>1. Carried(<<>>, "password", list)
        BY <2>5 DEF Component
      <3>2. FromUserinfo(a) = Reading(bu) \o Reading(<<>>)
        BY <2>3, <2>4, <2>5, NoneReads
      <3> QED
        BY <1>1, <1>7, <2>3, <3>1, <3>2 DEF ReadPair
    <2>6. CASE d # <<>>
      <3>1. PICK y, bw : y = <<"password", "=">> \o percent_decode(w) /\ bw = <<Pair("password", percent_decode(w))>>
        OBVIOUS
      <3>2. ReadAs("password", w) = percent_decode(w)
        BY DEF ReadAs, Decoded
      <3>3. Carried(bw, "password", list)
        BY <2>6, <3>1, <3>2 DEF Component
      <3>4. Reading(bw) = <<y>>
        BY <3>1, <3>3, OneReads
      <3>5. FromUserinfo(a) = Reading(bu) \o Reading(bw)
        BY <2>3, <2>4, <2>6, <3>1, <3>4
      <3> QED
        BY <1>1, <1>7, <2>3, <3>3, <3>5 DEF ReadPair
    <2> QED
      BY <2>5, <2>6
  <1> QED
    BY <1>10, <1>11

LEMMA HostportReads ==
  ASSUME NEW list, IsUri(list), NEW h, HostIs(list, h), NEW d, NEW w, Component(list, "port", ":", Stops, d, w),
         NEW hp, Follows(h, d, hp)
  PROVE  ReadPair(list, "host", "port", FromHostport(hp)) /\ Lacks(hp, Stops)
  <1>1. PICK colon \in Alphabet : colon = ":"
    BY DEF Alphabet
  <1>2. Lacks(h, Stops) /\ h \in Seq(Alphabet) /\ ~Has(h, colon)
    BY <1>1 DEF HostIs, Lacks
  <1>3. Behind(d, colon, w) /\ Lacks(w, Stops) /\ w \in Seq(Alphabet)
    BY <1>1 DEF Component, Lacks
  <1>4. Lacks(d, Stops)
    <2>1. colon \notin Stops
      BY <1>1 DEF Stops
    <2> QED
      BY <1>3, <2>1, LacksBehind
  <1>5. Lacks(hp, Stops)
    BY <1>2, <1>4, LacksBoth
  <1>6. Before(hp, colon) = h /\ After(hp, colon) = w /\ (Has(hp, colon) <=> d # <<>>)
    BY <1>2, <1>3, SplitBehind
  <1>7. PICK x, bh : x = <<"host", "=">> \o h /\ bh = <<Pair("host", h)>>
    OBVIOUS
  <1>8. CASE d # <<>>
    <2>1. Gives(list, "port") /\ Gives(list, "host")
      BY <1>8 DEF Component, HostIs
    <2>2. Carried(bh, "host", list)
      BY <1>7, <2>1 DEF HostIs
    <2>3. PICK y, bp : y = <<"port", "=">> \o w /\ bp = <<Pair("port", w)>>
      OBVIOUS
    <2>4. ReadAs("port", w) = w
      BY DEF ReadAs, Decoded
    <2>5. Carried(bp, "port", list)
      BY <1>8, <2>3, <2>4 DEF Component
    <2>6. Reading(bh) = <<x>> /\ Reading(bp) = <<y>>
      BY <1>7, <2>2, <2>3, <2>5, OneReads
    <2>7. FromHostport(hp) = <<x, y>>
      BY <1>1, <1>6, <1>7, <1>8, <2>3 DEF FromHostport
    <2>8. FromHostport(hp) = Reading(bh) \o Reading(bp)
      BY <2>6, <2>7, TwoOnes
    <2> QED
      BY <1>5, <2>2, <2>5, <2>8 DEF ReadPair
  <1>9. CASE d = <<>>
    <2>1. ~Gives(list, "port") /\ Carried(<<>>, "port", list)
      BY <1>9 DEF Component
    <2>2. hp = h
      BY <1>2, <1>9, ConcatEmptySeq DEF Follows
    <2>3. CASE Gives(list, "host")
      <3>1. Carried(bh, "host", list) /\ h # <<>>
        BY <1>7, <2>1, <2>3 DEF HostIs
      <3>2. Reading(bh) = <<x>>
        BY <1>7, <3>1, OneReads
      <3>3. FromHostport(hp) = <<x>>
        BY <1>1, <1>6, <1>7, <1>9, <2>2, <3>1 DEF FromHostport
      <3>4. FromHostport(hp) = Reading(bh) \o Reading(<<>>)
        BY <3>2, <3>3, NoneReads, NoneBefore
      <3> QED
        BY <1>5, <2>1, <3>1, <3>4 DEF ReadPair
    <2>4. CASE ~Gives(list, "host")
      <3>1. Carried(<<>>, "host", list) /\ h = <<>>
        BY <2>4 DEF HostIs
      <3>2. FromHostport(hp) = <<>>
        BY <1>1, <1>6, <1>9, <2>2, <3>1 DEF FromHostport
      <3>3. FromHostport(hp) = Reading(<<>>) \o Reading(<<>>)
        BY <3>2, NoneReads, NoneBefore
      <3> QED
        BY <1>5, <2>1, <3>1, <3>3 DEF ReadPair
    <2> QED
      BY <2>3, <2>4
  <1> QED
    BY <1>8, <1>9

LEMMA PathReads ==
  ASSUME NEW list, IsUri(list), NEW d, NEW w, Component(list, "dbname", "/", {"/", "?"}, d, w)
  PROVE  \E b : Carried(b, "dbname", list) /\ FromPath(w) = Reading(b)
  <1>1. w \in Seq(Alphabet) /\ ~Has(w, "/")
    BY DEF Component, Lacks
  <1>2. PICK n \in Nat : n = Len(w) /\ DOMAIN w = 1..n
    BY <1>1, LenProperties
  <1>3. {k \in DOMAIN w : w[k] # "/"} = 1..n
    BY <1>1, <1>2 DEF Has
  <1>4. CASE n = 0
    <2>1. w = <<>>
      BY <1>1, <1>2, <1>4
    <2>2. Carried(<<>>, "dbname", list)
      BY <2>1 DEF Component
    <2>3. FromPath(w) = <<>>
      BY <1>3, <1>4 DEF FromPath
    <2> QED
      BY <2>2, <2>3, NoneReads
  <1>5. CASE n # 0
    <2>1. Min(1..n) = 1
      <3>1. 1 \in 1..n /\ \A y \in 1..n : 1 <= y
        BY <1>5
      <3>2. \A z \in 1..n : (\A y \in 1..n : z <= y) => z = 1
        BY <3>1
      <3> QED
        BY <3>1, <3>2 DEF Min
    <2>2. SubSeq(w, 1, n) = w
      <3>1. Rest(w, 0) = w
        BY <1>1, RestAll
      <3> QED
        BY <1>2, <3>1 DEF Rest
    <2>3. PICK x, b : x = <<"dbname", "=">> \o w /\ b = <<Pair("dbname", w)>>
      OBVIOUS
    <2>4. FromPath(w) = <<x>>
      <3>1. 1..n # {}
        BY <1>5
      <3> QED
        BY <1>2, <1>3, <2>1, <2>2, <2>3, <3>1 DEF FromPath
    <2>5. d # <<>>
      <3>1. w # <<>>
        BY <1>2, <1>5
      <3>2. Behind(d, "/", w)
        BY DEF Component
      <3>3. CASE d = <<"/">> \o w
        <4>1. PICK one : one = <<"/">>
          OBVIOUS
        <4>2. one \in Seq(Alphabet)
          <5>1. "/" \in Alphabet
            BY DEF Alphabet
          <5> QED
            BY <4>1, <5>1
        <4>3. Len(one \o w) = Len(one) + Len(w)
          BY <1>1, <4>2, ConcatIs
        <4>4. Len(one) = 1
          BY <4>1
        <4>5. Len(d) = 1 + n
          BY <1>2, <3>3, <4>1, <4>3, <4>4
        <4> QED
          BY <4>5
      <3> QED
        BY <3>1, <3>2, <3>3 DEF Behind
    <2>6. Carried(b, "dbname", list)
      <3>1. ReadAs("dbname", w) = w
        BY DEF ReadAs, Decoded
      <3> QED
        BY <2>3, <2>5, <3>1 DEF Component
    <2>7. Reading(b) = <<x>>
      BY <2>3, <2>6, OneReads
    <2> QED
      BY <2>4, <2>6, <2>7
  <1> QED
    BY <1>4, <1>5

-----------------------------------------------------------------------------
(* What a URI is read as *)

AtText(list) == IF \E k \in DOMAIN list : list[k].key \in {"user", "password"} THEN <<"@">> ELSE <<>>

Authority(list) ==
  (((Part(list, "user", <<>>) \o Part(list, "password", <<":">>)) \o AtText(list))
     \o Part(list, "host", <<>>)) \o Part(list, "port", <<":">>)

LEMMA UriText ==
  ASSUME NEW list
  PROVE  WriteUri(list) = (Authority(list) \o Part(list, "dbname", <<"/">>)) \o QueryText(list)
  BY DEF WriteUri, Authority, AtText, Part, QueryText, QueryPiece, Unasked

LEMMA AuthorityReads ==
  ASSUME NEW list, IsUri(list)
  PROVE  \E hp, a : /\ a = Authority(list) /\ Lacks(a, {"/", "?"})
                    /\ ReadPair(list, "user", "password", FromUserinfo(a))
                    /\ ReadPair(list, "host", "port", FromHostport(hp))
                    /\ hp = IF Has(a, "@") THEN After(a, "@") ELSE a
  <1>1. PICK u, h : UserIs(list, u) /\ HostIs(list, h)
    BY UserPart, HostPart
  <1>2. PICK colon \in Alphabet, at \in Alphabet : colon = ":" /\ at = "@"
    BY DEF Alphabet
  <1>3. Stops \subseteq Marks \cap Delimiters["password"] /\ Stops \subseteq Marks \cap Delimiters["port"]
    BY DEF Stops, Marks, Delimiters
  <1>4. PICK d, w : Component(list, "password", ":", Stops, d, w)
    BY <1>2, <1>3, ComponentPart
  <1>5. PICK e, v : Component(list, "port", ":", Stops, e, v)
    BY <1>2, <1>3, ComponentPart
  <1>6. u \in Seq(Alphabet) /\ h \in Seq(Alphabet) /\ Lacks(u, Stops) /\ Lacks(h, Stops)
    BY <1>1 DEF UserIs, HostIs, Lacks
  <1>7. d \in Seq(Alphabet) /\ e \in Seq(Alphabet) /\ Lacks(d, Stops)
    <2>1. colon \notin Stops
      BY <1>2 DEF Stops
    <2>2. Lacks(w, Stops) /\ Behind(d, colon, w) /\ Lacks(v, Stops) /\ Behind(e, colon, v)
      BY <1>2, <1>4, <1>5 DEF Component
    <2>3. Lacks(d, Stops) /\ Lacks(e, Stops)
      BY <2>1, <2>2, LacksBehind
    <2> QED
      BY <2>3 DEF Lacks
  <1>8. PICK hp, uw : Follows(h, e, hp) /\ Follows(u, d, uw)
    BY DEF Follows
  <1>9. hp \in Seq(Alphabet) /\ Lacks(hp, Stops) /\ ReadPair(list, "host", "port", FromHostport(hp))
    BY <1>1, <1>5, <1>8, HostportReads DEF Lacks
  <1>10. Lacks(uw, Stops) /\ uw \in Seq(Alphabet)
    <2>1. Lacks(uw, Stops)
      BY <1>6, <1>7, <1>8, LacksBoth
    <2> QED
      BY <2>1 DEF Lacks
  <1>11. PICK a, m : a = Authority(list) /\ m = AtText(list)
    OBVIOUS
  <1>12. a = ((uw \o m) \o h) \o e
    BY <1>1, <1>4, <1>5, <1>8, <1>11 DEF Authority, UserIs, HostIs, Component, Follows
  <1>13. DOMAIN list = 1..Len(list)
    BY DEF IsUri
  <1>14. CASE Gives(list, "user") \/ Gives(list, "password")
    <2>1. PICK one : one = <<at>>
      OBVIOUS
    <2>2. one \in Seq(Alphabet) /\ m = one
      BY <1>2, <1>11, <1>13, <1>14, <2>1 DEF AtText, Gives
    <2>3. PICK left : left = uw \o one
      OBVIOUS
    <2>4. left \in Seq(Alphabet)
      BY <1>10, <2>2, <2>3, ConcatIs
    <2>5. Joins(left, h, e)
      BY <1>6, <1>7, <2>4, JoinsAlike
    <2>6. a = left \o hp
      BY <1>8, <1>12, <2>2, <2>3, <2>5 DEF Joins, Follows
    <2>7. Joined(a, uw, "@", hp)
      BY <1>2, <2>1, <2>3, <2>6 DEF Joined
    <2>8. /\ ReadPair(list, "user", "password", FromUserinfo(a))
          /\ Has(a, "@") /\ After(a, "@") = hp
      BY <1>1, <1>4, <1>8, <1>9, <1>14, <2>7, InfoReads
    <2>9. Lacks(a, {"/", "?"})
      <3>1. PICK marks : marks = {"/", "?"}
        OBVIOUS
      <3>2. at \notin marks /\ marks \subseteq Stops
        BY <1>2, <3>1 DEF Stops
      <3>3. Lacks(uw, marks) /\ Lacks(hp, marks)
        BY <1>9, <1>10, <3>2 DEF Lacks
      <3>4. Lacks(one, marks)
        BY <2>1, <2>2, <3>2, HasOne DEF Lacks
      <3>5. Follows(uw, one, left) /\ Follows(left, hp, a)
        BY <2>3, <2>6 DEF Follows
      <3>6. Lacks(left, marks)
        BY <3>3, <3>4, <3>5, LacksBoth
      <3>7. Lacks(a, marks)
        BY <3>3, <3>5, <3>6, LacksBoth
      <3> QED
        BY <3>1, <3>7
    <2> QED
      BY <1>9, <1>11, <2>8, <2>9
  <1>15. CASE ~Gives(list, "user") /\ ~Gives(list, "password")
    <2>1. u = <<>> /\ d = <<>> /\ m = <<>>
      BY <1>1, <1>4, <1>11, <1>13, <1>15 DEF UserIs, Component, AtText, Gives
    <2>2. uw = <<>>
      BY <1>8, <2>1, NoneBefore DEF Follows
    <2>3. <<>> \o <<>> = <<>> /\ <<>> \o h = h
      BY <1>6, ConcatEmptySeq, NoneBefore
    <2>4. a = hp
      BY <1>8, <1>12, <2>1, <2>2, <2>3 DEF Follows
    <2>5. ~Has(a, "@")
      BY <1>9, <2>4 DEF Lacks, Stops
    <2>6. FromUserinfo(a) = <<>>
      BY <2>5 DEF FromUserinfo
    <2>7. Carried(<<>>, "user", list) /\ Carried(<<>>, "password", list)
      BY <1>1, <1>4, <2>1 DEF UserIs, Component
    <2>8. ReadPair(list, "user", "password", FromUserinfo(a))
      <3>1. Reading(<<>>) \o Reading(<<>>) = <<>>
        BY NoneReads, NoneBefore
      <3> QED
        BY <2>6, <2>7, <3>1 DEF ReadPair
    <2>9. Lacks(a, {"/", "?"})
      BY <1>9, <2>4 DEF Lacks, Stops
    <2> QED
      BY <1>9, <1>11, <2>4, <2>5, <2>8, <2>9
  <1> QED
    BY <1>14, <1>15

\* The parts that parse_uri makes of a text.
UriParts(text) ==
  LET authority == Before(Before(text, "?"), "/")
      hostport  == IF Has(authority, "@") THEN After(authority, "@") ELSE authority
  IN FromUserinfo(authority) \o FromHostport(hostport)
       \o FromPath(After(Before(text, "?"), "/")) \o FromQuery(After(text, "?"))

LEMMA UriPartsAre ==
  ASSUME ParseUri
  PROVE  parts' = UriParts(rest)
  BY DEF ParseUri, UriParts

\* Texts that are read as a list with the settings of these keys.
ReadsTo(texts, keys, list, l) == \E c : Carries(c, keys, list, l) /\ Reading(c) = texts

LEMMA JointReads ==
  ASSUME NEW x, NEW y, NEW keys, NEW more, keys \cap more = {}, NEW both, both = keys \cup more,
         NEW list, NEW l, ReadsTo(x, keys, list, l), ReadsTo(y, more, list, l),
         NEW z, Follows(x, y, z)
  PROVE  ReadsTo(z, both, list, l)
  <1>1. PICK a, b : /\ Carries(a, keys, list, l) /\ Reading(a) = x
                    /\ Carries(b, more, list, l) /\ Reading(b) = y
    BY DEF ReadsTo
  <1>2. PICK c : Follows(a, b, c)
    BY DEF Follows
  <1>3. Carries(c, both, list, l)
    BY <1>1, <1>2, CarriesBoth
  <1>4. IsList(a) /\ IsList(b)
    BY <1>1 DEF Carries
  <1>5. Reading(c) = Reading(a) \o Reading(b)
    BY <1>2, <1>4, ReadingBoth
  <1>6. Reading(c) = z
    BY <1>1, <1>5 DEF Follows
  <1> QED
    BY <1>3, <1>6 DEF ReadsTo

LEMMA PairReads ==
  ASSUME NEW list, NEW key1, NEW key2, key1 # key2, NEW text, ReadPair(list, key1, key2, text),
         NEW keys, keys = {key1, key2}, NEW l, l = Len(list)
  PROVE  ReadsTo(text, keys, list, l)
  <1>1. PICK a, b : /\ Carried(a, key1, list) /\ Carried(b, key2, list)
                    /\ text = Reading(a) \o Reading(b)
    BY DEF ReadPair
  <1>2. PICK ka, kb, x, y : ka = {key1} /\ kb = {key2} /\ x = Reading(a) /\ y = Reading(b)
    OBVIOUS
  <1>3. ka \cap kb = {} /\ keys = ka \cup kb
    BY <1>2
  <1>4. Carries(a, ka, list, l) /\ Carries(b, kb, list, l)
    BY <1>1, <1>2 DEF Carried
  <1>5. ReadsTo(x, ka, list, l) /\ ReadsTo(y, kb, list, l)
    BY <1>2, <1>4 DEF ReadsTo
  <1>6. Follows(x, y, text)
    BY <1>1, <1>2 DEF Follows
  <1> QED
    BY <1>3, <1>5, <1>6, JointReads

\* A URI is read as a list with the meaning of the settings that it was written from.
LEMMA UriIsRead ==
  ASSUME NEW list, IsUri(list)
  PROVE  ReadsTo(UriParts(WriteUri(list)), Keys, list, Len(list))
  <1>1. PICK l : l = Len(list)
    OBVIOUS
  <1>2. PICK hp, a : /\ a = Authority(list) /\ Lacks(a, {"/", "?"})
                     /\ ReadPair(list, "user", "password", FromUserinfo(a))
                     /\ ReadPair(list, "host", "port", FromHostport(hp))
                     /\ hp = IF Has(a, "@") THEN After(a, "@") ELSE a
    BY AuthorityReads
  <1>3. PICK slash \in Alphabet, mark \in Alphabet : slash = "/" /\ mark = "?"
    BY DEF Alphabet
  <1>4. PICK d, w : Component(list, "dbname", slash, {"/", "?"}, d, w)
    <2>1. {"/", "?"} \subseteq Marks \cap Delimiters["dbname"]
      BY DEF Marks, Delimiters
    <2> QED
      BY <2>1, ComponentPart
  <1>5. PICK q, r, bq : q = QueryText(list) /\ q \in Seq(Alphabet) /\ QueryIs(list, l, q, r, bq)
    BY <1>1, QueryReads
  <1>6. r \in Seq(Alphabet) /\ Carries(bq, QueryKeys, list, l) /\ FromQuery(r) = Reading(bq) /\ Behind(q, mark, r)
    BY <1>3, <1>5 DEF QueryIs, Behind
  <1>7. a \in Seq(Alphabet) /\ ~Has(a, slash) /\ Lacks(a, {mark})
    BY <1>2, <1>3 DEF Lacks
  <1>8. Behind(d, slash, w) /\ w \in Seq(Alphabet) /\ Lacks(w, {mark})
    BY <1>3, <1>4 DEF Component, Lacks
  <1>9. PICK x : Follows(a, d, x)
    BY DEF Follows
  <1>10. x \in Seq(Alphabet) /\ Before(x, slash) = a /\ After(x, slash) = w
    BY <1>7, <1>8, <1>9, SplitBehind
  <1>11. ~Has(x, mark)
    <2>1. PICK marks : marks = {mark}
      OBVIOUS
    <2>2. slash \notin marks
      BY <1>3, <2>1
    <2>3. Lacks(d, marks)
      BY <1>8, <2>1, <2>2, LacksBehind
    <2>4. Lacks(x, marks)
      BY <1>7, <1>9, <2>1, <2>3, LacksBoth
    <2> QED
      BY <2>1, <2>4 DEF Lacks
  <1>12. PICK t : Follows(x, q, t)
    BY DEF Follows
  <1>13. Before(t, mark) = x /\ After(t, mark) = r
    BY <1>6, <1>10, <1>11, <1>12, SplitBehind
  <1>14. t = WriteUri(list)
    BY <1>2, <1>3, <1>4, <1>5, <1>9, <1>12, UriText DEF Component, Follows
  <1>15. PICK p1, p2, p3, p4 :
           p1 = FromUserinfo(a) /\ p2 = FromHostport(hp) /\ p3 = FromPath(w) /\ p4 = FromQuery(r)
    OBVIOUS
  <1>16. UriParts(t) = ((p1 \o p2) \o p3) \o p4
    BY <1>2, <1>3, <1>10, <1>13, <1>15 DEF UriParts
  <1>17. PICK k1, k2, k3, k4, k5 :
           /\ k1 = {"user", "password"} /\ k2 = {"host", "port"} /\ k3 = k1 \cup k2
           /\ k4 = {"dbname"} /\ k5 = k3 \cup k4
    OBVIOUS
  <1>18. ReadsTo(p1, k1, list, l)
    <2>1. "user" # "password"
      OBVIOUS
    <2> QED
      BY <1>1, <1>2, <1>15, <1>17, <2>1, PairReads
  <1>19. ReadsTo(p2, k2, list, l)
    <2>1. "host" # "port"
      OBVIOUS
    <2> QED
      BY <1>1, <1>2, <1>15, <1>17, <2>1, PairReads
  <1>24. PICK p12, p123, all : Follows(p1, p2, p12) /\ Follows(p12, p3, p123) /\ Follows(p123, p4, all)
    BY DEF Follows
  <1>20. ReadsTo(p12, k3, list, l)
    <2>1. k1 \cap k2 = {} /\ k3 = k1 \cup k2
      BY <1>17
    <2> QED
      BY <1>18, <1>19, <1>24, <2>1, JointReads
  <1>21. ReadsTo(p3, k4, list, l)
    <2>1. Component(list, "dbname", "/", {"/", "?"}, d, w)
      BY <1>3, <1>4
    <2>2. \E b : Carried(b, "dbname", list) /\ FromPath(w) = Reading(b)
      BY <2>1, PathReads
    <2> QED
      BY <1>1, <1>15, <1>17, <2>2 DEF Carried, ReadsTo
  <1>22. ReadsTo(p123, k5, list, l)
    <2>1. k3 \cap k4 = {} /\ k5 = k3 \cup k4
      BY <1>17
    <2> QED
      BY <1>20, <1>21, <1>24, <2>1, JointReads
  <1>23. ReadsTo(all, Keys, list, l)
    <2>1. k5 \cap QueryKeys = {} /\ Keys = k5 \cup QueryKeys
      BY <1>17 DEF QueryKeys, Keys, Fields
    <2>2. ReadsTo(p4, QueryKeys, list, l)
      BY <1>6, <1>15 DEF ReadsTo
    <2> QED
      BY <1>22, <1>24, <2>1, <2>2, JointReads
  <1>25. UriParts(WriteUri(list)) = all
    BY <1>14, <1>16, <1>24 DEF Follows
  <1> QED
    BY <1>1, <1>23, <1>25

LEMMA UriStands ==
  ASSUME NEW list, IsUri(list), given = list, NEW c, Carries(c, Keys, list, Len(list))
  PROVE  IsList(c) /\ Stands(c, Default)
  <1>1. PICK l \in Nat : l = Len(list) /\ DOMAIN given = 1..l
    BY DEF IsUri
  <1>2. ASSUME NEW f \in Fields PROVE Meant[f] = OrDefault(f, Take(c, f, Default[f]))
    <2>1. PICK start, taken : start = Default[f] /\ taken = Take(list, f, start)
      OBVIOUS
    <2>2. IsList(list) /\ start \in {Start(f), Default[f]}
      BY <2>1, UriIsList
    <2>3. Meant[f] = OrDefault(f, taken)
      BY <2>1, <2>2, MeantIs
    <2>4. Alike(list, l, c, f)
      BY <1>1 DEF Carries, Keys
    <2> QED
      BY <1>1, <2>1, <2>3, <2>4 DEF Alike, Take
  <1>3. (\A k \in DOMAIN given : Valid(given[k].key, given[k].value)) <=> ValidIn(list, l, Keys)
    <2>1. \A k \in 1..l : list[k].key \in Keys
      BY <1>1, UriSetting
    <2> QED
      BY <1>1, <2>1 DEF ValidIn
  <1>4. (\A k \in DOMAIN given : Valid(given[k].key, given[k].value)) <=> AllValid(c)
    BY <1>1, <1>3 DEF Carries
  <1> QED
    BY <1>2, <1>4 DEF Stands, Carries

-----------------------------------------------------------------------------
(* The lists that can be read back *)

\* The styles of a URI.
UriQuotes == {"raw", "encoded"}

LEMMA NoStyle ==
  ASSUME NEW S, NEW list \in Seq([key : Keys, value : Seq(Chars), style : S]),
         \A k \in 1..Len(list) : list[k].style \notin S
  PROVE  list = <<>>
  <1>1. Len(list) \in Nat
    BY LenProperties
  <1>2. CASE Len(list) # 0
    <2>1. 1 \in 1..Len(list)
      BY <1>1, <1>2
    <2>2. list[1] \in [key : Keys, value : Seq(Chars), style : S]
      BY <2>1, ElementOfSeq
    <2> QED
      BY <2>1, <2>2
  <1>3. CASE Len(list) = 0
    <2>1. list \in Seq([key : Keys, value : Seq(Chars), style : S]) /\ Len(list) = 0
      BY <1>3
    <2> QED
      BY <2>1
  <1> QED
    BY <1>2, <1>3

LEMMA NothingIs == IsDsn(<<>>) /\ IsUri(<<>>)
  <1>1. PICK list : list = <<>>
    OBVIOUS
  <1>2. Len(list) = 0 /\ DOMAIN list = 1..0
    BY <1>1
  <1>3. list \in Seq([key : Keys, value : Seq(Chars), style : Quotes])
    BY <1>1
  <1>4. list = [k \in 1..Len(list) |-> list[k]] /\ Len(list) \in Nat
    BY <1>1, <1>2
  <1>5. \A k : k \notin 1..0
    OBVIOUS
  <1>6. IsDsn(list)
    BY <1>2, <1>3, <1>5 DEF IsDsn
  <1>7. IsUri(list)
    BY <1>2, <1>4, <1>5 DEF IsUri, Gives
  <1> QED
    BY <1>1, <1>6, <1>7

\* A list that was written as pairs is read as pairs, one that was written as a URI as a URI.
LEMMA PairsOnly ==
  ASSUME NEW list \in DsnLists, IsDsn(list) \/ IsUri(list)
  PROVE  IsDsn(list)
  <1>1. list \in Seq([key : Keys, value : Seq(Chars), style : Quotes])
    BY ConfigAssumption
  <1>2. CASE IsUri(list)
    <2>1. \A k \in 1..Len(list) : list[k].style \notin Quotes
      BY <1>2, UriSetting DEF IsUriSetting, Quotes
    <2>2. list = <<>>
      BY <1>1, <2>1, NoStyle
    <2> QED
      BY <2>2, NothingIs
  <1> QED
    BY <1>2

LEMMA UriOnly ==
  ASSUME NEW list \in UriLists, IsDsn(list) \/ IsUri(list)
  PROVE  IsUri(list)
  <1>1. list \in Seq([key : Keys, value : Seq(Chars), style : UriQuotes])
    BY ConfigAssumption DEF UriQuotes
  <1>2. CASE IsDsn(list)
    <2>1. \A k \in 1..Len(list) : list[k].style \notin UriQuotes
      BY <1>2, DsnIs DEF IsSetting, Quotes, UriQuotes
    <2>2. list = <<>>
      BY <1>1, <2>1, NoStyle
    <2> QED
      BY <2>2, NothingIs
  <1> QED
    BY <1>2

-----------------------------------------------------------------------------
(* The invariant *)

\* After apply_env: as given, or as in the environment; a given default may be either.
FilledAsMeant == \A f \in Fields : Filled(f) \/ (GivenAs(f) # Unset /\ Meant[f] = Default[f])

\* What has been made of a list that can be read back.
ReadingAt(list) ==
  /\ stage = "split" => IsDsn(list) /\ config = Default /\ \E n, j : SplitAt(list, n, j)
  /\ stage = "uri" => IsUri(list) /\ config = Default /\ rest = WriteUri(list)
  /\ stage = "parts" => \E a, base, m : IsList(a) /\ Stands(a, base) /\ PartsAt(a, base, m)
  /\ Parsed => ReadsAsMeant
  /\ stage = "filled" => FilledAsMeant

Lists == DsnLists \cup UriLists \cup { <<>> }

ReadInv ==
  /\ stage = "idle" => /\ given = <<>> /\ config = Default
                       /\ parts = <<>> /\ current = <<>> /\ ~in_single /\ ~in_double
  /\ \E list \in Lists : given = list /\ (IsDsn(list) \/ IsUri(list) => ReadingAt(list))

LEMMA ReadInit == Init => ReadInv
  <1> SUFFICES ASSUME Init PROVE ReadInv
    OBVIOUS
  <1>1. PICK list : list = <<>>
    OBVIOUS
  <1>2. given = list /\ stage = "idle"
    BY <1>1 DEF Init
  <1>3. ReadingAt(list)
    BY <1>2 DEF ReadingAt, Parsed
  <1>4. list \in Lists
    BY <1>1 DEF Lists
  <1> QED
    BY <1>1, <1>2, <1>3, <1>4 DEF Init, ReadInv

LEMMA NothingMeant ==
  ASSUME given = <<>>, NEW f \in Fields
  PROVE  GivenAs(f) = Unset /\ Meant[f] = Default[f]
  <1>1. GivenAs(f) = Unset
    BY DEF GivenAs
  <1> QED
    BY <1>1 DEF Meant

LEMMA EnvKeeps ==
  ASSUME NEW e \in Envs, ApplyEnv(e),
         (stage = "idle" /\ given = <<>> /\ config = Default) \/ (stage = "parsed" /\ ReadsAsMeant)
  PROVE  FilledAsMeant'
  <1> SUFFICES ASSUME NEW f \in Fields
               PROVE  \/ config'[f] = IF GivenAs(f)' = Unset /\ env'[f] # Unset /\ Valid(f, env'[f]) THEN env'[f]
                                                                                                     ELSE Meant'[f]
                      \/ GivenAs(f)' # Unset /\ Meant'[f] = Default[f]
    BY DEF FilledAsMeant, Filled
  <1>1. PICK as, want : as = GivenAs(f) /\ want = Meant[f]
    OBVIOUS
  <1>2. given' = given /\ env' = e
    BY DEF ApplyEnv
  <1>3. GivenAs(f)' = as
    BY <1>1, <1>2 DEF GivenAs
  <1>4. Meant'[f] = want
    BY <1>1, <1>2, SameMeant
  <1>5. config'[f] = IF config[f] = Default[f] /\ e[f] # Unset /\ Valid(f, e[f]) THEN e[f] ELSE config[f]
    BY DEF ApplyEnv
  <1>6. as = Unset => want = Default[f]
    BY <1>1 DEF Meant
  <1>7. config[f] = want
    <2>1. CASE stage = "idle" /\ given = <<>> /\ config = Default
      BY <1>1, <2>1, NothingMeant
    <2>2. CASE stage = "parsed" /\ ReadsAsMeant
      BY <1>1, <2>2 DEF ReadsAsMeant
    <2> QED
      BY <2>1, <2>2
  <1> QED
    BY <1>2, <1>3, <1>4, <1>5, <1>6, <1>7

\* parse_uri leaves the parts of a list with the meaning of the one that was given.
LEMMA UriTurn ==
  ASSUME NEW list, IsUri(list), given = list, rest = WriteUri(list), config = Default, ParseUri
  PROVE  \E a, base, m : IsList(a) /\ Stands(a, base)' /\ PartsAt(a, base, m)'
  <1>1. parts' = UriParts(WriteUri(list)) /\ config' = Default /\ given' = given
    BY UriPartsAre DEF ParseUri
  <1>2. ReadsTo(UriParts(WriteUri(list)), Keys, list, Len(list))
    BY UriIsRead
  <1>3. PICK a : Carries(a, Keys, list, Len(list)) /\ parts' = Reading(a)
    BY <1>1, <1>2 DEF ReadsTo
  <1>4. IsList(a) /\ Stands(a, Default)
    BY <1>3, UriStands
  <1>5. Stands(a, Default)'
    BY <1>1, <1>4, StillStands
  <1>6. PICK base : base = Default
    OBVIOUS
  <1>7. base = [f \in Fields |-> base[f]]
    BY <1>6, DefaultIs DEF IsConfig
  <1>8. PartsAt(a, base, 0)'
    BY <1>1, <1>3, <1>4, <1>6, <1>7, PartsStart
  <1>9. Stands(a, base)'
    BY <1>5, <1>6
  <1> QED
    BY <1>4, <1>8, <1>9

LEMMA DsnTurn ==
  ASSUME NEW list, IsDsn(list), given = list, config = Default, NEW n, NEW j, SplitAt(list, n, j), SplitDone
  PROVE  \E a, base, m : IsList(a) /\ Stands(a, base)' /\ PartsAt(a, base, m)'
  <1>1. IsList(list)
    BY DsnIsList
  <1>2. parts' = Reading(list)
    BY SplitEnds
  <1>3. given' = given /\ config' = [Default EXCEPT !["dbname"] = <<>>]
    BY DEF SplitDone
  <1>4. PICK base : base = DsnBase
    OBVIOUS
  <1>5. base = [f \in Fields |-> base[f]]
    BY <1>4 DEF DsnBase
  <1>6. config' = base
    BY <1>3, <1>4, BaseIs
  <1>7. PartsAt(list, base, 0)'
    BY <1>1, <1>2, <1>5, <1>6, PartsStart
  <1>8. Stands(list, base)
    BY <1>1, <1>4, DsnStands
  <1>9. Stands(list, base)'
    BY <1>3, <1>8, StillStands
  <1> QED
    BY <1>1, <1>7, <1>9

LEMMA ReadNext == Typed /\ ReadInv /\ [Next]_vars => ReadInv'
  <1> SUFFICES ASSUME Typed, ReadInv, [Next]_vars PROVE ReadInv'
    OBVIOUS
  <1>1. PICK list \in Lists : given = list /\ (IsDsn(list) \/ IsUri(list) => ReadingAt(list))
    BY DEF ReadInv
  <1>2. ASSUME stage' # "idle", given' = list, IsDsn(list) \/ IsUri(list) => ReadingAt(list)' PROVE ReadInv'
    BY <1>2 DEF ReadInv
  <1>3. CASE Call
    <2>1. stage = "idle" /\ config' = config /\ parts' = parts /\ current' = current
          /\ in_single' = in_single /\ in_double' = in_double
      BY <1>3 DEF Call, CallDsn, CallUri
    <2>2. parts' = <<>> /\ current' = <<>> /\ ~in_single' /\ ~in_double' /\ config' = Default
      BY <2>1 DEF ReadInv
    <2>3. ASSUME NEW t \in DsnLists, CallDsn(t) PROVE ReadInv'
      <3>1. stage' = "split" /\ given' = t /\ rest' = WriteDsn(t) /\ t \in Lists
        BY <2>3 DEF CallDsn, Lists
      <3>2. ASSUME IsDsn(t) \/ IsUri(t) PROVE ReadingAt(t)'
        <4>1. IsDsn(t)
          BY <3>2, PairsOnly
        <4>2. SplitAt(t, 0, 0)'
          BY <2>2, <3>1, <4>1, SplitStarts
        <4> QED
          BY <2>2, <3>1, <4>1, <4>2 DEF ReadingAt, Parsed
      <3> QED
        BY <3>1, <3>2 DEF ReadInv
    <2>4. ASSUME NEW t \in UriLists, CallUri(t) PROVE ReadInv'
      <3>1. stage' = "uri" /\ given' = t /\ rest' = WriteUri(t) /\ t \in Lists
        BY <2>4 DEF CallUri, Lists
      <3>2. ASSUME IsDsn(t) \/ IsUri(t) PROVE ReadingAt(t)'
        <4>1. IsUri(t)
          BY <3>2, UriOnly
        <4> QED
          BY <2>2, <3>1, <4>1 DEF ReadingAt, Parsed
      <3> QED
        BY <3>1, <3>2 DEF ReadInv
    <2> QED
      BY <1>3, <2>3, <2>4 DEF Call
  <1>4. CASE ParseUri
    <2>1. stage = "uri" /\ stage' = "parts" /\ given' = given
      BY <1>4 DEF ParseUri
    <2>2. ASSUME IsDsn(list) \/ IsUri(list) PROVE ReadingAt(list)'
      <3>1. IsUri(list) /\ rest = WriteUri(list) /\ config = Default
        BY <1>1, <2>1, <2>2 DEF ReadingAt
      <3>2. \E a, base, m : IsList(a) /\ Stands(a, base)' /\ PartsAt(a, base, m)'
        BY <1>1, <1>4, <3>1, UriTurn
      <3> QED
        BY <2>1, <3>2 DEF ReadingAt, Parsed
    <2> QED
      BY <1>1, <1>2, <2>1, <2>2
  <1>5. CASE SplitChar
    <2>1. stage = "split" /\ stage' = "split" /\ given' = given /\ config' = config
      BY <1>5 DEF SplitChar
    <2>2. ASSUME IsDsn(list) \/ IsUri(list) PROVE ReadingAt(list)'
      <3>1. IsDsn(list) /\ config = Default
        BY <1>1, <2>1, <2>2 DEF ReadingAt
      <3>2. PICK n, j : SplitAt(list, n, j)
        BY <1>1, <2>1, <2>2 DEF ReadingAt
      <3>3. in_single \in BOOLEAN /\ in_double \in BOOLEAN
        BY DEF Typed
      <3>4. \E m, i : SplitAt(list, m, i)'
        BY <1>5, <3>1, <3>2, <3>3, SplitTurn
      <3> QED
        BY <2>1, <3>1, <3>4 DEF ReadingAt, Parsed
    <2> QED
      BY <1>1, <1>2, <2>1, <2>2
  <1>6. CASE SplitDone
    <2>1. stage = "split" /\ stage' = "parts" /\ given' = given
      BY <1>6 DEF SplitDone
    <2>2. ASSUME IsDsn(list) \/ IsUri(list) PROVE ReadingAt(list)'
      <3>1. IsDsn(list) /\ config = Default
        BY <1>1, <2>1, <2>2 DEF ReadingAt
      <3>2. PICK n, j : SplitAt(list, n, j)
        BY <1>1, <2>1, <2>2 DEF ReadingAt
      <3>3. \E a, base, m : IsList(a) /\ Stands(a, base)' /\ PartsAt(a, base, m)'
        BY <1>1, <1>6, <3>1, <3>2, DsnTurn
      <3> QED
        BY <2>1, <3>3 DEF ReadingAt, Parsed
    <2> QED
      BY <1>1, <1>2, <2>1, <2>2
  <1>7. CASE ParsePart
    <2>1. stage = "parts" /\ given' = given /\ stage' \in {"parts", "failed"}
      <3>1. stage' = stage \/ stage' = "failed"
        BY <1>7 DEF ParsePart
      <3> QED
        BY <1>7, <3>1 DEF ParsePart
    <2>2. ASSUME IsDsn(list) \/ IsUri(list) PROVE ReadingAt(list)'
      <3>1. PICK a, base, m : IsList(a) /\ Stands(a, base) /\ PartsAt(a, base, m)
        BY <1>1, <2>1, <2>2 DEF ReadingAt
      <3>2. \/ stage' = "parts" /\ \E n : PartsAt(a, base, n)'
            \/ stage' = "failed" /\ ~AllValid(a)
        BY <1>7, <3>1, PartsTurn
      <3>3. CASE stage' = "parts" /\ \E n : PartsAt(a, base, n)'
        <4>1. Stands(a, base)'
          BY <2>1, <3>1, StillStands
        <4> QED
          BY <3>1, <3>3, <4>1 DEF ReadingAt, Parsed
      <3>4. CASE stage' = "failed" /\ ~AllValid(a)
        <4>1. ReadsAsMeant'
          BY <2>1, <3>1, <3>4, PartsFail
        <4> QED
          BY <3>4, <4>1 DEF ReadingAt
      <3> QED
        BY <3>2, <3>3, <3>4
    <2> QED
      BY <1>1, <1>2, <2>1, <2>2
  <1>8. CASE PartsDone
    <2>1. stage = "parts" /\ given' = given /\ stage' \in {"parsed", "failed"}
      BY <1>8 DEF PartsDone, Checked
    <2>2. ASSUME IsDsn(list) \/ IsUri(list) PROVE ReadingAt(list)'
      <3>1. PICK a, base, m : IsList(a) /\ Stands(a, base) /\ PartsAt(a, base, m)
        BY <1>1, <2>1, <2>2 DEF ReadingAt
      <3>2. ReadsAsMeant'
        BY <1>8, <3>1, PartsEnd
      <3> QED
        BY <2>1, <3>2 DEF ReadingAt
    <2> QED
      BY <1>1, <1>2, <2>1, <2>2
  <1>9. ASSUME NEW e \in Envs, ApplyEnv(e) PROVE ReadInv'
    <2>1. stage \in {"idle", "parsed"} /\ stage' = "filled" /\ given' = given
      BY <1>9 DEF ApplyEnv
    <2>2. ASSUME IsDsn(list) \/ IsUri(list) PROVE ReadingAt(list)'
      <3>1. (stage = "idle" /\ given = <<>> /\ config = Default) \/ (stage = "parsed" /\ ReadsAsMeant)
        BY <1>1, <2>1, <2>2 DEF ReadInv, ReadingAt, Parsed
      <3>2. FilledAsMeant'
        BY <1>9, <3>1, EnvKeeps
      <3> QED
        BY <2>1, <3>2 DEF ReadingAt, Parsed
    <2> QED
      BY <1>1, <1>2, <2>1, <2>2
  <1>10. CASE UNCHANGED vars
    <2>1. ReadingAt(list) => ReadingAt(list)'
      <3>1. /\ stage' = stage /\ given' = given /\ rest' = rest /\ current' = current
            /\ in_single' = in_single /\ in_double' = in_double /\ parts' = parts
            /\ config' = config /\ env' = env
        BY <1>10 DEF vars
      <3>2. \A n, j : SplitAt(list, n, j) => SplitAt(list, n, j)'
        BY <3>1 DEF SplitAt
      <3>3. \A a, base, m : PartsAt(a, base, m) => PartsAt(a, base, m)'
        BY <3>1 DEF PartsAt
      <3>4. Meant' = Meant /\ (Acceptable' <=> Acceptable)
        BY <3>1, SameMeant
      <3>5. ReadsAsMeant => ReadsAsMeant'
        BY <3>1, <3>4 DEF ReadsAsMeant
      <3>6. FilledAsMeant => FilledAsMeant'
        BY <3>1, <3>4 DEF FilledAsMeant, Filled, GivenAs
      <3>7. \A a, base : Stands(a, base) => Stands(a, base)'
        BY <3>1, StillStands
      <3> QED
        BY <3>1, <3>2, <3>3, <3>5, <3>6, <3>7 DEF ReadingAt, Parsed
    <2>2. stage' = stage /\ given' = given /\ config' = config /\ parts' = parts /\ current' = current
          /\ in_single' = in_single /\ in_double' = in_double
      BY <1>10 DEF vars
    <2> QED
      BY <1>1, <2>1, <2>2 DEF ReadInv
  <1> QED
    BY <1>3, <1>4, <1>5, <1>6, <1>7, <1>8, <1>9, <1>10 DEF Next

-----------------------------------------------------------------------------
(* What the invariant says of the lists that can be written *)

LEMMA SymbolsAre ==
  ASSUME NEW t \in Seq(Chars)
  PROVE  \A c : c \in Symbols(t) <=> Has(t, c)
  <1>1. DOMAIN t = 1..Len(t)
    BY LenProperties
  <1> QED
    BY <1>1 DEF Symbols, ToSet, Has

LEMMA WritableIs ==
  ASSUME NEW list, list \in Seq([key : Keys, value : Seq(Chars), style : Quotes]), given = list, ~HasOwnQuote
  PROVE  IsDsn(list)
  <1>1. ASSUME NEW k \in DOMAIN list PROVE Writable(list[k])
    <2>1. PICK s : s = list[k]
      OBVIOUS
    <2>2. \A j \in 1..Len(s.value) : s.value[j] \in Symbols(s.value)
      <3>1. s \in [key : Keys, value : Seq(Chars), style : Quotes]
        BY <1>1, <2>1, LenProperties, ElementOfSeq
      <3>2. DOMAIN s.value = 1..Len(s.value)
        BY <3>1, LenProperties
      <3> QED
        BY <3>2 DEF Symbols, ToSet
    <2>3. s.style = "bare" => Symbols(s.value) \cap {Blank, Single, Double} = {}
      BY <1>1, <2>1 DEF HasOwnQuote
    <2>4. s.style = "single" => Single \notin Symbols(s.value)
      BY <1>1, <2>1 DEF HasOwnQuote
    <2>5. s.style = "double" => Double \notin Symbols(s.value)
      BY <1>1, <2>1 DEF HasOwnQuote
    <2>6. Writable(s)
      BY <2>2, <2>3, <2>4, <2>5 DEF Writable
    <2> QED
      BY <2>1, <2>6
  <1> QED
    BY <1>1 DEF IsDsn

LEMMA GivenIs ==
  ASSUME NEW list, IsList(list), given = list, NEW key
  PROVE  /\ ~Gives(list, key) => GivenAs(key) = Unset
         /\ Gives(list, key) => GivenAs(key) # Unset /\ \E p \in 1..Len(list) : list[p].key = key /\ GivenAs(key) = list[p].value
  <1>1. PICK l \in Nat : l = Len(list) /\ DOMAIN list = 1..l
    BY DEF IsList
  <1>2. PICK S : S = {k \in 1..l : list[k].key = key}
    OBVIOUS
  <1>3. GivenAs(key) = IF S = {} THEN Unset ELSE list[Max(S)].value
    BY <1>1, <1>2 DEF GivenAs
  <1>4. CASE S = {}
    <2>1. ~Gives(list, key)
      BY <1>1, <1>2, <1>4 DEF Gives
    <2> QED
      BY <1>3, <1>4, <2>1
  <1>5. CASE S # {}
    <2>1. PICK p : p = Max(S)
      OBVIOUS
    <2>2. p \in S
      BY <1>2, <1>5, <2>1, MaxIn
    <2>3. p \in 1..l /\ list[p].key = key /\ list[p].value \in Seq(Chars)
      BY <1>1, <1>2, <2>2 DEF IsList
    <2>4. GivenAs(key) = list[p].value /\ GivenAs(key) # Unset
      BY <1>3, <1>5, <2>1, <2>3, ValueIsSet
    <2>5. Gives(list, key)
      BY <1>1, <2>3 DEF Gives
    <2> QED
      BY <1>1, <2>3, <2>4, <2>5
  <1> QED
    BY <1>4, <1>5

\* One of the cases in which a URI is not read back.
UriCases == Undelimited \/ EncodedInVain \/ OutsideAscii \/ EmptyHost

LEMMA SpelledIs ==
  ASSUME NEW list, list \in Seq([key : Keys, value : Seq(Chars), style : UriQuotes]), given = list, ~UriCases,
         \A j, k \in DOMAIN list : list[j].key = list[k].key => j = k \/ list[j].key \in QueryKeys
  PROVE  IsUri(list)
  <1>1. PICK l \in Nat : l = Len(list) /\ DOMAIN list = 1..l
    BY LenProperties
  <1>2. list = [k \in 1..l |-> list[k]]
    BY <1>1, LenProperties
  <1>3. ASSUME NEW k \in 1..l PROVE IsUriSetting(list[k]) /\ Spelled(list[k])
    <2>1. PICK s : s = given[k] /\ s = list[k]
      OBVIOUS
    <2>2. IsUriSetting(s) /\ s.value \in Seq(Chars)
      <3>1. list[k] \in [key : Keys, value : Seq(Chars), style : UriQuotes]
        BY <1>1, ElementOfSeq
      <3> QED
        BY <2>1, <3>1 DEF IsUriSetting, UriQuotes
    <2>3. k \in DOMAIN given
      BY <1>1
    <2>4. s.style = "raw" => \A c \in Delimiters[s.key] : ~Has(s.value, c)
      <3>1. s.style = "raw" => Symbols(s.value) \cap Delimiters[s.key] = {}
        BY <2>1, <2>3 DEF UriCases, Undelimited
      <3> QED
        BY <2>2, <3>1, SymbolsAre
    <2>5. s.style = "encoded" /\ s.key \notin Decoded => Written(s) = s.value
      BY <2>1, <2>3 DEF UriCases, EncodedInVain
    <2>6. s.key \in Decoded => ~Has(s.value, "e'")
      <3>1. s.key \in Decoded => "e'" \notin Symbols(s.value)
        BY <2>1, <2>3 DEF UriCases, OutsideAscii
      <3> QED
        BY <2>2, <3>1, SymbolsAre
    <2>7. Spelled(s)
      BY <2>4, <2>5, <2>6 DEF Spelled
    <2> QED
      BY <2>1, <2>2, <2>7
  <1>4. IsList(list)
    BY <1>1, <1>2, <1>3 DEF IsList, IsUriSetting
  <1>5. Gives(list, "port") => Gives(list, "host")
    BY <1>4, GivenIs DEF UriCases, EmptyHost
  <1>6. ASSUME NEW k \in 1..l, list[k].key = "host", list[k].value = <<>> PROVE Gives(list, "port")
    <2>1. Gives(list, "host")
      BY <1>1, <1>6 DEF Gives
    <2>2. PICK p \in 1..l : list[p].key = "host" /\ GivenAs("host") = list[p].value
      BY <1>1, <1>4, <2>1, GivenIs
    <2>3. p = k
      BY <1>1, <1>6, <2>2 DEF QueryKeys
    <2>4. GivenAs("host") = <<>>
      BY <1>6, <2>2, <2>3
    <2> QED
      BY <1>4, <2>4, GivenIs DEF UriCases, EmptyHost
  <1> QED
    BY <1>1, <1>2, <1>3, <1>5, <1>6 DEF IsUri

\* The settings are written as pairs, or as a URI.
AsPairs == \A k \in DOMAIN given : given[k].style \in {"bare", "single", "double"}
AsUri   == \A k \in DOMAIN given : given[k].style \in {"raw", "encoded"}

LEMMA Styles ==
  ASSUME NEW S, NEW list \in Seq([key : Keys, value : Seq(Chars), style : S])
  PROVE  \A k \in DOMAIN list : list[k].style \in S
  <1>1. DOMAIN list = 1..Len(list)
    BY LenProperties
  <1>2. ASSUME NEW k \in 1..Len(list) PROVE list[k].style \in S
    <2>1. list[k] \in [key : Keys, value : Seq(Chars), style : S]
      BY ElementOfSeq
    <2> QED
      BY <2>1
  <1> QED
    BY <1>1, <1>2

LEMMA AsWritten ==
  ASSUME NEW list \in Lists, given = list
  PROVE  /\ AsPairs /\ ~HasOwnQuote => IsDsn(list)
         /\ AsUri /\ ~UriCases => IsUri(list)
         /\ AsPairs \/ AsUri
  <1>1. CASE list \in DsnLists
    <2>1. list \in Seq([key : Keys, value : Seq(Chars), style : Quotes])
      BY <1>1, ConfigAssumption
    <2>2. AsPairs
      BY <2>1, Styles DEF AsPairs, Quotes
    <2>3. ~HasOwnQuote => IsDsn(list)
      BY <2>1, WritableIs
    <2>4. AsUri => list = <<>>
      <3>1. DOMAIN list = 1..Len(list)
        BY <2>1, LenProperties
      <3>2. AsUri => \A k \in 1..Len(list) : list[k].style \notin Quotes
        BY <3>1 DEF AsUri, Quotes
      <3> QED
        BY <2>1, <3>2, NoStyle
    <2> QED
      BY <2>2, <2>3, <2>4, NothingIs
  <1>2. CASE list \in UriLists
    <2>1. list \in Seq([key : Keys, value : Seq(Chars), style : UriQuotes])
      BY <1>2, ConfigAssumption DEF UriQuotes
    <2>2. AsUri
      BY <2>1, Styles DEF AsUri, UriQuotes
    <2>3. ~UriCases => IsUri(list)
      <3>1. \A j, k \in DOMAIN list : list[j].key = list[k].key => j = k \/ list[j].key \in QueryKeys
        BY <1>2, ConfigAssumption
      <3> QED
        BY <2>1, <3>1, SpelledIs
    <2>4. AsPairs => list = <<>>
      <3>1. DOMAIN list = 1..Len(list)
        BY <2>1, LenProperties
      <3>2. AsPairs => \A k \in 1..Len(list) : list[k].style \notin UriQuotes
        BY <3>1 DEF AsPairs, UriQuotes
      <3> QED
        BY <2>1, <3>2, NoStyle
    <2> QED
      BY <2>2, <2>3, <2>4, NothingIs
  <1>3. CASE list = <<>>
    <2>1. AsPairs
      BY <1>3 DEF AsPairs
    <2> QED
      BY <1>3, <2>1, NothingIs
  <1> QED
    BY <1>1, <1>2, <1>3 DEF Lists

LEMMA ReadRight == ReadInv => DsnReadsBack /\ UriReadsBack /\ EnvReplacesOnlyDefaults
  <1> SUFFICES ASSUME ReadInv PROVE DsnReadsBack /\ UriReadsBack /\ EnvReplacesOnlyDefaults
    OBVIOUS
  <1>1. PICK list \in Lists : given = list /\ (IsDsn(list) \/ IsUri(list) => ReadingAt(list))
    BY DEF ReadInv
  <1>2. ASSUME AsPairs, ~HasOwnQuote PROVE ReadingAt(list)
    BY <1>1, <1>2, AsWritten
  <1>3. ASSUME AsUri, ~UriCases PROVE ReadingAt(list)
    BY <1>1, <1>3, AsWritten
  <1>4. AsPairs \/ AsUri
    BY <1>1, AsWritten
  <1>5. DsnReadsBack
    BY <1>2 DEF DsnReadsBack, AsPairs, ReadingAt
  <1>6. UriReadsBack
    BY <1>3 DEF UriReadsBack, AsUri, ReadingAt, UriCases
  <1>7. EnvReplacesOnlyDefaults
    BY <1>2, <1>3, <1>4 DEF EnvReplacesOnlyDefaults, ReadOtherwise, ReadingAt, UriCases, FilledAsMeant
  <1> QED
    BY <1>5, <1>6, <1>7

LEMMA ReadAlways == Spec => []DsnReadsBack /\ []UriReadsBack /\ []EnvReplacesOnlyDefaults
  BY TypedInit, TypedNext, ReadInit, ReadNext, ReadRight, PTL DEF Spec

\* Every list of settings that can be written as key=value pairs is read back as it was
\* meant: settings may repeat, be unknown or invalid, values may contain blanks, "=" and
\* the quotes they are not written in (src/config.rs:189-299).
THEOREM DsnReads == Spec => []DsnReadsBack
  BY ReadAlways, PTL

\* Every list of settings that can be written as a URI is read back as it was meant: in any
\* order and with what a delimiter would end percent-encoded, in the components that are
\* decoded; except with a delimiter that is not encoded, an encoding where none is undone,
\* decoded text outside ASCII, or a host without a name (src/config.rs:95-190, 312-333).
THEOREM UriReads == Spec => []UriReadsBack
  BY ReadAlways, PTL

\* apply_env on what a string of pairs or a URI gave, or on Config::new(): what was given
\* is kept, unless its value was the default, and what was not is taken from the environment
\* where that has a value that parses (src/config.rs:50-93).
THEOREM EnvFills == Spec => []EnvReplacesOnlyDefaults
  BY ReadAlways, PTL
=============================================================================
