--------------------------- MODULE InfoProxyProofs ---------------------------
(***************************************************************************)
(* For any rules, devices, models and request lines: an answer is that of  *)
(* one instant unless two keys changed meanwhile, and one lost connection  *)
(* denies nobody.                                                          *)
(***************************************************************************)
EXTENDS InfoProxy, TLAPS

Tiers(pn) == {"global", "device"} \cup (IF pn = NoPart THEN {} ELSE {"model"})

\* The allow-lists this request has read; none of them permitted it
ReadTiers ==
    (IF args.proxy_type = "both" /\ ns = "internet"
     THEN {"intranet"} \X Tiers(partno) ELSE {})
    \cup {ns} \X (CASE pc = "model"  -> {"global"}
                    [] pc = "device" -> Tiers(partno) \ {"device"}
                    [] OTHER -> {})

ReadKeys == {Key(rt[1], rt[2], partno, line.src) : rt \in ReadTiers}

\* The reads so far might all have been made in db and ps
ReadsAgree(db, ps) ==
    /\ pc # "partno" => partno = ps[line.src]
    /\ \A k \in ReadKeys : ~Permits(db, k, line)

OneKeyWritten ==
    /\ parts = parts0
    /\ \E k \in Keys : \A j \in Keys \ {k} : rules[j] = rules0[j]

\* What the answer will be compared with
InstantOK ==
    /\ writes = 0 => rules = rules0 /\ parts = parts0
    /\ writes = 1 => rules = rules0 \/ OneKeyWritten
    /\ writes <= 1 => ReadsAgree(rules0, parts0) \/ ReadsAgree(rules, parts)

PlaceOK ==
    /\ pc \in {"global", "model", "device"} => ns \in Served
    /\ pc = "partno" => ns = "intranet"
    /\ pc = "model" => partno # NoPart

HitsOK ==
    /\ server # "up" => hits = 2
    /\ conn = "dead" \/ attempt = 2 => hits >= 1
    /\ conn = "dead" /\ attempt = 2 => hits = 2

InfoInv ==
    /\ InfoTypeOK
    /\ pc = "idle" => attempt = 1 /\ ns = "intranet"
    /\ pc # "idle" => PlaceOK /\ HitsOK /\ InstantOK

-----------------------------------------------------------------------------
\* Types

LEMMA TypeInit == Init => InfoTypeOK
  <1>. SUFFICES ASSUME Init PROVE InfoTypeOK
    OBVIOUS
  <1>1. rules \in [Keys -> SUBSET Rules] /\ rules0 = rules
    BY DEF Init
  <1>2. parts \in [Devices -> Models \cup {NoPart}] /\ parts0 = parts
    BY DEF Init
  <1>3. writes \in 0 .. MaxWrites /\ hits \in 0 .. 2
    BY InfoAssumption DEF Init
  <1>. QED  BY <1>1, <1>2, <1>3 DEF Init, InfoTypeOK, Namespaces, Verdicts

\* The proxy type of a single-namespace helper is a namespace.
LEMMA ServedType ==
    ASSUME InfoTypeOK
    PROVE  /\ args.proxy_type \in Namespaces \cup {"both"}
           /\ args.proxy_type # "both" => args.proxy_type \in Namespaces
           /\ Served \subseteq Namespaces
  BY InfoAssumption DEF InfoTypeOK, Args, Namespaces, Served

\* A failed attempt keeps the types of the call.
LEMMA AttemptFailsType ==
    ASSUME InfoTypeOK, AttemptFails, pc # "idle"
    PROVE  /\ conn' \in {"none", "live", "dead", "hung"}
           /\ pc' \in {"idle", "partno", "global", "model", "device"}
           /\ attempt' \in {1, 2}
           /\ line' \in Lines \cup {NoLine} /\ (pc' = "idle" <=> line' = NoLine)
           /\ pc' # "idle" => line'.src \in Devices
           /\ partno' \in Models \cup {NoPart} /\ ns' \in Namespaces
           /\ verdict' \in Verdicts /\ failed' \in BOOLEAN
  BY DEF InfoTypeOK, AttemptFails, Answer, Verdicts, Namespaces

\* Every step keeps every variable in its range.
LEMMA TypeNext == InfoTypeOK /\ [Next]_vars => InfoTypeOK'
  <1>. SUFFICES ASSUME InfoTypeOK, [Next]_vars
                PROVE  InfoTypeOK'
    OBVIOUS
  <1>. USE InfoAssumption
  <1>1. ASSUME NEW l \in Lines, Ask(l)
        PROVE  InfoTypeOK'
    <2>1. /\ writes' \in 0 .. MaxWrites /\ hits' \in 0 .. 2
          /\ rules0' = rules /\ parts0' = parts /\ UNCHANGED <<args, rules, parts, server, conn>>
      BY <1>1 DEF Ask, dbVars
    <2>2. CASE l.src = Unset
      BY <1>1, <2>1, <2>2 DEF Ask, Answer, InfoTypeOK, Verdicts, Namespaces
    <2>3. CASE l.src # Unset
      <3>1. l.src \in Devices /\ l # NoLine
        BY <2>3
      <3>. QED  BY <1>1, <2>1, <2>3, <3>1 DEF Ask, InfoTypeOK
    <2>. QED  BY <2>2, <2>3
  <1>2. CASE Connect
    <2>1. CASE server = "up" /\ conn' = "live" /\ UNCHANGED callVars
      BY <1>2, <2>1 DEF Connect, InfoTypeOK, dbVars, callVars, ghostVars
    <2>2. CASE server = "down" /\ AttemptFails
      BY <1>2, <2>2, AttemptFailsType DEF Connect, InfoTypeOK, dbVars, ghostVars
    <2>3. CASE server = "denied" /\ Answer("ERR", TRUE) /\ UNCHANGED conn
      BY <1>2, <2>3 DEF Connect, Answer, InfoTypeOK, dbVars, ghostVars, Verdicts, Namespaces
    <2>. QED  BY <1>2, <2>1, <2>2, <2>3 DEF Connect
  <1>3. CASE Reply
    <2>1. CASE ReplyPartno
      BY <1>3, <2>1, ServedType DEF Reply, ReplyPartno, InfoTypeOK, dbVars, ghostVars, Namespaces
    <2>2. CASE ReplyMembers
      <3>1. CASE Answer("ERR", FALSE) \/ Answer(Granted(ns), FALSE)
        BY <1>3, <2>2, <3>1 DEF Reply, Answer, Granted, InfoTypeOK, dbVars, ghostVars,
           Verdicts, Namespaces
      <3>2. CASE NextRead /\ attempt' = 1 /\ UNCHANGED <<line, partno, verdict, failed>>
        <4>1. pc' \in {"global", "model", "device"} /\ ns' \in Namespaces
          BY <3>2 DEF NextRead, InfoTypeOK, Namespaces
        <4>. QED  BY <1>3, <2>2, <3>2, <4>1 DEF Reply, ReplyMembers, InfoTypeOK, dbVars, ghostVars
      <3>. QED  BY <2>2, <3>1, <3>2 DEF ReplyMembers
    <2>. QED  BY <1>3, <2>1, <2>2 DEF Reply
  <1>4. CASE ErrorReply
    BY <1>4, AttemptFailsType DEF ErrorReply, Min2, InfoTypeOK, dbVars
  <1>5. CASE Broken
    BY <1>5, AttemptFailsType DEF Broken, InfoTypeOK, dbVars, ghostVars
  <1>6. ASSUME NEW k \in Keys, SpoolRules(k)
        PROVE  InfoTypeOK'
    <2>1. rules' \in [Keys -> SUBSET Rules]
      BY <1>6 DEF SpoolRules, InfoTypeOK
    <2>. QED  BY <1>6, <2>1 DEF SpoolRules, Written, InfoTypeOK, callVars
  <1>7. ASSUME NEW d \in Devices, SpoolDevice(d)
        PROVE  InfoTypeOK'
    <2>1. parts' \in [Devices -> Models \cup {NoPart}]
      BY <1>7 DEF SpoolDevice, InfoTypeOK
    <2>. QED  BY <1>7, <2>1 DEF SpoolDevice, Written, InfoTypeOK, callVars
  <1>8. CASE Drop \/ Stall \/ Resume \/ Heal \/ \E s \in {"down", "denied"} : Outage(s)
    BY <1>8 DEF Drop, Stall, Resume, Heal, Outage, Min2, InfoTypeOK, dbVars, callVars, ghostVars
  <1>9. CASE UNCHANGED vars
    BY <1>9 DEF vars, InfoTypeOK, dbVars, callVars, ghostVars
  <1>. QED  BY <1>1, <1>2, <1>3, <1>4, <1>5, <1>6, <1>7, <1>8, <1>9
            DEF Next, Helper, Environment

-----------------------------------------------------------------------------
\* The keys read so far

Current == Key(ns, pc, partno, line.src)

TierRead == pc \in {"global", "model", "device"}

\* The read under way is of an existing key that was not read before.
LEMMA CurrentKey ==
    ASSUME InfoTypeOK, PlaceOK, TierRead
    PROVE  Current \in Keys /\ Current \notin ReadKeys
  <1>1. /\ ns \in Namespaces /\ line.src \in Devices
        /\ pc = "model" => partno \in Models
    BY DEF InfoTypeOK, PlaceOK, TierRead
  <1>2. Current \in Keys
    BY <1>1 DEF Current, Key, Keys, TierRead
  <1>3. ASSUME NEW rt \in ReadTiers
        PROVE  Key(rt[1], rt[2], partno, line.src) # Current
    <2>1. rt[1] # ns \/ rt[2] # pc
      BY <1>3 DEF ReadTiers, Tiers, TierRead
    <2>. QED  BY <2>1 DEF Key, Current
  <1>. QED  BY <1>2, <1>3 DEF ReadKeys

\* All keys read are existing ones.
LEMMA ReadKeysExist ==
    ASSUME InfoTypeOK, pc # "idle"
    PROVE  ReadKeys \subseteq Keys
  <1>1. SUFFICES ASSUME NEW rt \in ReadTiers
                 PROVE  Key(rt[1], rt[2], partno, line.src) \in Keys
    BY DEF ReadKeys
  <1>2. line.src \in Devices /\ ns \in Namespaces /\ partno \in Models \cup {NoPart}
    BY DEF InfoTypeOK
  <1>3. /\ rt[1] \in Namespaces /\ rt[2] \in {"global", "model", "device"}
        /\ rt[2] = "model" => partno \in Models \/ pc \notin {"model", "device"}
    BY <1>2 DEF ReadTiers, Tiers, Namespaces
  <1>4. rt[2] = "model" => partno # NoPart
    BY DEF ReadTiers, Tiers
  <1>. QED  BY <1>2, <1>3, <1>4 DEF Key, Keys

\* A read that allowed nothing joins the keys read.
LEMMA NextReadKeys ==
    ASSUME InfoTypeOK, PlaceOK, TierRead, ~LastRead, NextRead, UNCHANGED <<args, line, partno>>
    PROVE  ReadKeys' = ReadKeys \cup {Current} /\ PlaceOK' /\ TierRead'
  <1>1. ReadTiers' = ReadTiers \cup {<<ns, pc>>}
    <2>1. CASE pc = "global"
      BY <2>1 DEF NextRead, ReadTiers, Tiers
    <2>2. CASE pc = "model"
      BY <2>2 DEF NextRead, ReadTiers, Tiers, PlaceOK
    <2>3. CASE pc = "device"
      <3>1. args.proxy_type = "both" /\ ns = "intranet"
        BY <2>3, ServedType DEF LastRead, PlaceOK, Served, InfoTypeOK, Namespaces
      <3>2. pc' = "global" /\ ns' = "internet"
        BY <2>3 DEF NextRead
      <3>. QED  BY <2>3, <3>1, <3>2 DEF ReadTiers, Tiers
    <2>. QED  BY <2>1, <2>2, <2>3 DEF TierRead
  <1>2. PlaceOK' /\ TierRead'
    BY ServedType DEF PlaceOK, TierRead, NextRead, Served, LastRead, Namespaces, InfoTypeOK
  <1>. DEFINE KeyAt(rt) == Key(rt[1], rt[2], partno, line.src)
  <1>3. ReadKeys = {KeyAt(rt) : rt \in ReadTiers}
    BY DEF ReadKeys
  <1>4. ReadKeys' = {KeyAt(rt) : rt \in ReadTiers'}
    BY DEF ReadKeys, Key
  <1>5. KeyAt(<<ns, pc>>) = Current
    BY DEF Current
  <1>. HIDE DEF KeyAt
  <1>6. ReadKeys' = ReadKeys \cup {Current}
    BY <1>1, <1>3, <1>4, <1>5
  <1>. QED  BY <1>2, <1>6

\* A tier that was read has its key among those read.
LEMMA ReadKeyOf ==
    ASSUME NEW n, NEW t, <<n, t>> \in ReadTiers
    PROVE  Key(n, t, partno, line.src) \in ReadKeys
  <1>. DEFINE KeyAt(rt) == Key(rt[1], rt[2], partno, line.src)
  <1>1. KeyAt(<<n, t>>) = Key(n, t, partno, line.src)
    OBVIOUS
  <1>2. ReadKeys = {KeyAt(rt) : rt \in ReadTiers}
    BY DEF ReadKeys
  <1>. HIDE DEF KeyAt
  <1>. QED  BY <1>1, <1>2

\* Where the tiers of a namespace have been read, it does not authorize.
LEMMA NotAuthorized ==
    ASSUME InfoTypeOK, NEW db, NEW n, \A t \in Tiers(partno) : ~Permits(db, Key(n, t, partno, line.src), line)
    PROVE  ~Authorized(db, n, partno, line)
  BY DEF Authorized, Tiers

\* If the reads so far agree with db and the current key permits in it, then
\* deciding in db at once gives the same answer.
LEMMA DecideGranted ==
    ASSUME InfoTypeOK, PlaceOK, TierRead, NEW db, NEW ps, ReadsAgree(db, ps),
           Permits(db, Current, line)
    PROVE  DecideAtOnce(db, ps, line) = Granted(ns)
  <1>1. ps[line.src] = partno /\ ns \in Served
    BY DEF ReadsAgree, PlaceOK, TierRead
  <1>2. Authorized(db, ns, partno, line)
    BY DEF Authorized, Current, TierRead, PlaceOK
  <1>3. CASE ns = "intranet"
    BY <1>1, <1>2, <1>3 DEF DecideAtOnce
  <1>4. CASE ns = "internet"
    <2>1. "intranet" \in Served => ~Authorized(db, "intranet", partno, line)
      <3>1. SUFFICES ASSUME "intranet" \in Served
                     PROVE  ~Authorized(db, "intranet", partno, line)
        OBVIOUS
      <3>2. args.proxy_type = "both"
        BY <1>1, <1>4, <3>1 DEF Served
      <3>3. \A t \in Tiers(partno) : <<"intranet", t>> \in ReadTiers
        BY <1>4, <3>2 DEF ReadTiers
      <3>4. \A t \in Tiers(partno) : Key("intranet", t, partno, line.src) \in ReadKeys
        BY <3>3, ReadKeyOf
      <3>. QED  BY <3>4, NotAuthorized DEF ReadsAgree
    <2>. QED  BY <1>1, <1>2, <1>4, <2>1 DEF DecideAtOnce
  <1>. QED  BY <1>3, <1>4 DEF InfoTypeOK, Namespaces

\* If the last key denies as well, so does deciding in db at once.
LEMMA DecideDenied ==
    ASSUME InfoTypeOK, PlaceOK, TierRead, NEW db, NEW ps, ReadsAgree(db, ps),
           LastRead, ~Permits(db, Current, line)
    PROVE  DecideAtOnce(db, ps, line) = "ERR"
  <1>1. ps[line.src] = partno /\ ns \in Served /\ pc = "device"
    BY DEF ReadsAgree, PlaceOK, TierRead, LastRead
  <1>2. ASSUME NEW n \in Served
        PROVE  ~Authorized(db, n, partno, line)
    <2>1. ASSUME NEW t \in Tiers(partno)
          PROVE  ~Permits(db, Key(n, t, partno, line.src), line)
      <3>1. CASE n = ns /\ t = "device"
        BY <1>1, <3>1 DEF Current
      <3>2. CASE ~(n = ns /\ t = "device")
        <4>1. <<n, t>> \in ReadTiers
          BY <1>1, <2>1, <3>2 DEF ReadTiers, Served, LastRead, Namespaces
        <4>2. Key(n, t, partno, line.src) \in ReadKeys
          BY <4>1, ReadKeyOf
        <4>. QED  BY <4>2 DEF ReadsAgree
      <3>. QED  BY <3>1, <3>2
    <2>. QED  BY <2>1, NotAuthorized
  <1>. QED  BY <1>1, <1>2 DEF DecideAtOnce

-----------------------------------------------------------------------------
\* The invariant

\* With at most one key written, either the reads so far fit Valkey as it is,
\* or they fit Valkey as it was and the read under way cannot tell the two apart.
LEMMA AgreesWithOne ==
    ASSUME InfoTypeOK, PlaceOK, TierRead, InstantOK, writes <= 1
    PROVE  \/ ReadsAgree(rules, parts)
           \/ /\ ReadsAgree(rules0, parts0)
              /\ Permits(rules0, Current, line) <=> Permits(rules, Current, line)
  <1>1. CASE ReadsAgree(rules, parts)
    BY <1>1
  <1>2. CASE ReadsAgree(rules0, parts0)
    <2>1. CASE rules = rules0
      BY <1>2, <2>1 DEF Permits
    <2>2. CASE OneKeyWritten
      <3>1. PICK k \in Keys : parts = parts0 /\ \A j \in Keys \ {k} : rules[j] = rules0[j]
        BY <2>2 DEF OneKeyWritten
      <3>2. CASE Current = k
        <4>1. \A j \in ReadKeys : rules[j] = rules0[j]
          BY <3>1, <3>2, CurrentKey, ReadKeysExist DEF TierRead
        <4>. QED  BY <1>2, <3>1, <4>1 DEF ReadsAgree, Permits
      <3>3. CASE Current # k
        BY <1>2, <3>1, <3>3, CurrentKey DEF Permits
      <3>. QED  BY <3>2, <3>3
    <2>3. writes \in {0, 1}
      BY InfoAssumption DEF InfoTypeOK
    <2>. QED  BY <2>1, <2>2, <2>3 DEF InstantOK
  <1>. QED  BY <1>1, <1>2 DEF InstantOK

\* What the request has read stays read while the request stays where it is.
LEMMA PlaceFrame ==
    ASSUME PlaceOK, InstantOK,
           UNCHANGED <<args, rules, parts, rules0, parts0, writes, pc, line, partno, ns>>
    PROVE  PlaceOK' /\ InstantOK'
  <1>1. UNCHANGED <<ReadKeys, Served>>
    BY DEF ReadKeys, ReadTiers, Tiers, Key, Served
  <1>. QED  BY <1>1 DEF PlaceOK, InstantOK, OneKeyWritten, ReadsAgree, Permits

\* A first failure costs one hit, a second one ends the request.
LEMMA FailedAttempt ==
    ASSUME InfoInv, pc # "idle", AttemptFails,
           UNCHANGED <<args, rules, parts, rules0, parts0, writes, server>>,
           hits' \in 0 .. 2, hits' >= hits, hits' >= 1
    PROVE  /\ pc' = "idle" => attempt' = 1 /\ ns' = "intranet"
           /\ pc' # "idle" => PlaceOK' /\ HitsOK' /\ InstantOK'
  <1>1. CASE attempt = 1
    BY <1>1, PlaceFrame DEF AttemptFails, InfoInv, HitsOK, InfoTypeOK
  <1>2. CASE attempt # 1
    BY <1>2 DEF AttemptFails, Answer
  <1>. QED  BY <1>1, <1>2

\* A request begins with nothing read.
LEMMA AskInv ==
    ASSUME InfoInv, NEW l \in Lines, Ask(l)
    PROVE  /\ pc' = "idle" => attempt' = 1 /\ ns' = "intranet"
           /\ pc' # "idle" => PlaceOK' /\ HitsOK' /\ InstantOK'
  <1>1. CASE l.src = Unset
    BY <1>1 DEF Ask, Answer
  <1>2. CASE l.src # Unset
    <2>1. /\ pc' = "partno" /\ ns' = "intranet" /\ attempt' = 1 /\ writes' = 0
          /\ rules' = rules /\ rules0' = rules /\ parts' = parts /\ parts0' = parts
          /\ server' = server /\ conn' = conn
          /\ hits' = IF server # "up" THEN 2 ELSE IF conn = "dead" THEN 1 ELSE 0
      BY <1>2 DEF Ask, InfoInv, dbVars
    <2>2. ReadKeys' = {}
      BY <2>1 DEF ReadKeys, ReadTiers
    <2>3. InstantOK'
      BY <2>1, <2>2 DEF InstantOK, ReadsAgree
    <2>4. HitsOK'
      BY <2>1 DEF HitsOK
    <2>. QED  BY <2>1, <2>3, <2>4 DEF PlaceOK
  <1>. QED  BY <1>1, <1>2

\* The reply to HGET fits Valkey as it is.
LEMMA ReplyPartnoInv ==
    ASSUME InfoInv, Reply, ReplyPartno
    PROVE  pc' # "idle" /\ PlaceOK' /\ HitsOK' /\ InstantOK'
  <1>1. /\ pc' = "global" /\ attempt' = 1 /\ partno' = parts[line.src] /\ line' = line
        /\ ns' = IF args.proxy_type = "both" THEN "intranet" ELSE args.proxy_type
        /\ UNCHANGED <<args, rules, parts, server, conn, rules0, parts0, writes, hits>>
        /\ conn = "live" /\ pc = "partno"
    BY DEF Reply, ReplyPartno, dbVars, ghostVars
  <1>2. ReadKeys' = {}
    BY <1>1 DEF ReadKeys, ReadTiers
  <1>3. PlaceOK'
    BY <1>1, ServedType DEF PlaceOK, Served, InfoInv, Namespaces
  <1>4. HitsOK'
    BY <1>1 DEF HitsOK, InfoInv
  <1>5. InstantOK'
    BY <1>1, <1>2 DEF InstantOK, OneKeyWritten, ReadsAgree, InfoInv
  <1>. QED  BY <1>1, <1>3, <1>4, <1>5

\* A tier that does not permit joins the reads of one and the same instant.
LEMMA ReplyMembersInv ==
    ASSUME InfoInv, Reply, ReplyMembers
    PROVE  /\ pc' = "idle" => attempt' = 1 /\ ns' = "intranet"
           /\ pc' # "idle" => PlaceOK' /\ HitsOK' /\ InstantOK'
  <1>1. CASE \E v \in Verdicts : Answer(v, FALSE)
    BY <1>1 DEF Answer
  <1>2. CASE /\ ~Permits(rules, Current, line) /\ ~LastRead
             /\ NextRead /\ attempt' = 1 /\ UNCHANGED <<line, partno, verdict, failed>>
    <2>1. /\ UNCHANGED <<args, rules, parts, server, conn, rules0, parts0, writes, hits>>
          /\ conn = "live" /\ TierRead /\ pc # "idle" /\ InfoTypeOK /\ PlaceOK
      BY DEF Reply, ReplyMembers, dbVars, ghostVars, TierRead, InfoInv
    <2>2. ReadKeys' = ReadKeys \cup {Current} /\ PlaceOK' /\ TierRead'
      BY <1>2, <2>1, NextReadKeys
    <2>3. HitsOK'
      BY <1>2, <2>1 DEF HitsOK, InfoInv
    <2>4. InstantOK'
      <3>1. writes \in Nat /\ InstantOK
        BY <2>1, InfoAssumption DEF InfoInv, InfoTypeOK
      <3>2. ASSUME writes <= 1
            PROVE  ReadsAgree(rules0, parts0)' \/ ReadsAgree(rules, parts)'
        <4>1. pc # "partno" /\ partno' = partno /\ line' = line
          BY <1>2, <2>1 DEF TierRead
        <4>2. CASE ReadsAgree(rules, parts)
          BY <1>2, <2>1, <2>2, <4>1, <4>2 DEF ReadsAgree, Permits
        <4>3. CASE ReadsAgree(rules0, parts0) /\ ~Permits(rules0, Current, line)
          BY <1>2, <2>1, <2>2, <4>1, <4>3 DEF ReadsAgree, Permits
        <4>. QED  BY <1>2, <2>1, <3>1, <3>2, <4>2, <4>3, AgreesWithOne
      <3>. QED  BY <2>1, <3>1, <3>2 DEF InstantOK, OneKeyWritten
    <2>. QED  BY <2>2, <2>3, <2>4 DEF TierRead
  <1>3. "ERR" \in Verdicts /\ Granted(ns) \in Verdicts
    BY DEF Verdicts, Granted
  <1>. QED  BY <1>1, <1>2, <1>3 DEF ReplyMembers, Current

\* A write during the request is the one key that may differ.
LEMMA WrittenInv ==
    ASSUME InfoInv, Written,
           \/ parts' = parts /\ \E k \in Keys : \A j \in Keys \ {k} : rules'[j] = rules[j]
           \/ rules' = rules
    PROVE  /\ pc' = "idle" => attempt' = 1 /\ ns' = "intranet"
           /\ pc' # "idle" => PlaceOK' /\ HitsOK' /\ InstantOK'
  <1>1. UNCHANGED <<args, server, conn, pc, attempt, line, partno, ns, hits>>
    BY DEF Written, callVars
  <1>2. CASE pc = "idle"
    BY <1>1, <1>2 DEF InfoInv
  <1>3. CASE pc # "idle"
    <2>1. writes' = writes + 1 /\ rules0' = rules0 /\ parts0' = parts0 /\ writes \in Nat
      BY <1>3, InfoAssumption DEF Written, InfoInv, InfoTypeOK
    <2>2. UNCHANGED <<ReadKeys, Served>>
      BY <1>1 DEF ReadKeys, ReadTiers, Tiers, Key, Served
    <2>3. PlaceOK' /\ HitsOK'
      BY <1>1, <1>3, <2>2 DEF PlaceOK, HitsOK, InfoInv
    <2>4. ASSUME writes' <= 1
          PROVE  ReadsAgree(rules0, parts0)' /\ (rules' = rules0 \/ OneKeyWritten') /\ writes' = 1
      <3>1. rules = rules0 /\ parts = parts0 /\ ReadsAgree(rules0, parts0) /\ writes' = 1
        BY <1>3, <2>1, <2>4 DEF InfoInv, InstantOK
      <3>2. ReadsAgree(rules0, parts0)'
        BY <1>1, <2>1, <2>2, <3>1 DEF ReadsAgree, Permits
      <3>. QED  BY <2>1, <3>1, <3>2 DEF OneKeyWritten
    <2>5. InstantOK'
      BY <2>1, <2>4 DEF InstantOK
    <2>. QED  BY <1>1, <1>3, <2>3, <2>5
  <1>. QED  BY <1>2, <1>3

\* Every step keeps the invariant.
LEMMA InvNext == InfoInv /\ [Next]_vars => InfoInv'
  <1>. SUFFICES ASSUME InfoInv, [Next]_vars
                PROVE  /\ pc' = "idle" => attempt' = 1 /\ ns' = "intranet"
                       /\ pc' # "idle" => PlaceOK' /\ HitsOK' /\ InstantOK'
    BY TypeNext DEF InfoInv
  <1>1. ASSUME UNCHANGED <<args, rules, parts, rules0, parts0, writes, callVars>>,
               pc # "idle" => HitsOK'
        PROVE  /\ pc' = "idle" => attempt' = 1 /\ ns' = "intranet"
               /\ pc' # "idle" => PlaceOK' /\ HitsOK' /\ InstantOK'
    BY <1>1, PlaceFrame DEF InfoInv, callVars
  <1>2. CASE Connect
    <2>1. /\ UNCHANGED <<args, rules, parts, rules0, parts0, writes, server, hits>>
          /\ pc # "idle" /\ conn = "none"
      BY <1>2 DEF Connect, dbVars, ghostVars
    <2>2. CASE conn' = "live" /\ UNCHANGED callVars
      <3>1. HitsOK'
        BY <2>1, <2>2 DEF HitsOK, InfoInv, callVars
      <3>. QED  BY <1>1, <2>1, <2>2, <3>1
    <2>3. CASE server = "down" /\ AttemptFails
      <3>1. hits = 2
        BY <2>1, <2>3 DEF InfoInv, HitsOK
      <3>. QED  BY <2>1, <2>3, <3>1, FailedAttempt
    <2>4. CASE Answer("ERR", TRUE)
      BY <2>4 DEF Answer
    <2>. QED  BY <1>2, <2>2, <2>3, <2>4 DEF Connect
  <1>3. CASE Reply
    BY <1>3, ReplyPartnoInv, ReplyMembersInv DEF Reply
  <1>4. CASE ErrorReply
    <2>1. /\ UNCHANGED <<args, rules, parts, rules0, parts0, writes, server>>
          /\ pc # "idle" /\ AttemptFails
          /\ hits' \in 0 .. 2 /\ hits' >= hits /\ hits' >= 1
      BY <1>4 DEF ErrorReply, dbVars, Min2, InfoInv, InfoTypeOK
    <2>. QED  BY <2>1, FailedAttempt
  <1>5. CASE Broken
    <2>1. /\ UNCHANGED <<args, rules, parts, rules0, parts0, writes, server>>
          /\ pc # "idle" /\ AttemptFails
          /\ hits' \in 0 .. 2 /\ hits' >= hits /\ hits' >= 1
      BY <1>5 DEF Broken, dbVars, ghostVars, InfoInv, InfoTypeOK, HitsOK
    <2>. QED  BY <2>1, FailedAttempt
  <1>6. ASSUME NEW k \in Keys, SpoolRules(k)
        PROVE  /\ pc' = "idle" => attempt' = 1 /\ ns' = "intranet"
               /\ pc' # "idle" => PlaceOK' /\ HitsOK' /\ InstantOK'
    <2>1. parts' = parts /\ \A j \in Keys \ {k} : rules'[j] = rules[j]
      BY <1>6 DEF SpoolRules, InfoInv, InfoTypeOK
    <2>. QED  BY <1>6, <2>1, WrittenInv DEF SpoolRules
  <1>7. ASSUME NEW d \in Devices, SpoolDevice(d)
        PROVE  /\ pc' = "idle" => attempt' = 1 /\ ns' = "intranet"
               /\ pc' # "idle" => PlaceOK' /\ HitsOK' /\ InstantOK'
    BY <1>7, WrittenInv DEF SpoolDevice
  <1>8. CASE Drop
    <2>1. UNCHANGED <<args, rules, parts, rules0, parts0, writes, callVars>>
      BY <1>8 DEF Drop, dbVars
    <2>2. pc # "idle" => HitsOK'
      BY <1>8 DEF Drop, HitsOK, InfoInv, InfoTypeOK, Min2, callVars
    <2>. QED  BY <1>1, <2>1, <2>2
  <1>9. ASSUME NEW s \in {"down", "denied"}, Outage(s)
        PROVE  /\ pc' = "idle" => attempt' = 1 /\ ns' = "intranet"
               /\ pc' # "idle" => PlaceOK' /\ HitsOK' /\ InstantOK'
    <2>1. UNCHANGED <<args, rules, parts, rules0, parts0, writes, callVars>>
      BY <1>9 DEF Outage, dbVars
    <2>2. pc # "idle" => HitsOK'
      BY <1>9 DEF Outage, HitsOK, callVars
    <2>. QED  BY <1>1, <2>1, <2>2
  <1>10. CASE Heal
    <2>1. UNCHANGED <<args, rules, parts, rules0, parts0, writes, callVars>>
      BY <1>10 DEF Heal, dbVars, ghostVars
    <2>2. pc # "idle" => HitsOK'
      BY <1>10 DEF Heal, HitsOK, InfoInv, callVars, ghostVars
    <2>. QED  BY <1>1, <2>1, <2>2
  <1>11. CASE Stall \/ Resume
    <2>1. UNCHANGED <<args, rules, parts, rules0, parts0, writes, callVars>>
      BY <1>11 DEF Stall, Resume, dbVars, ghostVars
    <2>2. pc # "idle" => HitsOK'
      BY <1>11 DEF Stall, Resume, HitsOK, InfoInv, callVars, ghostVars
    <2>. QED  BY <1>1, <2>1, <2>2
  <1>12. CASE UNCHANGED vars
    <2>1. UNCHANGED <<args, rules, parts, rules0, parts0, writes, callVars>>
      BY <1>12 DEF vars, dbVars, ghostVars
    <2>2. pc # "idle" => HitsOK'
      BY <1>12 DEF vars, HitsOK, InfoInv, callVars, ghostVars
    <2>. QED  BY <1>1, <2>1, <2>2
  <1>. QED  BY <1>2, <1>3, <1>4, <1>5, <1>6, <1>7, <1>8, <1>9, <1>10, <1>11, <1>12,
            AskInv
            DEF Next, Helper, Environment

\* The invariant holds throughout.
LEMMA InvHolds == Spec => []InfoInv
  <1>1. Init => InfoInv
    BY TypeInit DEF Init, InfoInv
  <1>. QED  BY <1>1, InvNext, PTL DEF Spec

\* Every variable of the helper keeps its range.
THEOREM InfoTypeCorrect == Spec => []InfoTypeOK
  <1>1. InfoInv => InfoTypeOK
    BY DEF InfoInv
  <1>. QED  BY <1>1, InvHolds, PTL

\* Only these steps end a request.
LEMMA AnsweringStep ==
    ASSUME InfoInv, [Next]_vars, Answered
    PROVE  Reply \/ (failed' /\ (Connect \/ ErrorReply \/ Broken))
  <1>1. ASSUME AttemptFails PROVE failed'
    BY <1>1 DEF AttemptFails, Answer, Answered
  <1>2. ASSUME UNCHANGED callVars PROVE FALSE
    BY <1>2 DEF callVars, Answered
  <1>3. ASSUME Written PROVE FALSE
    BY <1>2, <1>3 DEF Written
  <1>4. ASSUME Connect PROVE failed'
    BY <1>1, <1>2, <1>4 DEF Connect, Answer
  <1>. QED  BY <1>1, <1>2, <1>3, <1>4
            DEF Next, vars, Helper, Environment, Ask, ErrorReply, Broken, Answered,
                SpoolRules, SpoolDevice, Drop, Stall, Resume, Outage, Heal

\* With at most one key rewritten while the helper reads, its answer is the one
\* that the allow-lists give at once, as they were or as they are.
THEOREM AnswersOfOneInstant == Spec => VerdictOfOneInstant
  <1>1. ASSUME InfoInv, [Next]_vars, Answered, ~failed', writes <= 1
        PROVE  verdict' \in {DecideAtOnce(rules0, parts0, line), DecideAtOnce(rules, parts, line)}
    <2>1. CASE ReplyPartno
      BY <1>1, <2>1 DEF ReplyPartno, Answered
    <2>2. CASE ReplyMembers
      <3>1. InfoTypeOK /\ PlaceOK /\ TierRead /\ InstantOK
        BY <1>1, <2>2 DEF ReplyMembers, TierRead, InfoInv, Answered
      <3>2. CASE verdict' = Granted(ns) /\ Permits(rules, Current, line)
        BY <1>1, <3>1, <3>2, AgreesWithOne, DecideGranted
      <3>3. CASE verdict' = "ERR" /\ LastRead /\ ~Permits(rules, Current, line)
        BY <1>1, <3>1, <3>3, AgreesWithOne, DecideDenied
      <3>4. ASSUME NextRead PROVE pc' # "idle"
        BY <3>1, <3>4 DEF NextRead, TierRead
      <3>. QED  BY <1>1, <2>2, <3>2, <3>3, <3>4 DEF ReplyMembers, Answer, Current, Answered
    <2>. QED  BY <1>1, <2>1, <2>2, AnsweringStep DEF Reply
  <1>. QED  BY <1>1, InvHolds, PTL DEF Spec, VerdictOfOneInstant

\* Without an outage one lost connection or error reply denies nobody.
THEOREM ReconnectAbsorbsOneHiccup == Spec => OneHiccupAbsorbed
  <1>1. ASSUME InfoInv, [Next]_vars, Answered, failed'
        PROVE  hits' >= 2
    <2>1. pc # "idle" /\ HitsOK /\ hits \in 0 .. 2
      BY <1>1 DEF InfoInv, InfoTypeOK, Answered
    <2>2. ASSUME AttemptFails PROVE attempt = 2
      BY <1>1, <2>2 DEF AttemptFails, Answered, InfoInv, InfoTypeOK
    <2>3. CASE Connect
      <3>1. ~UNCHANGED callVars
        BY <1>1 DEF callVars, Answered
      <3>2. server # "up" /\ hits' = hits
        BY <2>3, <3>1 DEF Connect, ghostVars
      <3>. QED  BY <2>1, <3>2 DEF HitsOK
    <2>4. CASE ErrorReply
      BY <2>1, <2>2, <2>4 DEF ErrorReply, HitsOK, Min2
    <2>5. CASE Broken
      BY <2>1, <2>2, <2>5 DEF Broken, HitsOK, ghostVars
    <2>6. CASE Reply
      BY <1>1, <2>1, <2>6 DEF Reply, ReplyPartno, ReplyMembers, Answer, Answered, NextRead
    <2>. QED  BY <1>1, <2>3, <2>4, <2>5, <2>6, AnsweringStep
  <1>. QED  BY <1>1, InvHolds, PTL DEF Spec, OneHiccupAbsorbed

=============================================================================
