------------------------------ MODULE InfoProxy ------------------------------
(***************************************************************************)
(* One squid-infoproxy helper process (squid-infoproxy main.rs, valkey.rs): *)
(* Squid writes a request line, the helper reads the device's part number  *)
(* and then one allow-list after the other from Valkey, over a connection  *)
(* that it re-establishes once per read, and answers.  Meanwhile the       *)
(* portal's spooler rewrites single keys.  Squid runs up to 40 helpers;    *)
(* they share nothing but Valkey, so one stands for all.                   *)
(***************************************************************************)
EXTENDS DestinationRules

CONSTANTS
    Devices,   \* client addresses
    Models,    \* part numbers
    NoPart,    \* no part number, or an empty one, in the device's hash
    Rules,     \* members of the allow-lists
    Contents,  \* what the spooler may write to a key: sets of Rules
    CommandLines,   \* how helpers are started: a subset of Args
    Lines,     \* request lines of Squid, [src, dst, rd, port, method]
    NoLine,    \* no request in hand
    MaxWrites  \* bound: keys rewritten during one request

Namespaces == {"intranet", "internet"}

\* --proxy-type and --strict-proto
Args == [proxy_type : Namespaces \cup {"both"}, strict_proto : BOOLEAN]

ASSUME InfoAssumption ==
    /\ NoPart \notin Models
    /\ CommandLines \subseteq Args
    /\ Contents \subseteq SUBSET Rules
    /\ NoLine \notin Lines
    /\ \A l \in Lines : l.src \in Devices \cup {Unset}
    /\ Unset \notin Devices
    /\ MaxWrites \in Nat

\* infoproxy:<ns>:global, infoproxy:<ns>:model:<partno>, infoproxy:<ns>:device:<src_ip>
Keys == {<<ns, "global", "any">> : ns \in Namespaces}
        \cup {<<ns, "model", m>> : ns \in Namespaces, m \in Models}
        \cup {<<ns, "device", d>> : ns \in Namespaces, d \in Devices}

Verdicts == {"OK", "OK tag=intranet", "OK tag=internet", "ERR"}

VARIABLES
    args,      \* command line, never changed
    rules,     \* Valkey: rules[k], the members of key k, {} if it is missing
    parts,     \* Valkey: parts[d], partno of systems:by-ip:<d>
    server,    \* Valkey: "up", "down", or "denied" (refuses AUTH)
    conn,      \* the helper's connection: "none", "live", "dead" (closed by Valkey), or
               \* "hung": open, but nothing comes
    pc,        \* "idle", or the read under way: "partno", "global", "model", "device"
    attempt,   \* 1, or 2 after the reconnect of smembers and hget
    line, partno, ns,   \* locals of decide
    verdict,   \* the last answer
    \* what happened to the current request, for the properties only
    rules0, parts0,   \* Valkey when the request arrived
    writes,    \* keys rewritten since
    hits,      \* connections found or lost dead, and error replies, since; an
               \* outage counts for two
    failed     \* the last answer reports an error

dbVars    == <<rules, parts>>
callVars  == <<pc, attempt, line, partno, ns, verdict, failed>>
ghostVars == <<rules0, parts0, writes, hits>>
vars == <<args, dbVars, server, conn, callVars, ghostVars>>

InfoTypeOK ==
    /\ args \in CommandLines
    /\ rules \in [Keys -> SUBSET Rules] /\ rules0 \in [Keys -> SUBSET Rules]
    /\ parts \in [Devices -> Models \cup {NoPart}]
    /\ parts0 \in [Devices -> Models \cup {NoPart}]
    /\ server \in {"up", "down", "denied"}
    /\ conn \in {"none", "live", "dead", "hung"}
    /\ pc \in {"idle", "partno", "global", "model", "device"}
    /\ attempt \in {1, 2}
    /\ line \in Lines \cup {NoLine} /\ (pc = "idle" <=> line = NoLine)
    /\ pc # "idle" => line.src \in Devices
    /\ partno \in Models \cup {NoPart}
    /\ ns \in Namespaces
    /\ verdict \in Verdicts
    /\ writes \in 0 .. MaxWrites
    /\ hits \in 0 .. 2
    /\ failed \in BOOLEAN

-----------------------------------------------------------------------------
\* What an allow-list says

Key(n, tier, pn, src) ==
    <<n, tier, CASE tier = "model" -> pn [] tier = "device" -> src [] OTHER -> "any">>

Served == IF args.proxy_type = "both" THEN Namespaces ELSE {args.proxy_type}

\* key_allows, on the reply of SMEMBERS
Permits(db, key, l) ==
    \E r \in db[key] : rule_allows(r, RequestOf(l), args.strict_proto)

\* The union of the three tiers, read at one instant
Authorized(db, n, pn, l) ==
    \/ Permits(db, Key(n, "global", pn, l.src), l)
    \/ pn # NoPart /\ Permits(db, Key(n, "model", pn, l.src), l)
    \/ Permits(db, Key(n, "device", pn, l.src), l)

Granted(n) == IF args.proxy_type # "both" THEN "OK"
              ELSE IF n = "intranet" THEN "OK tag=intranet" ELSE "OK tag=internet"

\* The answer of a helper that reads everything at one instant: the union of
\* the tiers, the intranet first, deny by default
DecideAtOnce(db, ps, l) ==
    LET may == {n \in Served : Authorized(db, n, ps[l.src], l)}
    IN  IF may = {} THEN "ERR"
        ELSE IF "intranet" \in may THEN Granted("intranet") ELSE Granted("internet")

-----------------------------------------------------------------------------
\* The helper

Init ==
    /\ args \in CommandLines
    /\ rules = [k \in Keys |-> {}] /\ rules0 = rules
    /\ parts = [d \in Devices |-> NoPart] /\ parts0 = parts
    /\ server = "up" /\ conn = "none"
    /\ pc = "idle" /\ attempt = 1 /\ line = NoLine
    /\ partno = NoPart /\ ns = "intranet"
    /\ verdict = "ERR" /\ failed = FALSE
    /\ writes = 0 /\ hits = 0

\* (fault: the line is kept)
AnswerKeepsLine(v, error) ==
    /\ pc' = "idle" /\ attempt' = 1 /\ line' = line
    /\ partno' = NoPart /\ ns' = "intranet"
    /\ verdict' = v /\ failed' = error

\* main's loop: nothing of a request outlives its answer, except the connection
Answer(v, error) ==
    /\ pc' = "idle" /\ attempt' = 1 /\ line' = NoLine
    /\ partno' = NoPart /\ ns' = "intranet"
    /\ verdict' = v /\ failed' = error

Min2(n) == IF n > 2 THEN 2 ELSE n

\* A line without a source is refused at once.
Ask(l) ==
    /\ pc = "idle"
    /\ rules0' = rules /\ parts0' = parts /\ writes' = 0
    /\ hits' = IF server # "up" THEN 2 ELSE IF conn = "dead" THEN 1 ELSE 0
    /\ IF l.src = Unset
       THEN Answer("ERR", FALSE)
       ELSE /\ pc' = "partno" /\ line' = l
            /\ UNCHANGED <<attempt, partno, ns, verdict, failed>>
    /\ UNCHANGED <<args, dbVars, server, conn>>

\* (fault: the error of the first attempt is final)
AttemptFailsForGood == Answer("ERR", TRUE) /\ UNCHANGED conn

\* (fault: a failed read is tried again without end)
AttemptFailsRetry ==
    /\ conn' = "none"
    /\ UNCHANGED <<pc, attempt, line, partno, ns, verdict, failed>>

\* hget, smembers: an error of the first attempt drops the connection and tries
\* again; an error of the second one is the caller's, who denies
AttemptFails ==
    IF attempt = 1
    THEN /\ attempt' = 2 /\ conn' = "none"
         /\ UNCHANGED <<pc, line, partno, ns, verdict, failed>>
    ELSE Answer("ERR", TRUE) /\ UNCHANGED conn

\* ensure, connect: PermissionDenied, the answer to a refused AUTH, is not retried
Connect ==
    /\ pc # "idle" /\ conn = "none"
    /\ \/ server = "up" /\ conn' = "live" /\ UNCHANGED callVars
       \/ server = "down" /\ AttemptFails
       \/ server = "denied" /\ Answer("ERR", TRUE) /\ UNCHANGED conn
    /\ UNCHANGED <<args, dbVars, server, ghostVars>>

\* (fault: the model tier is left out)
NextReadNoModel ==
    CASE pc \in {"global", "model"} -> pc' = "device" /\ ns' = ns
      [] OTHER                      -> pc' = "global" /\ ns' = "internet"

\* tier_allows and decide: the read that follows one that allowed nothing
NextRead ==
    CASE pc = "global" /\ partno # NoPart -> pc' = "model" /\ ns' = ns
      [] pc = "global" /\ partno = NoPart -> pc' = "device" /\ ns' = ns
      [] pc = "model"                     -> pc' = "device" /\ ns' = ns
      [] OTHER                            -> pc' = "global" /\ ns' = "internet"

LastRead == pc = "device" /\ (args.proxy_type = "both" => ns = "internet")

ReplyPartno ==
    /\ pc = "partno"
    /\ partno' = parts[line.src]
    /\ ns' = IF args.proxy_type = "both" THEN "intranet" ELSE args.proxy_type
    /\ pc' = "global" /\ attempt' = 1
    /\ UNCHANGED <<line, verdict, failed>>

ReplyMembers ==
    /\ pc \in {"global", "model", "device"}
    /\ IF Permits(rules, Key(ns, pc, partno, line.src), line)
       THEN Answer(Granted(ns), FALSE)
       ELSE IF LastRead THEN Answer("ERR", FALSE)
       ELSE NextRead /\ attempt' = 1 /\ UNCHANGED <<line, partno, verdict, failed>>

\* hget_once, smembers_once on an open connection
Reply ==
    /\ conn = "live"
    /\ ReplyPartno \/ ReplyMembers
    /\ UNCHANGED <<args, dbVars, server, conn, ghostVars>>

\* An error reply (LOADING, NOPERM, WRONGTYPE) leaves the connection in step
ErrorReply ==
    /\ pc # "idle" /\ conn = "live"
    /\ AttemptFails
    /\ hits' = Min2(hits + 1)
    /\ UNCHANGED <<args, dbVars, server, rules0, parts0, writes>>

\* write or read on a connection that Valkey has closed
Broken ==
    /\ pc # "idle" /\ conn = "dead"
    /\ AttemptFails
    /\ UNCHANGED <<args, dbVars, server, ghostVars>>

Helper == Connect \/ Reply \/ ErrorReply \/ Broken

-----------------------------------------------------------------------------
\* Valkey and the portal's spooler

\* While no request is in hand rules0 and parts0 follow the database
Written ==
    /\ IF pc = "idle"
       THEN rules0' = rules' /\ parts0' = parts' /\ UNCHANGED writes
       ELSE writes < MaxWrites /\ writes' = writes + 1 /\ UNCHANGED <<rules0, parts0>>
    /\ UNCHANGED <<args, server, conn, callVars, hits>>

\* A change of master data rewrites one key; those of the other namespace are
\* never read
SpoolRules(k) ==
    /\ k[1] \in Served
    /\ \E S \in Contents \ {rules[k]} : rules' = [rules EXCEPT ![k] = S]
    /\ UNCHANGED parts
    /\ Written

SpoolDevice(d) ==
    /\ \E m \in (Models \cup {NoPart}) \ {parts[d]} : parts' = [parts EXCEPT ![d] = m]
    /\ UNCHANGED rules
    /\ Written

\* An idle timeout, a restart of Valkey; the end of a hung connection, if it has one
Drop ==
    /\ conn \in {"live", "hung"} /\ conn' = "dead"
    /\ hits' = IF pc = "idle" THEN hits ELSE Min2(hits + 1)
    /\ UNCHANGED <<args, dbVars, server, callVars, rules0, parts0, writes>>

\* Valkey stalls, or its host is gone without a word: connect sets neither a read
\* timeout nor keepalive, so whoever reads waits, perhaps for ever.
Stall ==
    /\ conn = "live" /\ conn' = "hung"
    /\ UNCHANGED <<args, dbVars, server, callVars, ghostVars>>

Resume ==
    /\ conn = "hung" /\ server # "down" /\ conn' = "live"
    /\ UNCHANGED <<args, dbVars, server, callVars, ghostVars>>

Outage(s) ==
    /\ server = "up" /\ server' = s
    /\ conn' = IF s = "down" /\ conn = "live" THEN "dead" ELSE conn
    /\ hits' = IF pc = "idle" THEN hits ELSE 2
    /\ UNCHANGED <<args, dbVars, callVars, rules0, parts0, writes>>

Heal ==
    /\ server # "up" /\ server' = "up"
    /\ UNCHANGED <<args, dbVars, conn, callVars, ghostVars>>

Environment ==
    \/ \E k \in Keys : SpoolRules(k)
    \/ \E d \in Devices : SpoolDevice(d)
    \/ Drop \/ Stall \/ Resume
    \/ \E s \in {"down", "denied"} : Outage(s)
    \/ Heal

Next == Helper \/ (\E l \in Lines : Ask(l)) \/ Environment

Spec == Init /\ [][Next]_vars

\* The helper has no clock: connect returns by the kernel's own limit, and a read
\* by an answer or the connection's end. On a hung connection no step is enabled,
\* and nothing is assumed to end that wait.
FairSpec == Spec /\ WF_vars(Helper)

-----------------------------------------------------------------------------
\* Properties

Answered == pc # "idle" /\ pc' = "idle"

\* decide reads up to seven keys one after the other.  As long as at most one
\* key is rewritten meanwhile, the answer is still that of a single instant:
\* of the allow-lists as they were when the request came or as they are now.
\* No binding is lost or invented in between, and a destination the intranet
\* list holds is tagged intranet.
VerdictOfOneInstant ==
    [][Answered /\ ~failed' /\ writes <= 1
         => verdict' \in {DecideAtOnce(rules0, parts0, line),
                          DecideAtOnce(rules, parts, line)}]_vars

\* One lost connection, one that Valkey closed while the helper was idle, or one
\* error reply is absorbed by the reconnect: a device is denied for want of
\* Valkey only after an outage or a second such event during the request.
OneHiccupAbsorbed == [][Answered /\ failed' => hits' >= 2]_vars

\* Every line Squid writes is answered, through outages, refusals, error replies
\* and lost connections, unless its connection hangs: then the helper waits as long
\* as that lasts (valkey.rs connect and smembers, main.rs main).
EveryLineAnswered == (pc # "idle") ~> (pc = "idle" \/ conn = "hung")

=============================================================================
