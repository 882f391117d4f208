----------------------------- MODULE Credentials -----------------------------
(***************************************************************************)
(* One ipsecnode's credential task (credentials.rs, with the VICI requests *)
(* of vici.rs): it loads every site's pre-shared key and connection into   *)
(* charon at startup, and then follows the keyspace events of Valkey.      *)
(*                                                                         *)
(* The operator writes Valkey at any time.  Charon is a separate process:  *)
(* what is loaded into it outlives ipsecnode.  Keyspace events are pub/sub *)
(* messages: they reach only a node that is subscribed when they are sent. *)
(***************************************************************************)
EXTENDS Integers, Sequences, FiniteSets

CONSTANTS
    Sites,      \* VPN sites, by public address
    Psks,       \* pre-shared keys
    Recs,       \* site records
    Identity,   \* Identity[r]: the ike_identity of record r, {} or a singleton
    None,       \* an absent key of Valkey, or entry of charon
    Faults,     \* what may go wrong: a subset of AllFaults
    MaxEvents,  \* bound: undelivered keyspace events
    MaxWrites,  \* bound: writes of the operator
    MaxBreaks   \* bound: crashes of either process, lost connections

\* The events the code meets but does not prevent:
\*   valkey  a connection or GET fails
\*   vici    charon refuses a request
\*   link    an `ip link` command fails
\*   blind   a key changes while no one is subscribed, or an event that was sent
\*           is lost with its connection or with the process
AllFaults == {"valkey", "vici", "link", "blind"}

ASSUME CredAssumption ==
    /\ None \notin Psks /\ None \notin Recs
    /\ DOMAIN Identity = Recs
    /\ \A r \in Recs : Identity[r] \cap Sites = {}
    /\ Faults \subseteq AllFaults
    /\ MaxEvents \in Nat /\ MaxWrites \in Nat /\ MaxBreaks \in Nat

VARIABLES
    psk,         \* Valkey: fleetipsec:psk:<site>
    site,        \* Valkey: fleetipsec:site:<site>
    shared,      \* charon: the shared secret psk-<site>, with its owners
    conns,       \* charon: the record each site's connection was loaded from
    xfrm,        \* kernel: sites with an XFRM interface
    phase,       \* the process: down, bulk (bulk_load), serving (pubsub_task)
    unscanned,   \* psk keys that bulk_load's SCAN has still to return
    subscribed,  \* the pubsub connection is subscribed
    events,      \* keyspace events on their way to the task
    job,         \* the load or unload in progress
    faulty,      \* the faults may still happen: no restart of charon yet
    writes, breaks

valkeyVars == <<psk, site, writes>>
charonVars == <<shared, conns, xfrm>>
linkVars   == <<subscribed, events>>
procVars   == <<phase, unscanned, job>>
vars == <<valkeyVars, charonVars, linkVars, procVars, faulty, breaks>>

-----------------------------------------------------------------------------
\* Data

KeyEvent == [key : {"psk", "site"}, of : Sites, op : {"set", "del"}]

NoJob == [step |-> "none"]
Job(s, step) == [step |-> step, of |-> s, psk |-> None, rec |-> None]
Steps == {"get_psk", "get_site", "load_shared", "load_conn",
          "unload_shared", "unload_conn", "drop_conn"}
Jobs == {NoJob} \cup [step : Steps, of : Sites, psk : Psks \cup {None},
                      rec : Recs \cup {None}]

Owners(s, rec) == {s} \cup (IF rec = None THEN {} ELSE Identity[rec])

Secrets == [psk : Psks, owners : SUBSET (Sites \cup UNION {Identity[r] : r \in Recs})]

ASSUME NoneIsNoSecret == None \notin Secrets

May(f) == f \in Faults /\ faulty

\* The values a best-effort command may leave behind: done, or failed.
Attempt(f, done, undone) == {done} \cup (IF May(f) THEN {undone} ELSE {})

-----------------------------------------------------------------------------
\* The steps of load_one_device and unload_one_device. A definition marked
\* "fault" is the one after it with a plausible bug.

At(step) == job.step = step
GoTo(step) == job' = [job EXCEPT !.step = step]
Done == job' = NoJob

\* (fault: an absent key is not looked for)
get_pskUnguarded ==
    /\ At("get_psk")
    /\ job' = [job EXCEPT !.step = "get_site", !.psk = psk[job.of]]
    /\ UNCHANGED <<valkeyVars, charonVars, linkVars, phase, unscanned, faulty, breaks>>

\* An absent key, and a failed GET, end the job.
get_psk ==
    /\ At("get_psk")
    /\ \/ /\ psk[job.of] # None
          /\ job' = [job EXCEPT !.step = "get_site", !.psk = psk[job.of]]
       \/ (psk[job.of] = None \/ May("valkey")) /\ Done
    /\ UNCHANGED <<valkeyVars, charonVars, linkVars, phase, unscanned, faulty, breaks>>

\* A failed GET, or unparsable JSON, reads as no record.
get_site_record ==
    /\ At("get_site")
    /\ \E rec \in Attempt("valkey", site[job.of], None) :
          job' = [job EXCEPT !.step = "load_shared", !.rec = rec]
    /\ UNCHANGED <<valkeyVars, charonVars, linkVars, phase, unscanned, faulty, breaks>>

\* (fault: a secret that is loaded already is not replaced)
load_sharedOnce ==
    /\ At("load_shared")
    /\ shared' = [shared EXCEPT ![job.of] = IF @ # None THEN @ ELSE
                     [psk |-> job.psk, owners |-> Owners(job.of, job.rec)]]
    /\ IF job.rec = None THEN Done ELSE GoTo("load_conn")
    /\ UNCHANGED <<valkeyVars, conns, xfrm, linkVars, phase, unscanned, faulty, breaks>>

load_shared ==
    /\ At("load_shared")
    /\ \/ /\ shared' = [shared EXCEPT ![job.of] =
                           [psk |-> job.psk, owners |-> Owners(job.of, job.rec)]]
          /\ IF job.rec = None THEN Done ELSE GoTo("load_conn")
       \/ May("vici") /\ Done /\ UNCHANGED shared
    /\ UNCHANGED <<valkeyVars, conns, xfrm, linkVars, phase, unscanned, faulty, breaks>>

\* load_device_conn: the interface first; its failure is only logged.
load_device_conn ==
    /\ At("load_conn")
    /\ xfrm' \in Attempt("link", xfrm \cup {job.of}, xfrm)
    /\ conns' \in Attempt("vici", [conns EXCEPT ![job.of] = job.rec], conns)
    /\ Done
    /\ UNCHANGED <<valkeyVars, shared, linkVars, phase, unscanned, faulty, breaks>>

\* A refused unload-shared ends the job with connection and interface in place.
unload_shared ==
    /\ At("unload_shared")
    /\ \/ shared' = [shared EXCEPT ![job.of] = None] /\ GoTo("unload_conn")
       \/ May("vici") /\ Done /\ UNCHANGED shared
    /\ UNCHANGED <<valkeyVars, conns, xfrm, linkVars, phase, unscanned, faulty, breaks>>

\* (fault: the interface goes, the connection stays)
delete_xfrmOnly ==
    /\ At("unload_conn")
    /\ xfrm' = xfrm \ {job.of}
    /\ Done
    /\ UNCHANGED <<valkeyVars, shared, conns, linkVars, phase, unscanned, faulty, breaks>>

\* unload_conn and delete_xfrm_if, both best-effort
unload_conn ==
    /\ At("unload_conn")
    /\ conns' \in Attempt("vici", [conns EXCEPT ![job.of] = None], conns)
    /\ xfrm' \in Attempt("link", xfrm \ {job.of}, xfrm)
    /\ Done
    /\ UNCHANGED <<valkeyVars, shared, linkVars, phase, unscanned, faulty, breaks>>

\* handle_site_event: unload_conn, then load_one_device
drop_conn ==
    /\ At("drop_conn")
    /\ conns' \in Attempt("vici", [conns EXCEPT ![job.of] = None], conns)
    /\ GoTo("get_psk")
    /\ UNCHANGED <<valkeyVars, shared, xfrm, linkVars, phase, unscanned, faulty, breaks>>

JobStep ==
    \/ get_psk \/ get_site_record \/ load_shared \/ load_device_conn
    \/ unload_shared \/ unload_conn \/ drop_conn

-----------------------------------------------------------------------------
\* The process

Start ==
    /\ phase = "down"
    /\ phase' = "bulk"
    /\ unscanned' = Sites
    /\ UNCHANGED <<valkeyVars, charonVars, linkVars, job, faulty, breaks>>

\* bulk_load: the SCAN returns every key that exists throughout; a key that
\* exists when its turn comes is loaded.
ScanNext(s) ==
    /\ phase = "bulk" /\ job = NoJob
    /\ s \in unscanned
    /\ unscanned' = unscanned \ {s}
    /\ job' = IF psk[s] = None THEN NoJob ELSE Job(s, "get_psk")
    /\ UNCHANGED <<valkeyVars, charonVars, linkVars, phase, faulty, breaks>>

BulkDone ==
    /\ phase = "bulk" /\ job = NoJob
    /\ unscanned = {}
    /\ phase' = "serving"
    /\ UNCHANGED <<valkeyVars, charonVars, linkVars, unscanned, job, faulty, breaks>>

\* run_pubsub_loop's start, also after a lost connection; nothing is reloaded.
Subscribe ==
    /\ phase = "serving" /\ job = NoJob
    /\ ~subscribed /\ events = <<>>
    /\ subscribed' = TRUE
    /\ UNCHANGED <<valkeyVars, charonVars, events, procVars, faulty, breaks>>

\* (fault: a site record's event only reloads)
JobForWithoutDrop(e) ==
    IF e.key = "psk" /\ e.op = "del" THEN Job(e.of, "unload_shared")
    ELSE Job(e.of, "get_psk")

\* handle_psk_event and handle_site_event
JobFor(e) ==
    CASE e.key = "site" -> Job(e.of, "drop_conn")
      [] e.key = "psk" /\ e.op = "set" -> Job(e.of, "get_psk")
      [] e.key = "psk" /\ e.op = "del" -> Job(e.of, "unload_shared")

HandleEvent ==
    /\ phase = "serving" /\ job = NoJob
    /\ events # <<>>
    /\ events' = Tail(events)
    /\ job' = JobFor(Head(events))
    /\ UNCHANGED <<valkeyVars, charonVars, subscribed, phase, unscanned, faulty, breaks>>

-----------------------------------------------------------------------------
\* What breaks

\* The pubsub connection is lost: what has arrived is still handled.
Disconnect ==
    /\ subscribed /\ breaks < MaxBreaks
    /\ breaks' = breaks + 1
    /\ subscribed' = FALSE
    /\ events' \in Attempt("blind", events, <<>>)
    /\ UNCHANGED <<valkeyVars, charonVars, procVars, faulty>>

ProcessDies ==
    /\ phase # "down" /\ breaks < MaxBreaks
    /\ breaks' = breaks + 1
    /\ phase' = "down" /\ unscanned' = {} /\ job' = NoJob
    /\ subscribed' = FALSE /\ events' = <<>>

\* Charon still holds what Valkey has not any more.
Stale(s) ==
    \/ psk[s] = None /\ (shared[s] # None \/ conns[s] # None)
    \/ site[s] = None /\ conns[s] # None

\* ipsecnode exits and systemd restarts it; charon runs on.
Crash ==
    /\ (\A s \in Sites : ~Stale(s)) \/ May("blind")
    /\ ProcessDies
    /\ UNCHANGED <<valkeyVars, charonVars, faulty>>

\* Charon restarts with nothing loaded; both VICI connections break, which ends
\* event_listener_task and with it ipsecnode.
CharonRestart ==
    /\ ProcessDies
    /\ shared' = [s \in Sites |-> None]
    /\ conns' = [s \in Sites |-> None]
    /\ faulty' = FALSE
    /\ UNCHANGED <<valkeyVars, xfrm>>

-----------------------------------------------------------------------------
\* The operator

\* A write that the node learns of: from its event, or from the bulk load of the
\* next start, which replaces entries but removes none.
Learnt(s, op) ==
    \/ subscribed
    \/ phase = "down" /\ (op = "set" \/ (shared[s] = None /\ conns[s] = None))

Write(s, key, op) ==
    /\ writes < MaxWrites
    /\ Learnt(s, op) \/ May("blind")
    /\ writes' = writes + 1
    /\ IF subscribed
       THEN /\ Len(events) < MaxEvents
            /\ events' = Append(events, [key |-> key, of |-> s, op |-> op])
       ELSE UNCHANGED events
    /\ UNCHANGED <<charonVars, subscribed, procVars, faulty, breaks>>

SetPsk(s) ==
    /\ \E k \in Psks \ {psk[s]} : psk' = [psk EXCEPT ![s] = k]
    /\ Write(s, "psk", "set")
    /\ UNCHANGED site

DelPsk(s) ==
    /\ psk[s] # None
    /\ psk' = [psk EXCEPT ![s] = None]
    /\ Write(s, "psk", "del")
    /\ UNCHANGED site

SetSite(s) ==
    /\ \E r \in Recs \ {site[s]} : site' = [site EXCEPT ![s] = r]
    /\ Write(s, "site", "set")
    /\ UNCHANGED psk

DelSite(s) ==
    /\ site[s] # None
    /\ site' = [site EXCEPT ![s] = None]
    /\ Write(s, "site", "del")
    /\ UNCHANGED psk

-----------------------------------------------------------------------------

\* A host that has just booted, with any content of Valkey
Init ==
    /\ psk \in [Sites -> Psks \cup {None}]
    /\ site \in [Sites -> Recs \cup {None}]
    /\ shared = [s \in Sites |-> None] /\ conns = [s \in Sites |-> None]
    /\ xfrm = {}
    /\ phase = "down" /\ unscanned = {} /\ job = NoJob
    /\ subscribed = FALSE /\ events = <<>>
    /\ faulty = (Faults # {}) /\ writes = 0 /\ breaks = 0

TaskStep ==
    \/ \E s \in Sites : ScanNext(s)
    \/ BulkDone \/ Subscribe \/ HandleEvent \/ JobStep

Next ==
    \/ Start \/ TaskStep
    \/ Disconnect \/ Crash \/ CharonRestart
    \/ \E s \in Sites : SetPsk(s) \/ DelPsk(s) \/ SetSite(s) \/ DelSite(s)

Spec == Init /\ [][Next]_vars

\* systemd restarts ipsecnode, whose task runs whenever it has something to do;
\* nothing is assumed of the operator or of what breaks.
FairSpec == Spec /\ WF_vars(Start) /\ WF_vars(TaskStep)

-----------------------------------------------------------------------------
\* Properties

CredTypeOK ==
    /\ psk \in [Sites -> Psks \cup {None}]
    /\ site \in [Sites -> Recs \cup {None}]
    /\ shared \in [Sites -> Secrets \cup {None}]
    /\ conns \in [Sites -> Recs \cup {None}]
    /\ xfrm \subseteq Sites
    /\ phase \in {"down", "bulk", "serving"}
    /\ unscanned \subseteq Sites
    /\ subscribed \in BOOLEAN
    /\ events \in Seq(KeyEvent)
    /\ job \in Jobs
    /\ faulty \in BOOLEAN
    /\ writes \in Nat /\ breaks \in Nat

\* Charon has for s exactly what Valkey says: the key, owned by the site and the
\* identity of its record, and the connection of that record with an interface
\* to install its SAs on.
Follows(s) ==
    /\ shared[s] = IF psk[s] = None THEN None
                   ELSE [psk |-> psk[s], owners |-> Owners(s, site[s])]
    /\ conns[s] = IF psk[s] = None THEN None ELSE site[s]
    /\ conns[s] # None => s \in xfrm

\* Once every event is handled, charon has exactly what Valkey says, whatever
\* order the keys were written in and whatever was read between two of the
\* writes (credentials.rs load_one_device: reads the record after the key, and
\* is safe to call "on both initial bulk load and on pubsub update events").
SettledFollows ==
    ~faulty /\ phase = "serving" /\ subscribed /\ job = NoJob /\ events = <<>>
        => \A s \in Sites : Follows(s)

\* A connection that is loaded while the task serves can authenticate: its
\* secret is loaded, owned by the identity that the connection expects, and its
\* interface exists; except between two requests of the job that changes it and
\* while an event of its record is still queued (credentials.rs
\* load_one_device and unload_one_device, in the order of their requests).
ConnAuthenticates ==
    ~faulty /\ phase = "serving" => \A s \in Sites :
        conns[s] # None =>
            \/ job.step \in {"load_conn", "unload_conn", "drop_conn"} /\ job.of = s
            \/ \E i \in DOMAIN events : events[i].of = s /\ events[i].key = "site"
            \/ /\ s \in xfrm
               /\ shared[s] # None
               /\ shared[s].owners = Owners(s, conns[s])

\* Once the operator stops writing and nothing breaks any more, charon follows
\* Valkey for good (credentials.rs pubsub_task: "Reconnects automatically on
\* connection loss").
CharonFollowsValkey ==
    <>(~faulty) => <>[](\A s \in Sites : Follows(s))

\* A site whose key stays deleted eventually stays out (credentials.rs
\* SiteRecord: "any device not in Valkey cannot connect").
RevokedCannotConnect ==
    \A s \in Sites : <>[](psk[s] = None) => <>[](shared[s] = None /\ conns[s] = None)

=============================================================================
