-------------------------- MODULE CredentialsProofs --------------------------
(***************************************************************************)
(* Types, and that what is loaded into charon follows Valkey once charon   *)
(* has been restarted, for any number of sites, keys, records, writes and  *)
(* crashes.                                                                *)
(***************************************************************************)
EXTENDS Credentials, TLAPS

-----------------------------------------------------------------------------
\* The invariant

\* The job in progress is one of s; it is at one of the steps.
Busy(s) == job # NoJob /\ job.of = s
Doing(s, steps) == job.step \in steps /\ job.of = s

IsFor(e, s, key) == e.of = s /\ e.key = key
Queued(s, key) == \E i \in DOMAIN events : IsFor(events[i], s, key)

\* A queued event that says of the key the contrary of what Valkey says by now is
\* followed by the event of the write that changed it back.
Truthful(s) ==
    \A i \in DOMAIN events :
        /\ IsFor(events[i], s, "psk")
        /\ events[i].op = (IF psk[s] = None THEN "set" ELSE "del")
        => \E j \in DOMAIN events : j > i /\ IsFor(events[j], s, "psk")

\* What a job has read is what Valkey still says, or the event of the change is
\* queued.
JobOK(s) ==
    /\ Doing(s, {"get_site", "load_shared", "load_conn"}) =>
          job.psk # None /\ (job.psk = psk[s] \/ Queued(s, "psk"))
    /\ Doing(s, {"load_shared", "load_conn"}) => job.rec = site[s] \/ Queued(s, "site")
    /\ Doing(s, {"load_conn"}) =>
          job.rec # None /\ shared[s] = [psk |-> job.psk, owners |-> Owners(s, job.rec)]
    /\ Doing(s, {"unload_shared", "unload_conn"}) => psk[s] = None \/ Queued(s, "psk")
    /\ Doing(s, {"unload_conn"}) => shared[s] = None

\* The parts of what a running task keeps for a site that it has reached: a
\* connection has its secret, a deleted key and a changed record are followed, and
\* nothing is outstanding for a site that no job and no event is about.
Auth(s) ==
    conns[s] # None =>
        \/ Doing(s, {"load_conn", "unload_conn", "drop_conn"})
        \/ Queued(s, "site")
        \/ s \in xfrm /\ shared[s] # None /\ shared[s].owners = Owners(s, conns[s])
Gone(s) ==
    psk[s] = None =>
        \/ shared[s] = None /\ conns[s] = None
        \/ Queued(s, "psk")
        \/ Doing(s, {"unload_shared", "unload_conn"})
ConnOK(s) ==
    conns[s] \in {None, site[s]} \/ Queued(s, "site") \/ Doing(s, {"drop_conn"})
Settled(s) ==
    ~Busy(s) /\ ~Queued(s, "psk") /\ ~Queued(s, "site") => Follows(s)

Reached(s) == phase = "serving" \/ (phase = "bulk" /\ s \notin unscanned /\ ~Busy(s))

Account(s) ==
    /\ JobOK(s)
    /\ phase # "serving" => ~Stale(s)
    /\ Reached(s) => Auth(s) /\ Gone(s) /\ ConnOK(s) /\ Settled(s)

\* While the task does not serve, nobody writes behind its back and it only loads.
Away ==
    /\ phase = "down" => job = NoJob
    /\ phase = "bulk" =>
          job.step \in {"none", "get_psk", "get_site", "load_shared", "load_conn"}
    /\ phase # "serving" => events = <<>> /\ ~subscribed

CredInv ==
    /\ CredTypeOK
    /\ ~faulty => Away /\ \A s \in Sites : Truthful(s) /\ Account(s)

-----------------------------------------------------------------------------
\* Types

\* The initial values have their types.
LEMMA TypeInit == Init => CredTypeOK
  <1>. SUFFICES ASSUME Init PROVE CredTypeOK
    OBVIOUS
  <1>1. <<>> \in Seq(KeyEvent) /\ NoJob \in Jobs
    BY DEF Jobs
  <1>2. events \in Seq(KeyEvent) /\ job \in Jobs
    BY <1>1 DEF Init
  <1>3. faulty \in BOOLEAN /\ subscribed \in BOOLEAN
    BY DEF Init
  <1>4. shared \in [Sites -> Secrets \cup {None}] /\ conns \in [Sites -> Recs \cup {None}]
    BY DEF Init
  <1>5. /\ psk \in [Sites -> Psks \cup {None}] /\ site \in [Sites -> Recs \cup {None}]
        /\ xfrm = {} /\ phase = "down" /\ unscanned = {} /\ writes = 0 /\ breaks = 0
    BY DEF Init
  <1>. QED  BY <1>2, <1>3, <1>4, <1>5 DEF CredTypeOK

\* What a load puts into charon is a secret.
LEMMA OwnersTyped ==
    ASSUME NEW s \in Sites, NEW k \in Psks, NEW r \in Recs \cup {None}
    PROVE  [psk |-> k, owners |-> Owners(s, r)] \in Secrets
  <1>1. Owners(s, r) \in SUBSET (Sites \cup UNION {Identity[q] : q \in Recs})
    BY DEF Owners
  <1>. QED  BY <1>1 DEF Secrets

\* A job that has read a key holds one.
HoldsKey == job.step \in {"get_site", "load_shared", "load_conn"} => job.psk # None

\* Every step of a job keeps the types.
LEMMA JobTyped ==
    ASSUME CredTypeOK, HoldsKey, JobStep
    PROVE  CredTypeOK' /\ HoldsKey'
  <1>. USE DEF CredTypeOK, HoldsKey
  <1>. DEFINE Running == [step : Steps, of : Sites, psk : Psks \cup {None},
                          rec : Recs \cup {None}]
  <1>1. NoJob \in Jobs /\ NoJob.step = "none" /\ Running \subseteq Jobs
    BY DEF Jobs, NoJob
  <1>2. job \in Running
    BY <1>1 DEF Jobs, JobStep, get_psk, get_site_record, load_shared, load_device_conn,
                unload_shared, unload_conn, drop_conn, At
  <1>3. job.of \in Sites /\ job.psk \in Psks \cup {None} /\ job.rec \in Recs \cup {None}
    BY <1>2
  <1>4. CASE get_psk
    <2>1. psk[job.of] \in Psks \cup {None}
      BY <1>3
    <2>2. CASE psk[job.of] # None /\ job' = [job EXCEPT !.step = "get_site", !.psk = psk[job.of]]
      <3>1. job' \in Running /\ job'.psk # None
        BY <1>2, <2>1, <2>2 DEF Steps
      <3>. QED  BY <1>1, <1>4, <3>1 DEF get_psk, valkeyVars, charonVars, linkVars
    <2>3. CASE Done
      BY <1>1, <1>4, <2>3 DEF get_psk, Done, valkeyVars, charonVars, linkVars
    <2>. QED  BY <1>4, <2>2, <2>3 DEF get_psk
  <1>5. CASE get_site_record
    <2>1. PICK rec \in Attempt("valkey", site[job.of], None) :
              job' = [job EXCEPT !.step = "load_shared", !.rec = rec]
      BY <1>5 DEF get_site_record
    <2>2. rec \in Recs \cup {None}
      BY <1>3, <2>1 DEF Attempt
    <2>3. job' \in Running /\ job'.psk = job.psk
      BY <1>2, <2>1, <2>2 DEF Steps
    <2>. QED  BY <1>1, <1>5, <2>3 DEF get_site_record, At, valkeyVars, charonVars, linkVars
  <1>6. CASE load_shared
    <2>1. job.step = "load_shared" /\ job.psk \in Psks
      BY <1>3, <1>6 DEF load_shared, At
    <2>2. [psk |-> job.psk, owners |-> Owners(job.of, job.rec)] \in Secrets
      BY <1>3, <2>1, OwnersTyped
    <2>3. shared' \in [Sites -> Secrets \cup {None}]
      BY <1>6, <2>2 DEF load_shared
    <2>4. job' \in Jobs /\ HoldsKey'
      BY <1>1, <1>2, <1>6, <2>1 DEF load_shared, GoTo, Done, Steps
    <2>. QED  BY <1>6, <2>3, <2>4 DEF load_shared, valkeyVars, linkVars
  <1>7. CASE load_device_conn
    <2>1. conns' \in [Sites -> Recs \cup {None}] /\ xfrm' \subseteq Sites
      BY <1>3, <1>7 DEF load_device_conn, Attempt
    <2>. QED  BY <1>1, <1>7, <2>1 DEF load_device_conn, Done, valkeyVars, linkVars
  <1>8. CASE unload_shared
    <2>1. job' \in Jobs /\ HoldsKey'
      BY <1>1, <1>2, <1>8 DEF unload_shared, GoTo, Done, Steps
    <2>. QED  BY <1>8, <2>1 DEF unload_shared, valkeyVars, linkVars
  <1>9. CASE unload_conn
    <2>1. conns' \in [Sites -> Recs \cup {None}] /\ xfrm' \subseteq Sites
      BY <1>3, <1>9 DEF unload_conn, Attempt
    <2>. QED  BY <1>1, <1>9, <2>1 DEF unload_conn, Done, valkeyVars, linkVars
  <1>10. CASE drop_conn
    <2>1. conns' \in [Sites -> Recs \cup {None}]
      BY <1>3, <1>10 DEF drop_conn, Attempt
    <2>2. job' \in Jobs /\ HoldsKey'
      BY <1>1, <1>2, <1>10 DEF drop_conn, GoTo, Steps
    <2>. QED  BY <1>10, <2>1, <2>2 DEF drop_conn, valkeyVars, linkVars
  <1>. QED  BY <1>4, <1>5, <1>6, <1>7, <1>8, <1>9, <1>10 DEF JobStep

\* A fresh job is a job that holds no key yet.
LEMMA FreshJob ==
    ASSUME NEW s \in Sites, NEW step \in {"get_psk", "unload_shared", "drop_conn"}
    PROVE  Job(s, step) \in Jobs /\ Job(s, step).step = step /\ Job(s, step).of = s
  BY DEF Jobs, Job, Steps

\* A write keeps the types.
LEMMA WriteTyped ==
    ASSUME CredTypeOK, NEW s \in Sites, NEW key \in {"psk", "site"}, NEW op \in {"set", "del"},
           Write(s, key, op)
    PROVE  events' \in Seq(KeyEvent) /\ writes' \in Nat
  <1>1. [key |-> key, of |-> s, op |-> op] \in KeyEvent
    BY DEF KeyEvent
  <1>2. events \in Seq(KeyEvent) /\ writes \in Nat
    BY DEF CredTypeOK
  <1>3. \/ events' = Append(events, [key |-> key, of |-> s, op |-> op])
        \/ events' = events
    BY DEF Write
  <1>. QED  BY <1>1, <1>2, <1>3 DEF Write

\* Every step keeps the types.
LEMMA TypeNext ==
    ASSUME CredTypeOK, HoldsKey, [Next]_vars
    PROVE  CredTypeOK' /\ HoldsKey'
  <1>. USE DEF CredTypeOK
  <1>1. NoJob \in Jobs /\ NoJob.step = "none" /\ <<>> \in Seq(KeyEvent)
    BY DEF Jobs, NoJob
  <1>2. CASE JobStep
    BY <1>2, JobTyped
  <1>3. CASE Start
    BY <1>3 DEF Start, HoldsKey, valkeyVars, charonVars, linkVars
  <1>4. ASSUME NEW s \in Sites, ScanNext(s)
        PROVE  CredTypeOK' /\ HoldsKey'
    <2>1. job' \in {NoJob, Job(s, "get_psk")}
      BY <1>4 DEF ScanNext
    <2>2. job' \in Jobs /\ HoldsKey'
      BY <1>1, <2>1, FreshJob DEF HoldsKey
    <2>. QED  BY <1>4, <2>2 DEF ScanNext, valkeyVars, charonVars, linkVars
  <1>5. CASE BulkDone \/ Subscribe
    BY <1>5 DEF BulkDone, Subscribe, HoldsKey, valkeyVars, charonVars, linkVars, procVars
  <1>6. CASE HandleEvent
    <2>1. Head(events) \in KeyEvent /\ Tail(events) \in Seq(KeyEvent)
      BY <1>6 DEF HandleEvent
    <2>2. JobFor(Head(events)) \in
              {Job(Head(events).of, step) : step \in {"get_psk", "unload_shared", "drop_conn"}}
      BY <2>1 DEF JobFor, KeyEvent
    <2>3. Head(events).of \in Sites
      BY <2>1 DEF KeyEvent
    <2>4. job' \in Jobs /\ HoldsKey'
      BY <1>6, <2>2, <2>3, FreshJob DEF HandleEvent, HoldsKey
    <2>. QED  BY <1>6, <2>1, <2>4 DEF HandleEvent, valkeyVars, charonVars
  <1>7. CASE Disconnect
    <2>1. events' \in {events, <<>>}
      BY <1>7 DEF Disconnect, Attempt
    <2>2. events' \in Seq(KeyEvent)
      BY <1>1, <2>1
    <2>3. /\ UNCHANGED <<valkeyVars, charonVars, procVars, faulty>>
      BY <1>7 DEF Disconnect
    <2>4. subscribed' \in BOOLEAN
      BY <1>7 DEF Disconnect
    <2>5. breaks' \in Nat
      BY <1>7 DEF Disconnect
    <2>. QED  BY <2>2, <2>3, <2>4, <2>5 DEF HoldsKey, valkeyVars, charonVars, procVars
  <1>8. CASE Crash
    <2>1. events' \in Seq(KeyEvent) /\ job' \in Jobs /\ HoldsKey'
      BY <1>1, <1>8 DEF Crash, ProcessDies, HoldsKey
    <2>2. /\ UNCHANGED <<valkeyVars, charonVars, faulty>>
          /\ phase' = "down" /\ unscanned' = {}
      BY <1>8 DEF Crash, ProcessDies
    <2>3. subscribed' \in BOOLEAN
      BY <1>8 DEF Crash, ProcessDies
    <2>4. breaks' \in Nat
      BY <1>8 DEF Crash, ProcessDies
    <2>. QED  BY <2>1, <2>2, <2>3, <2>4 DEF valkeyVars, charonVars
  <1>9. CASE CharonRestart
    <2>1. events' \in Seq(KeyEvent) /\ job' \in Jobs /\ HoldsKey'
      BY <1>1, <1>9 DEF CharonRestart, ProcessDies, HoldsKey
    <2>2. /\ UNCHANGED <<valkeyVars, xfrm>>
          /\ shared' = [s \in Sites |-> None] /\ conns' = [s \in Sites |-> None]
          /\ faulty' = FALSE
          /\ phase' = "down" /\ unscanned' = {}
      BY <1>9 DEF CharonRestart, ProcessDies
    <2>3. subscribed' \in BOOLEAN
      BY <1>9 DEF CharonRestart, ProcessDies
    <2>4. breaks' \in Nat
      BY <1>9 DEF CharonRestart, ProcessDies
    <2>. QED  BY <2>1, <2>2, <2>3, <2>4 DEF valkeyVars
  <1>10. ASSUME NEW s \in Sites, SetPsk(s) \/ DelPsk(s) \/ SetSite(s) \/ DelSite(s)
         PROVE  CredTypeOK' /\ HoldsKey'
    <2>1. /\ psk' \in [Sites -> Psks \cup {None}]
          /\ site' \in [Sites -> Recs \cup {None}]
      BY <1>10 DEF SetPsk, DelPsk, SetSite, DelSite
    <2>2. PICK key \in {"psk", "site"}, op \in {"set", "del"} : Write(s, key, op)
      BY <1>10 DEF SetPsk, DelPsk, SetSite, DelSite
    <2>3. events' \in Seq(KeyEvent) /\ writes' \in Nat
      BY <2>2, WriteTyped
    <2>4. UNCHANGED <<charonVars, subscribed, procVars, faulty, breaks>>
      BY <2>2 DEF Write
    <2>. QED  BY <2>1, <2>3, <2>4 DEF HoldsKey, charonVars, procVars
  <1>11. CASE UNCHANGED vars
    BY <1>11 DEF vars, valkeyVars, charonVars, linkVars, procVars, HoldsKey
  <1>. QED
    BY <1>2, <1>3, <1>4, <1>5, <1>6, <1>7, <1>8, <1>9, <1>10, <1>11 DEF Next, TaskStep

\* Every variable keeps its type: in particular what is loaded into charon is
\* always a key of Valkey's, never an absent one (credentials.rs load_one_device).
THEOREM CredTypeCorrect == Spec => []CredTypeOK
  <1>1. Init => CredTypeOK /\ HoldsKey
    BY TypeInit DEF Init, HoldsKey, NoJob
  <1>2. CredTypeOK /\ HoldsKey /\ [Next]_vars => (CredTypeOK /\ HoldsKey)'
    BY TypeNext
  <1>. QED  BY <1>1, <1>2, PTL DEF Spec

-----------------------------------------------------------------------------
\* The queue of events

\* Taking an event leaves every other one queued.
LEMMA PopQueue ==
    ASSUME CredTypeOK, events # <<>>, events' = Tail(events), NEW s \in Sites, NEW key
    PROVE  /\ Queued(s, key) => Queued(s, key)' \/ IsFor(Head(events), s, key)
           /\ Queued(s, key)' => Queued(s, key)
  <1>1. events \in Seq(KeyEvent)
    BY DEF CredTypeOK
  <1>2. /\ Len(events) \in Nat /\ Len(events) > 0 /\ Len(Tail(events)) = Len(events) - 1
        /\ DOMAIN events = 1 .. Len(events) /\ DOMAIN Tail(events) = 1 .. Len(Tail(events))
        /\ Head(events) = events[1]
    BY <1>1
  <1>3. \A i \in 1 .. Len(events) - 1 : Tail(events)[i] = events[i + 1]
    BY <1>1
  <1>4. ASSUME Queued(s, key), ~IsFor(Head(events), s, key)
        PROVE  Queued(s, key)'
    <2>1. PICK i \in 1 .. Len(events) : IsFor(events[i], s, key)
      BY <1>2, <1>4 DEF Queued
    <2>2. i # 1
      BY <1>2, <1>4, <2>1
    <2>3. i - 1 \in 1 .. Len(events) - 1 /\ events[(i - 1) + 1] = events[i]
      BY <1>2, <2>2
    <2>4. IsFor(events'[i - 1], s, key) /\ i - 1 \in DOMAIN events'
      BY <1>2, <1>3, <2>1, <2>3
    <2>. QED  BY <2>4 DEF Queued
  <1>5. ASSUME Queued(s, key)'
        PROVE  Queued(s, key)
    <2>1. PICK i \in 1 .. Len(events) - 1 : IsFor(Tail(events)[i], s, key)
      BY <1>2, <1>5 DEF Queued
    <2>2. i + 1 \in DOMAIN events /\ IsFor(events[i + 1], s, key)
      BY <1>2, <1>3, <2>1
    <2>. QED  BY <2>2 DEF Queued
  <1>. QED  BY <1>4, <1>5

\* What is left tells the truth, and an event that did not is followed by another.
LEMMA PopTruth ==
    ASSUME CredTypeOK, events # <<>>, events' = Tail(events), psk' = psk,
           NEW s \in Sites, Truthful(s)
    PROVE  /\ Truthful(s)'
           /\ IsFor(Head(events), s, "psk") =>
                 \/ Queued(s, "psk")'
                 \/ Head(events).op = (IF psk[s] = None THEN "del" ELSE "set")
  <1>1. events \in Seq(KeyEvent)
    BY DEF CredTypeOK
  <1>2. /\ Len(events) \in Nat /\ Len(events) > 0 /\ Len(Tail(events)) = Len(events) - 1
        /\ DOMAIN events = 1 .. Len(events) /\ DOMAIN Tail(events) = 1 .. Len(Tail(events))
        /\ Head(events) = events[1]
    BY <1>1
  <1>3. \A i \in 1 .. Len(events) - 1 : Tail(events)[i] = events[i + 1]
    BY <1>1
  <1>4. Head(events).op \in {"set", "del"}
    <2>1. Head(events) \in KeyEvent
      BY <1>1
    <2>. QED  BY <2>1 DEF KeyEvent
  <1>5. ASSUME NEW i \in 1 .. Len(events) - 1,
               IsFor(events'[i], s, "psk"),
               events'[i].op = (IF psk[s] = None THEN "set" ELSE "del")
        PROVE  \E j \in DOMAIN events' : j > i /\ IsFor(events'[j], s, "psk")
    <2>1. i + 1 \in DOMAIN events /\ events'[i] = events[i + 1]
      BY <1>2, <1>3
    <2>2. PICK j \in 1 .. Len(events) : j > i + 1 /\ IsFor(events[j], s, "psk")
      BY <1>2, <1>5, <2>1 DEF Truthful
    <2>3. j - 1 \in 1 .. Len(events) - 1 /\ j - 1 > i /\ events[(j - 1) + 1] = events[j]
      BY <1>2, <2>2
    <2>. QED  BY <1>2, <1>3, <2>2, <2>3
  <1>6. Truthful(s)'
    BY <1>2, <1>5 DEF Truthful
  <1>7. ASSUME IsFor(Head(events), s, "psk"),
               Head(events).op = (IF psk[s] = None THEN "set" ELSE "del")
        PROVE  Queued(s, "psk")'
    <2>1. PICK j \in 1 .. Len(events) : j > 1 /\ IsFor(events[j], s, "psk")
      BY <1>2, <1>7 DEF Truthful
    <2>2. j - 1 \in 1 .. Len(events) - 1 /\ events[(j - 1) + 1] = events[j]
      BY <1>2, <2>1
    <2>3. j - 1 \in DOMAIN events' /\ IsFor(events'[j - 1], s, "psk")
      BY <1>2, <1>3, <2>1, <2>2
    <2>. QED  BY <2>3 DEF Queued
  <1>. QED  BY <1>4, <1>6, <1>7

\* Adding an event leaves all queued.
LEMMA PushQueue ==
    ASSUME CredTypeOK, NEW e \in KeyEvent, events' = Append(events, e),
           NEW s \in Sites, NEW key
    PROVE  Queued(s, key)' <=> Queued(s, key) \/ IsFor(e, s, key)
  <1>1. events \in Seq(KeyEvent)
    BY DEF CredTypeOK
  <1>2. /\ Len(events) \in Nat
        /\ DOMAIN events = 1 .. Len(events) /\ DOMAIN events' = 1 .. Len(events) + 1
        /\ events'[Len(events) + 1] = e
        /\ \A i \in 1 .. Len(events) : events'[i] = events[i]
    BY <1>1
  <1>3. Queued(s, key)' => Queued(s, key) \/ IsFor(e, s, key)
    BY <1>2 DEF Queued
  <1>4. Queued(s, key) => Queued(s, key)'
    BY <1>2 DEF Queued
  <1>5. IsFor(e, s, key) => Queued(s, key)'
    <2>1. Len(events) + 1 \in DOMAIN events'
      BY <1>2
    <2>. QED  BY <1>2, <2>1 DEF Queued
  <1>. QED  BY <1>3, <1>4, <1>5

\* The event of a write tells the truth, and what it changed is told by it.
LEMMA PushTruth ==
    ASSUME CredTypeOK, NEW e \in KeyEvent, events' = Append(events, e),
           NEW s \in Sites, Truthful(s),
           \/ psk'[s] = psk[s] /\ ~IsFor(e, s, "psk")
           \/ IsFor(e, s, "psk") /\ e.op = (IF psk'[s] = None THEN "del" ELSE "set")
    PROVE  Truthful(s)'
  <1>1. events \in Seq(KeyEvent)
    BY DEF CredTypeOK
  <1>2. /\ Len(events) \in Nat
        /\ DOMAIN events = 1 .. Len(events) /\ DOMAIN events' = 1 .. Len(events) + 1
        /\ events'[Len(events) + 1] = e
        /\ \A i \in 1 .. Len(events) : events'[i] = events[i]
    BY <1>1
  <1>3. CASE psk'[s] = psk[s] /\ ~IsFor(e, s, "psk")
    <2>1. ASSUME NEW i \in 1 .. Len(events) + 1,
                 IsFor(events'[i], s, "psk"),
                 events'[i].op = (IF psk'[s] = None THEN "set" ELSE "del")
          PROVE  \E j \in DOMAIN events' : j > i /\ IsFor(events'[j], s, "psk")
      <3>1. i \in 1 .. Len(events)
        BY <1>2, <1>3, <2>1
      <3>2. PICK j \in 1 .. Len(events) : j > i /\ IsFor(events[j], s, "psk")
        BY <1>2, <1>3, <2>1, <3>1 DEF Truthful
      <3>. QED  BY <1>2, <3>2
    <2>. QED  BY <1>2, <2>1 DEF Truthful
  <1>4. CASE IsFor(e, s, "psk") /\ e.op = (IF psk'[s] = None THEN "del" ELSE "set")
    <2>1. ASSUME NEW i \in 1 .. Len(events) + 1,
                 events'[i].op = (IF psk'[s] = None THEN "set" ELSE "del")
          PROVE  \E j \in DOMAIN events' : j > i /\ IsFor(events'[j], s, "psk")
      <3>1. i # Len(events) + 1
        BY <1>2, <1>4, <2>1
      <3>2. Len(events) + 1 \in DOMAIN events' /\ Len(events) + 1 > i
        BY <1>2, <3>1
      <3>. QED  BY <1>2, <1>4, <3>2
    <2>. QED  BY <1>2, <2>1 DEF Truthful
  <1>. QED  BY <1>3, <1>4

-----------------------------------------------------------------------------
\* The steps of a job

\* What a running task keeps for a site that no step is about
LEMMA Elsewhere ==
    ASSUME NEW s \in Sites, Account(s), ~Busy(s), ~Busy(s)',
           UNCHANGED <<psk[s], site[s], shared[s], conns[s], phase>>,
           s \in xfrm <=> s \in xfrm', s \in unscanned <=> s \in unscanned',
           Queued(s, "psk")' <=> Queued(s, "psk"),
           Queued(s, "site")' <=> Queued(s, "site")
    PROVE  Account(s)'
  <1>1. \A steps \in SUBSET Steps : ~Doing(s, steps) /\ ~Doing(s, steps)'
    BY DEF Doing, Busy, NoJob, Steps
  <1>2. /\ ~Doing(s, {"get_site", "load_shared", "load_conn"})'
        /\ ~Doing(s, {"load_shared", "load_conn"})'
        /\ ~Doing(s, {"load_conn"})' /\ ~Doing(s, {"unload_shared", "unload_conn"})'
        /\ ~Doing(s, {"unload_conn"})'
    BY <1>1 DEF Steps
  <1>3. /\ ~Doing(s, {"load_conn", "unload_conn", "drop_conn"}) /\ ~Doing(s, {"drop_conn"})
        /\ ~Doing(s, {"unload_shared", "unload_conn"})
    BY <1>1 DEF Steps
  <1>4. JobOK(s)'
    BY <1>2 DEF JobOK
  <1>5. Stale(s)' <=> Stale(s)
    BY DEF Stale
  <1>6. Reached(s)' <=> Reached(s)
    BY DEF Reached
  <1>7. Follows(s)' <=> Follows(s)
    BY DEF Follows
  <1>8. Auth(s) => Auth(s)'
    BY <1>3 DEF Auth
  <1>9. Gone(s) => Gone(s)'
    BY <1>3 DEF Gone
  <1>10. ConnOK(s) => ConnOK(s)'
    BY <1>3 DEF ConnOK
  <1>11. Settled(s) => Settled(s)'
    BY <1>7 DEF Settled
  <1>. QED  BY <1>4, <1>5, <1>6, <1>8, <1>9, <1>10, <1>11 DEF Account

\* No step of a job queues or takes an event.
LEMMA SameQueue ==
    ASSUME events' = events, NEW s \in Sites
    PROVE  /\ Queued(s, "psk")' <=> Queued(s, "psk")
           /\ Queued(s, "site")' <=> Queued(s, "site")
           /\ psk' = psk /\ Truthful(s) => Truthful(s)'
  BY DEF Queued, IsFor, Truthful

\* The job is about its own site only.
LEMMA OtherSite ==
    ASSUME CredTypeOK, JobStep, NEW s \in Sites, Account(s), ~(job.of = s)
    PROVE  Account(s)'
  <1>1. UNCHANGED <<psk, site, events, phase, unscanned>>
    BY DEF JobStep, get_psk, get_site_record, load_shared, load_device_conn, unload_shared,
           unload_conn, drop_conn, valkeyVars, linkVars
  <1>2. job \in Jobs /\ job.step \in Steps
    BY DEF CredTypeOK, JobStep, get_psk, get_site_record, load_shared, load_device_conn,
           unload_shared, unload_conn, drop_conn, At, Steps
  <1>3. job # NoJob /\ job.of \in Sites
    BY <1>2 DEF Jobs, NoJob, Steps
  <1>4. job' = NoJob \/ job'.of = job.of
    BY <1>2, <1>3 DEF JobStep, get_psk, get_site_record, load_shared, load_device_conn,
           unload_shared, unload_conn, drop_conn, GoTo, Done, Jobs
  <1>5. ~Busy(s) /\ ~Busy(s)'
    BY <1>4 DEF Busy
  <1>6. UNCHANGED <<shared[s], conns[s]>> /\ (s \in xfrm <=> s \in xfrm')
    BY DEF CredTypeOK, JobStep, get_psk, get_site_record, load_shared, load_device_conn,
           unload_shared, unload_conn, drop_conn, Attempt, charonVars
  <1>. QED  BY <1>1, <1>5, <1>6, SameQueue, Elsewhere

\* Nothing is queued while the task does not serve.
LEMMA NothingQueued ==
    ASSUME Away, phase # "serving", NEW s \in Sites
    PROVE  ~Queued(s, "psk") /\ ~Queued(s, "site")
  <1>1. DOMAIN events = {}
    BY DEF Away
  <1>. QED  BY <1>1 DEF Queued

\* A site that its job leaves is as it should be, if charon follows Valkey or an
\* event of what differs is queued.
LEMMA JobEnds ==
    ASSUME NEW s \in Sites, job' = NoJob, phase' # "serving" => ~Stale(s)',
           Auth(s)', Gone(s)', ConnOK(s)', Settled(s)'
    PROVE  Account(s)'
  <1>1. \A steps \in SUBSET Steps : ~Doing(s, steps)'
    BY DEF Doing, NoJob, Steps
  <1>2. /\ ~Doing(s, {"get_site", "load_shared", "load_conn"})'
        /\ ~Doing(s, {"load_shared", "load_conn"})'
        /\ ~Doing(s, {"load_conn"})' /\ ~Doing(s, {"unload_shared", "unload_conn"})'
        /\ ~Doing(s, {"unload_conn"})'
    BY <1>1 DEF Steps
  <1>. QED  BY <1>2 DEF Account, JobOK

\* The key is read: without one there is nothing to load, and nothing is loaded.
LEMMA get_pskKeeps ==
    ASSUME CredTypeOK, ~faulty, Away, NEW s \in Sites, job.of = s, Account(s), get_psk
    PROVE  Account(s)'
  <1>1. /\ job.step = "get_psk"
        /\ UNCHANGED <<psk, site, shared, conns, xfrm, events, phase, unscanned>>
    BY DEF get_psk, At, valkeyVars, charonVars, linkVars
  <1>2. /\ Queued(s, "psk")' <=> Queued(s, "psk")
        /\ Queued(s, "site")' <=> Queued(s, "site")
        /\ Follows(s)' <=> Follows(s)
        /\ Stale(s)' <=> Stale(s)
    BY <1>1, SameQueue DEF Follows, Stale
  <1>3. job \in Jobs /\ job # NoJob
    BY <1>1 DEF CredTypeOK, NoJob
  <1>4. CASE psk[s] # None /\ job' = [job EXCEPT !.step = "get_site", !.psk = psk[s]]
    <2>1. job'.step = "get_site" /\ job'.of = s /\ job'.psk = psk[s] /\ job' # NoJob
      BY <1>1, <1>3, <1>4 DEF Jobs, NoJob
    <2>2. JobOK(s)'
      BY <1>1, <1>4, <2>1 DEF JobOK, Doing
    <2>3. Reached(s)' => Reached(s)
      BY <1>1, <2>1 DEF Reached, Busy
    <2>4. Reached(s) => Auth(s)' /\ Gone(s)' /\ ConnOK(s)'
      BY <1>1, <1>2, <1>4 DEF Account, Auth, Gone, ConnOK, Doing
    <2>5. Settled(s)'
      BY <2>1 DEF Settled, Busy
    <2>. QED  BY <1>1, <1>2, <2>2, <2>3, <2>4, <2>5 DEF Account
  <1>5. CASE psk[s] = None /\ Done
    <2>1. \/ shared[s] = None /\ conns[s] = None
          \/ phase = "serving" /\ Queued(s, "psk")
      BY <1>1, <1>5 DEF Account, Stale, Reached, Gone, Doing
    <2>2. conns[s] \in {None, site[s]} \/ Queued(s, "site")
      BY <1>1, <2>1 DEF Account, Reached, ConnOK, Doing
    <2>3. conns[s] # None => \/ Queued(s, "site")
                            \/ /\ s \in xfrm /\ shared[s] # None
                               /\ shared[s].owners = Owners(s, conns[s])
      BY <1>1, <2>1 DEF Account, Reached, Auth, Doing
    <2>4. Auth(s)' /\ Gone(s)' /\ ConnOK(s)'
      BY <1>1, <1>2, <1>5, <2>1, <2>2, <2>3 DEF Auth, Gone, ConnOK
    <2>5. Settled(s)'
      BY <1>1, <1>2, <1>5, <2>1 DEF Settled, Follows
    <2>. QED  BY <1>1, <1>2, <1>5, <2>4, <2>5, JobEnds DEF Account, Done
  <1>. QED  BY <1>4, <1>5 DEF get_psk, May

\* The record is read.
LEMMA get_site_recordKeeps ==
    ASSUME CredTypeOK, ~faulty, Away, NEW s \in Sites, job.of = s, Account(s), get_site_record
    PROVE  Account(s)'
  <1>1. /\ job.step = "get_site" /\ job' = [job EXCEPT !.step = "load_shared", !.rec = site[s]]
        /\ UNCHANGED <<psk, site, shared, conns, xfrm, events, phase, unscanned>>
    BY DEF get_site_record, At, Attempt, May, valkeyVars, charonVars, linkVars
  <1>2. /\ Queued(s, "psk")' <=> Queued(s, "psk")
        /\ Queued(s, "site")' <=> Queued(s, "site")
        /\ Stale(s)' <=> Stale(s)
    BY <1>1, SameQueue DEF Stale
  <1>3. job \in Jobs /\ job # NoJob
    BY <1>1 DEF CredTypeOK, NoJob
  <1>4. /\ job'.step = "load_shared" /\ job'.of = s /\ job'.psk = job.psk
        /\ job'.rec = site[s] /\ job' # NoJob
    BY <1>1, <1>3 DEF Jobs, NoJob
  <1>5. JobOK(s)'
    BY <1>1, <1>2, <1>4 DEF Account, JobOK, Doing
  <1>6. Reached(s)' => Reached(s)
    BY <1>1, <1>4 DEF Reached, Busy
  <1>7. Reached(s) => Auth(s)' /\ Gone(s)' /\ ConnOK(s)'
    BY <1>1, <1>2 DEF Account, Auth, Gone, ConnOK, Doing
  <1>8. Settled(s)'
    BY <1>4 DEF Settled, Busy
  <1>. QED  BY <1>1, <1>2, <1>5, <1>6, <1>7, <1>8 DEF Account

\* The secret is loaded; without a record, that was all.
LEMMA load_sharedKeeps ==
    ASSUME CredTypeOK, ~faulty, Away, NEW s \in Sites, job.of = s, Account(s), load_shared
    PROVE  Account(s)'
  <1>. DEFINE secret == [psk |-> job.psk, owners |-> Owners(s, job.rec)]
  <1>1. /\ job.step = "load_shared"
        /\ shared' = [shared EXCEPT ![s] = secret]
        /\ UNCHANGED <<psk, site, conns, xfrm, events, phase, unscanned>>
    BY DEF load_shared, At, May, valkeyVars, linkVars
  <1>2. /\ Queued(s, "psk")' <=> Queued(s, "psk")
        /\ Queued(s, "site")' <=> Queued(s, "site")
    BY <1>1, SameQueue
  <1>3. job \in Jobs /\ job # NoJob
    BY <1>1 DEF CredTypeOK, NoJob
  <1>4. /\ job.psk # None /\ (job.psk = psk[s] \/ Queued(s, "psk"))
        /\ job.rec = site[s] \/ Queued(s, "site")
    BY <1>1 DEF Account, JobOK, Doing
  <1>5. job.psk \in Psks /\ job.rec \in Recs \cup {None}
    BY <1>1, <1>3, <1>4 DEF Jobs, NoJob
  <1>6. secret \in Secrets /\ secret # None
    BY <1>5, OwnersTyped, NoneIsNoSecret
  <1>7. shared'[s] = secret
    BY <1>1 DEF CredTypeOK
  <1>8. phase # "serving" => ~Stale(s)'
    <2>1. phase # "serving" => job.psk = psk[s] /\ ~Stale(s)
      BY <1>4, NothingQueued DEF Account
    <2>. QED  BY <1>1, <1>4, <2>1 DEF Stale
  <1>9. CASE job.rec = None /\ job' = NoJob
    <2>1. psk[s] # None \/ Queued(s, "psk")
      BY <1>4
    <2>2. conns[s] = None \/ Queued(s, "site")
      <3>1. CASE phase = "serving"
        BY <1>1, <1>4, <1>9, <3>1 DEF Account, Reached, ConnOK, Doing
      <3>2. CASE phase # "serving"
        BY <1>4, <1>9, <3>2, NothingQueued DEF Account, Stale
      <3>. QED  BY <3>1, <3>2
    <2>3. Auth(s)' /\ Gone(s)' /\ ConnOK(s)'
      BY <1>1, <1>2, <2>1, <2>2 DEF Auth, Gone, ConnOK
    <2>4. Settled(s)'
      <3>1. ASSUME ~Queued(s, "psk"), ~Queued(s, "site")
            PROVE  Follows(s)'
        <4>1. psk[s] = job.psk /\ psk[s] # None /\ site[s] = None /\ conns[s] = None
          BY <1>4, <1>9, <2>2, <3>1
        <4>2. shared'[s] = [psk |-> psk[s], owners |-> Owners(s, site[s])]
          BY <1>7, <1>9, <4>1
        <4>. QED  BY <1>1, <4>1, <4>2 DEF Follows
      <3>. QED  BY <1>2, <3>1 DEF Settled
    <2>. QED  BY <1>1, <1>8, <1>9, <2>3, <2>4, JobEnds
  <1>10. CASE job.rec # None /\ job' = [job EXCEPT !.step = "load_conn"]
    <2>1. /\ job'.step = "load_conn" /\ job'.of = s /\ job'.psk = job.psk
          /\ job'.rec = job.rec /\ job' # NoJob
      BY <1>1, <1>3, <1>10 DEF Jobs, NoJob
    <2>2. JobOK(s)'
      BY <1>1, <1>2, <1>4, <1>7, <1>10, <2>1 DEF JobOK, Doing
    <2>3. Reached(s)' => Reached(s) /\ phase = "serving"
      BY <1>1, <2>1 DEF Reached, Busy
    <2>4. Auth(s)' /\ (psk[s] # None \/ Queued(s, "psk"))
      BY <1>4, <2>1 DEF Auth, Doing
    <2>5. Reached(s) => Gone(s)' /\ ConnOK(s)'
      BY <1>1, <1>2, <2>4 DEF Account, Gone, ConnOK, Doing
    <2>6. Settled(s)'
      BY <2>1 DEF Settled, Busy
    <2>. QED  BY <1>1, <1>8, <2>2, <2>3, <2>4, <2>5, <2>6 DEF Account
  <1>. QED  BY <1>9, <1>10 DEF load_shared, May, GoTo, Done

\* The connection is loaded, with the interface for its SAs.
LEMMA load_device_connKeeps ==
    ASSUME CredTypeOK, ~faulty, Away, NEW s \in Sites, job.of = s, Account(s), load_device_conn
    PROVE  Account(s)'
  <1>1. /\ job.step = "load_conn" /\ job' = NoJob
        /\ xfrm' = xfrm \cup {s} /\ conns' = [conns EXCEPT ![s] = job.rec]
        /\ UNCHANGED <<psk, site, shared, events, phase, unscanned>>
    BY DEF load_device_conn, At, Attempt, May, Done, valkeyVars, linkVars
  <1>2. /\ Queued(s, "psk")' <=> Queued(s, "psk")
        /\ Queued(s, "site")' <=> Queued(s, "site")
    BY <1>1, SameQueue
  <1>3. /\ job.psk # None /\ (job.psk = psk[s] \/ Queued(s, "psk"))
        /\ job.rec # None /\ (job.rec = site[s] \/ Queued(s, "site"))
        /\ shared[s] = [psk |-> job.psk, owners |-> Owners(s, job.rec)]
    BY <1>1 DEF Account, JobOK, Doing
  <1>4. job \in Jobs /\ job # NoJob
    BY <1>1 DEF CredTypeOK, NoJob
  <1>5. job.psk \in Psks /\ job.rec \in Recs
    BY <1>1, <1>3, <1>4 DEF Jobs, NoJob
  <1>6. shared[s] # None
    BY <1>3, <1>5, OwnersTyped, NoneIsNoSecret
  <1>7. conns'[s] = job.rec
    BY <1>1 DEF CredTypeOK
  <1>8. shared[s].owners = Owners(s, job.rec)
    BY <1>3
  <1>9. phase # "serving" => ~Stale(s)'
    <2>1. phase # "serving" => psk[s] # None /\ site[s] # None
      BY <1>3, NothingQueued
    <2>. QED  BY <1>1, <2>1 DEF Stale
  <1>10. Auth(s)' /\ Gone(s)' /\ ConnOK(s)'
    BY <1>1, <1>2, <1>3, <1>6, <1>7, <1>8 DEF Auth, Gone, ConnOK
  <1>11. Settled(s)'
    <2>1. ASSUME ~Queued(s, "psk"), ~Queued(s, "site")
          PROVE  Follows(s)'
      <3>1. psk[s] = job.psk /\ psk[s] # None /\ site[s] = job.rec
        BY <1>3, <2>1
      <3>2. shared[s] = [psk |-> psk[s], owners |-> Owners(s, site[s])]
        BY <1>3, <3>1
      <3>. QED  BY <1>1, <1>7, <3>1, <3>2 DEF Follows
    <2>. QED  BY <1>2, <2>1 DEF Settled
  <1>. QED  BY <1>1, <1>9, <1>10, <1>11, JobEnds

\* The secret of a deleted key goes first.
LEMMA unload_sharedKeeps ==
    ASSUME CredTypeOK, ~faulty, Away, NEW s \in Sites, job.of = s, Account(s), unload_shared
    PROVE  Account(s)'
  <1>1. /\ job.step = "unload_shared" /\ job' = [job EXCEPT !.step = "unload_conn"]
        /\ shared' = [shared EXCEPT ![s] = None]
        /\ UNCHANGED <<psk, site, conns, xfrm, events, phase, unscanned>>
    BY DEF unload_shared, At, May, GoTo, valkeyVars, linkVars
  <1>2. /\ Queued(s, "psk")' <=> Queued(s, "psk")
        /\ Queued(s, "site")' <=> Queued(s, "site")
    BY <1>1, SameQueue
  <1>3. job \in Jobs /\ job # NoJob
    BY <1>1 DEF CredTypeOK, NoJob
  <1>4. job'.step = "unload_conn" /\ job'.of = s /\ job' # NoJob
    BY <1>1, <1>3 DEF Jobs, NoJob
  <1>5. shared'[s] = None
    BY <1>1 DEF CredTypeOK
  <1>6. phase = "serving"
    BY <1>1, <1>3 DEF Away, CredTypeOK
  <1>7. JobOK(s)'
    BY <1>1, <1>2, <1>4, <1>5 DEF Account, JobOK, Doing
  <1>8. Auth(s)' /\ Gone(s)'
    BY <1>4 DEF Auth, Gone, Doing
  <1>9. ConnOK(s)'
    BY <1>1, <1>2, <1>6 DEF Account, Reached, ConnOK, Doing
  <1>10. Settled(s)'
    BY <1>4 DEF Settled, Busy
  <1>. QED  BY <1>1, <1>6, <1>7, <1>8, <1>9, <1>10 DEF Account

\* The connection of a deleted key follows.
LEMMA unload_connKeeps ==
    ASSUME CredTypeOK, ~faulty, Away, NEW s \in Sites, job.of = s, Account(s), unload_conn
    PROVE  Account(s)'
  <1>1. /\ job.step = "unload_conn" /\ job' = NoJob
        /\ conns' = [conns EXCEPT ![s] = None]
        /\ UNCHANGED <<psk, site, shared, events, phase, unscanned>>
    BY DEF unload_conn, At, Attempt, May, Done, valkeyVars, linkVars
  <1>2. /\ Queued(s, "psk")' <=> Queued(s, "psk")
        /\ Queued(s, "site")' <=> Queued(s, "site")
    BY <1>1, SameQueue
  <1>3. shared[s] = None /\ (psk[s] = None \/ Queued(s, "psk"))
    BY <1>1 DEF Account, JobOK, Doing
  <1>4. conns'[s] = None
    BY <1>1 DEF CredTypeOK
  <1>5. Auth(s)' /\ Gone(s)' /\ ConnOK(s)' /\ ~Stale(s)'
    BY <1>1, <1>3, <1>4 DEF Auth, Gone, ConnOK, Stale
  <1>6. Settled(s)'
    BY <1>1, <1>2, <1>3, <1>4 DEF Settled, Follows
  <1>. QED  BY <1>1, <1>5, <1>6, JobEnds

\* The connection of a changed record is dropped before it is loaded again.
LEMMA drop_connKeeps ==
    ASSUME CredTypeOK, ~faulty, Away, NEW s \in Sites, job.of = s, Account(s), drop_conn
    PROVE  Account(s)'
  <1>1. /\ job.step = "drop_conn" /\ job' = [job EXCEPT !.step = "get_psk"]
        /\ conns' = [conns EXCEPT ![s] = None]
        /\ UNCHANGED <<psk, site, shared, xfrm, events, phase, unscanned>>
    BY DEF drop_conn, At, Attempt, May, GoTo, valkeyVars, linkVars
  <1>2. /\ Queued(s, "psk")' <=> Queued(s, "psk")
        /\ Queued(s, "site")' <=> Queued(s, "site")
    BY <1>1, SameQueue
  <1>3. job \in Jobs /\ job # NoJob
    BY <1>1 DEF CredTypeOK, NoJob
  <1>4. job'.step = "get_psk" /\ job'.of = s /\ job' # NoJob
    BY <1>1, <1>3 DEF Jobs, NoJob
  <1>5. conns'[s] = None
    BY <1>1 DEF CredTypeOK
  <1>6. phase = "serving"
    BY <1>1, <1>3 DEF Away, CredTypeOK
  <1>7. JobOK(s)'
    BY <1>4 DEF JobOK, Doing
  <1>8. Auth(s)' /\ ConnOK(s)'
    BY <1>5 DEF Auth, ConnOK
  <1>9. Gone(s)'
    BY <1>1, <1>2, <1>5, <1>6 DEF Account, Reached, Gone, Doing
  <1>10. Settled(s)'
    BY <1>4 DEF Settled, Busy
  <1>. QED  BY <1>1, <1>6, <1>7, <1>8, <1>9, <1>10 DEF Account

\* A step of the job keeps every site's account.
LEMMA JobKeeps ==
    ASSUME CredTypeOK, ~faulty, Away, NEW s \in Sites, Truthful(s), Account(s), JobStep
    PROVE  Truthful(s)' /\ Account(s)'
  <1>1. events' = events /\ psk' = psk
    BY DEF JobStep, get_psk, get_site_record, load_shared, load_device_conn, unload_shared,
           unload_conn, drop_conn, valkeyVars, linkVars
  <1>2. Truthful(s)'
    BY <1>1, SameQueue
  <1>3. CASE job.of = s
    <2>1. CASE get_psk
      BY <1>2, <1>3, <2>1, get_pskKeeps
    <2>2. CASE get_site_record
      BY <1>2, <1>3, <2>2, get_site_recordKeeps
    <2>3. CASE load_shared
      BY <1>2, <1>3, <2>3, load_sharedKeeps
    <2>4. CASE load_device_conn
      BY <1>2, <1>3, <2>4, load_device_connKeeps
    <2>5. CASE unload_shared
      BY <1>2, <1>3, <2>5, unload_sharedKeeps
    <2>6. CASE unload_conn
      BY <1>2, <1>3, <2>6, unload_connKeeps
    <2>7. CASE drop_conn
      BY <1>2, <1>3, <2>7, drop_connKeeps
    <2>. QED  BY <2>1, <2>2, <2>3, <2>4, <2>5, <2>6, <2>7 DEF JobStep
  <1>. QED  BY <1>2, <1>3, OtherSite

-----------------------------------------------------------------------------
\* The other steps

\* A fresh job leaves what was loaded as it is.
LEMMA JobBegins ==
    ASSUME NEW s \in Sites, Account(s), job = NoJob,
           NEW step \in {"get_psk", "unload_shared", "drop_conn"}, job' = Job(s, step),
           UNCHANGED <<psk, site, shared, conns, xfrm>>,
           step = "unload_shared" => psk[s] = None \/ Queued(s, "psk")',
           phase' # "serving" => ~Stale(s)',
           Reached(s)' => Reached(s),
           Queued(s, "psk") => Queued(s, "psk")' \/ step = "unload_shared" \/ psk[s] # None,
           Queued(s, "site") => Queued(s, "site")' \/ step = "drop_conn"
    PROVE  Account(s)'
  <1>1. job'.step = step /\ job'.of = s /\ job' # NoJob
    BY DEF Job, NoJob
  <1>2. \A steps : ~Doing(s, steps) \/ "none" \in steps
    BY DEF Doing, NoJob
  <1>3. ~Doing(s, {"load_conn", "unload_conn", "drop_conn"}) /\ ~Doing(s, {"drop_conn"})
        /\ ~Doing(s, {"unload_shared", "unload_conn"})
    BY <1>2
  <1>4. JobOK(s)'
    BY <1>1 DEF JobOK, Doing
  <1>5. Auth(s) => Auth(s)'
    BY <1>1, <1>3 DEF Auth, Doing
  <1>6. Gone(s) => Gone(s)'
    BY <1>1, <1>3 DEF Gone, Doing
  <1>7. ConnOK(s) => ConnOK(s)'
    BY <1>1, <1>3 DEF ConnOK, Doing
  <1>8. Settled(s)'
    BY <1>1 DEF Settled, Busy
  <1>. QED  BY <1>4, <1>5, <1>6, <1>7, <1>8 DEF Account

\* bulk_load reaches a site: without a key, nothing of it is loaded.
LEMMA ScanKeeps ==
    ASSUME CredTypeOK, Away, NEW s \in Sites, Account(s), NEW t \in Sites, ScanNext(t)
    PROVE  Account(s)'
  <1>1. /\ phase = "bulk" /\ job = NoJob /\ t \in unscanned
        /\ unscanned' = unscanned \ {t}
        /\ job' = IF psk[t] = None THEN NoJob ELSE Job(t, "get_psk")
        /\ UNCHANGED <<psk, site, shared, conns, xfrm, events, phase>>
    BY DEF ScanNext, valkeyVars, charonVars, linkVars
  <1>2. /\ Queued(s, "psk")' <=> Queued(s, "psk")
        /\ Queued(s, "site")' <=> Queued(s, "site")
        /\ Stale(s)' <=> Stale(s)
    BY <1>1, SameQueue DEF Stale
  <1>3. ~Queued(s, "psk") /\ ~Queued(s, "site") /\ ~Stale(s)
    BY <1>1, NothingQueued DEF Account
  <1>4. CASE s # t
    <2>1. ~Busy(s) /\ ~Busy(s)'
      BY <1>1, <1>4 DEF Busy, Job
    <2>. QED  BY <1>1, <1>2, <1>4, <2>1, Elsewhere
  <1>5. CASE s = t /\ psk[s] = None
    <2>1. shared[s] = None /\ conns[s] = None
      BY <1>3, <1>5 DEF Stale
    <2>2. Auth(s)' /\ Gone(s)' /\ ConnOK(s)' /\ Settled(s)'
      BY <1>1, <1>5, <2>1 DEF Auth, Gone, ConnOK, Settled, Follows
    <2>. QED  BY <1>1, <1>2, <1>3, <1>5, <2>2, JobEnds
  <1>6. CASE s = t /\ psk[s] # None
    <2>1. job' = Job(s, "get_psk")
      BY <1>1, <1>6
    <2>2. ~Reached(s)'
      BY <1>1, <2>1 DEF Reached, Busy, Job, NoJob
    <2>. QED  BY <1>1, <1>2, <1>3, <1>6, <2>1, <2>2, JobBegins
  <1>. QED  BY <1>4, <1>5, <1>6

\* An event is taken: what it no longer announces, its job will look at.
LEMMA HandleEventKeeps ==
    ASSUME CredTypeOK, Away, NEW s \in Sites, Truthful(s), Account(s), HandleEvent
    PROVE  Truthful(s)' /\ Account(s)'
  <1>. DEFINE e == Head(events)
  <1>1. /\ phase = "serving" /\ job = NoJob /\ events # <<>>
        /\ events' = Tail(events) /\ job' = JobFor(e)
        /\ UNCHANGED <<psk, site, shared, conns, xfrm, phase, unscanned>>
    BY DEF HandleEvent, valkeyVars, charonVars
  <1>2. e \in KeyEvent
    BY <1>1 DEF CredTypeOK
  <1>3. e.of \in Sites /\ e.key \in {"psk", "site"} /\ e.op \in {"set", "del"}
    BY <1>2 DEF KeyEvent
  <1>4. /\ Truthful(s)'
        /\ IsFor(e, s, "psk") =>
              \/ Queued(s, "psk")'
              \/ e.op = (IF psk[s] = None THEN "del" ELSE "set")
    BY <1>1, PopTruth
  <1>5. /\ Queued(s, "psk") => Queued(s, "psk")' \/ IsFor(e, s, "psk")
        /\ Queued(s, "site") => Queued(s, "site")' \/ IsFor(e, s, "site")
        /\ Queued(s, "psk")' => Queued(s, "psk")
        /\ Queued(s, "site")' => Queued(s, "site")
    BY <1>1, PopQueue
  <1>. HIDE DEF e
  <1>6. CASE e.of # s
    <2>1. ~IsFor(e, s, "psk") /\ ~IsFor(e, s, "site")
      BY <1>6 DEF IsFor
    <2>2. ~Busy(s) /\ ~Busy(s)'
      BY <1>1, <1>3, <1>6 DEF Busy, JobFor, Job
    <2>. QED  BY <1>1, <1>4, <1>5, <2>1, <2>2, Elsewhere
  <1>7. CASE e.of = s /\ e.key = "site"
    <2>1. job' = Job(s, "drop_conn") /\ ~IsFor(e, s, "psk")
      BY <1>1, <1>7 DEF JobFor, IsFor
    <2>2. Reached(s)
      BY <1>1 DEF Reached
    <2>. QED  BY <1>1, <1>4, <1>5, <2>1, <2>2, JobBegins
  <1>8. CASE e.of = s /\ e.key = "psk" /\ e.op = "set"
    <2>1. job' = Job(s, "get_psk") /\ IsFor(e, s, "psk") /\ ~IsFor(e, s, "site")
      BY <1>1, <1>8 DEF JobFor, IsFor
    <2>2. Queued(s, "psk")' \/ psk[s] # None
      BY <1>4, <1>8, <2>1
    <2>3. Reached(s)
      BY <1>1 DEF Reached
    <2>. QED  BY <1>1, <1>4, <1>5, <2>1, <2>2, <2>3, JobBegins
  <1>9. CASE e.of = s /\ e.key = "psk" /\ e.op = "del"
    <2>1. job' = Job(s, "unload_shared") /\ IsFor(e, s, "psk") /\ ~IsFor(e, s, "site")
      BY <1>1, <1>9 DEF JobFor, IsFor
    <2>2. Queued(s, "psk")' \/ psk[s] = None
      BY <1>4, <1>9, <2>1
    <2>3. Reached(s)
      BY <1>1 DEF Reached
    <2>. QED  BY <1>1, <1>4, <1>5, <2>1, <2>2, <2>3, JobBegins
  <1>. QED  BY <1>3, <1>6, <1>7, <1>8, <1>9

\* A write that the task hears of queues an event that tells the truth.
LEMMA HeardWrite ==
    ASSUME CredTypeOK, NEW s \in Sites, Truthful(s), Account(s), phase = "serving",
           NEW e \in KeyEvent, events' = Append(events, e),
           UNCHANGED <<charonVars, procVars>>,
           psk'[s] = psk[s] \/ IsFor(e, s, "psk"),
           site'[s] = site[s] \/ IsFor(e, s, "site"),
           IsFor(e, s, "psk") => e.op = (IF psk'[s] = None THEN "del" ELSE "set")
    PROVE  Truthful(s)' /\ Account(s)'
  <1>1. /\ Queued(s, "psk")' <=> Queued(s, "psk") \/ IsFor(e, s, "psk")
        /\ Queued(s, "site")' <=> Queued(s, "site") \/ IsFor(e, s, "site")
    BY PushQueue
  <1>2. Truthful(s)'
    BY PushTruth
  <1>3. UNCHANGED <<shared, conns, xfrm, job, phase, unscanned>>
    BY DEF charonVars, procVars
  <1>4. Reached(s) /\ phase' = "serving"
    BY <1>3 DEF Reached
  <1>5. JobOK(s)'
    BY <1>1, <1>3 DEF Account, JobOK, Doing
  <1>6. Auth(s)'
    BY <1>1, <1>3, <1>4 DEF Account, Auth, Doing
  <1>7. Gone(s)'
    BY <1>1, <1>3, <1>4 DEF Account, Gone, Doing
  <1>8. ConnOK(s)'
    BY <1>1, <1>3, <1>4 DEF Account, ConnOK, Doing
  <1>9. Settled(s)'
    BY <1>1, <1>3, <1>4 DEF Account, Settled, Follows, Busy
  <1>. QED  BY <1>2, <1>4, <1>5, <1>6, <1>7, <1>8, <1>9 DEF Account

\* A write while the task is down is of a site that the next start loads.
LEMMA UnheardWrite ==
    ASSUME Away, NEW s \in Sites, Account(s), phase = "down", events' = events,
           UNCHANGED <<charonVars, procVars>>, ~Stale(s)'
    PROVE  Truthful(s)' /\ Account(s)'
  <1>1. events' = <<>> /\ job' = NoJob /\ phase' = "down"
    BY DEF Away, procVars
  <1>2. DOMAIN events' = {}
    BY <1>1
  <1>3. Truthful(s)'
    BY <1>2 DEF Truthful
  <1>4. \A steps : ~Doing(s, steps)' \/ "none" \in steps
    BY <1>1 DEF Doing, NoJob
  <1>5. /\ ~Doing(s, {"get_site", "load_shared", "load_conn"})'
        /\ ~Doing(s, {"load_shared", "load_conn"})'
        /\ ~Doing(s, {"load_conn"})' /\ ~Doing(s, {"unload_shared", "unload_conn"})'
        /\ ~Doing(s, {"unload_conn"})'
    BY <1>4
  <1>6. JobOK(s)' /\ ~Reached(s)'
    BY <1>1, <1>5 DEF JobOK, Reached
  <1>. QED  BY <1>3, <1>6 DEF Account

\* Every write keeps every site's account.
LEMMA WriteKeeps ==
    ASSUME CredTypeOK, ~faulty, Away, NEW s \in Sites, Truthful(s), Account(s),
           NEW t \in Sites, SetPsk(t) \/ DelPsk(t) \/ SetSite(t) \/ DelSite(t)
    PROVE  Truthful(s)' /\ Account(s)' /\ Away'
  <1>1. PICK key \in {"psk", "site"}, op \in {"set", "del"} :
            /\ Write(t, key, op)
            /\ key = "psk" => /\ site' = site /\ \A q \in Sites \ {t} : psk'[q] = psk[q]
                              /\ op = (IF psk'[t] = None THEN "del" ELSE "set")
            /\ key = "site" => /\ psk' = psk /\ \A q \in Sites \ {t} : site'[q] = site[q]
                               /\ op = (IF site'[t] = None THEN "del" ELSE "set")
    <2>1. CASE SetPsk(t)
      <3>1. /\ Write(t, "psk", "set") /\ site' = site
            /\ \A q \in Sites \ {t} : psk'[q] = psk[q]
            /\ psk'[t] # None
        BY <2>1, CredAssumption DEF SetPsk, CredTypeOK
      <3>. QED  BY <3>1
    <2>2. CASE DelPsk(t)
      <3>1. /\ Write(t, "psk", "del") /\ site' = site
            /\ \A q \in Sites \ {t} : psk'[q] = psk[q]
            /\ psk'[t] = None
        BY <2>2 DEF DelPsk, CredTypeOK
      <3>. QED  BY <3>1
    <2>3. CASE SetSite(t)
      <3>1. /\ Write(t, "site", "set") /\ psk' = psk
            /\ \A q \in Sites \ {t} : site'[q] = site[q]
            /\ site'[t] # None
        BY <2>3, CredAssumption DEF SetSite, CredTypeOK
      <3>. QED  BY <3>1
    <2>4. CASE DelSite(t)
      <3>1. /\ Write(t, "site", "del") /\ psk' = psk
            /\ \A q \in Sites \ {t} : site'[q] = site[q]
            /\ site'[t] = None
        BY <2>4 DEF DelSite, CredTypeOK
      <3>. QED  BY <3>1
    <2>. QED  BY <2>1, <2>2, <2>3, <2>4
  <1>. DEFINE e == [key |-> key, of |-> t, op |-> op]
  <1>2. /\ e \in KeyEvent
        /\ IsFor(e, s, "psk") <=> s = t /\ key = "psk"
        /\ IsFor(e, s, "site") <=> s = t /\ key = "site"
        /\ e.op = op
    BY DEF KeyEvent, IsFor
  <1>3. /\ Learnt(t, op) /\ UNCHANGED <<charonVars, subscribed, procVars, faulty, breaks>>
        /\ subscribed => events' = Append(events, e)
        /\ ~subscribed => events' = events
    BY <1>1 DEF Write, May
  <1>. HIDE DEF e
  <1>4. CASE subscribed
    <2>1. phase = "serving"
      BY <1>4 DEF Away, CredTypeOK
    <2>2. Away'
      BY <1>3, <2>1 DEF Away, procVars
    <2>3. /\ psk'[s] = psk[s] \/ IsFor(e, s, "psk")
          /\ site'[s] = site[s] \/ IsFor(e, s, "site")
          /\ IsFor(e, s, "psk") => e.op = (IF psk'[s] = None THEN "del" ELSE "set")
      BY <1>1, <1>2
    <2>. QED  BY <1>2, <1>3, <1>4, <2>1, <2>2, <2>3, HeardWrite
  <1>5. CASE ~subscribed
    <2>1. phase = "down" /\ (op = "set" \/ (shared[t] = None /\ conns[t] = None))
      BY <1>3, <1>5 DEF Learnt
    <2>2. ~Stale(s)
      BY <2>1 DEF Account
    <2>3. UNCHANGED <<shared, conns>>
      BY <1>3 DEF charonVars
    <2>4. ~Stale(s)'
      BY <1>1, <2>1, <2>2, <2>3 DEF Stale
    <2>5. Away'
      BY <1>3, <1>5, <2>1 DEF Away, procVars
    <2>. QED  BY <1>3, <1>5, <2>1, <2>4, <2>5, UnheardWrite
  <1>. QED  BY <1>4, <1>5

\* A process that is down knows nothing of what charon has loaded.
LEMMA DeadKeeps ==
    ASSUME NEW s \in Sites, phase' = "down", job' = NoJob, events' = <<>>, ~Stale(s)'
    PROVE  Truthful(s)' /\ Account(s)'
  <1>1. DOMAIN events' = {}
    OBVIOUS
  <1>2. Truthful(s)'
    BY <1>1 DEF Truthful
  <1>3. \A steps : ~Doing(s, steps)' \/ "none" \in steps
    BY DEF Doing, NoJob
  <1>4. /\ ~Doing(s, {"get_site", "load_shared", "load_conn"})'
        /\ ~Doing(s, {"load_shared", "load_conn"})'
        /\ ~Doing(s, {"load_conn"})' /\ ~Doing(s, {"unload_shared", "unload_conn"})'
        /\ ~Doing(s, {"unload_conn"})'
    BY <1>3
  <1>5. JobOK(s)' /\ ~Reached(s)'
    BY <1>4 DEF JobOK, Reached
  <1>. QED  BY <1>2, <1>5 DEF Account

\* A start begins to scan, and no site is reached yet.
LEMMA StartKeeps ==
    ASSUME Away, NEW s \in Sites, Truthful(s), Account(s), Start
    PROVE  Truthful(s)' /\ Account(s)'
  <1>1. /\ phase = "down" /\ phase' = "bulk" /\ unscanned' = Sites
        /\ UNCHANGED <<psk, site, shared, conns, events, job>>
    BY DEF Start, valkeyVars, charonVars, linkVars
  <1>2. Truthful(s)'
    BY <1>1, SameQueue
  <1>3. job' = NoJob /\ ~Reached(s)'
    BY <1>1 DEF Away, Reached
  <1>4. \A steps : ~Doing(s, steps)' \/ "none" \in steps
    BY <1>3 DEF Doing, NoJob
  <1>5. /\ ~Doing(s, {"get_site", "load_shared", "load_conn"})'
        /\ ~Doing(s, {"load_shared", "load_conn"})'
        /\ ~Doing(s, {"load_conn"})' /\ ~Doing(s, {"unload_shared", "unload_conn"})'
        /\ ~Doing(s, {"unload_conn"})'
    BY <1>4
  <1>6. JobOK(s)'
    BY <1>5 DEF JobOK
  <1>7. ~Stale(s)'
    BY <1>1 DEF Account, Stale
  <1>. QED  BY <1>2, <1>3, <1>6, <1>7 DEF Account

\* Reaching the last site, subscribing and losing the subscription change no account.
LEMMA QuietKeeps ==
    ASSUME NEW s \in Sites, Truthful(s), Account(s), UNCHANGED <<valkeyVars, charonVars, events, job>>,
           \/ UNCHANGED <<phase, unscanned>>
           \/ job = NoJob /\ phase = "bulk" /\ unscanned = {} /\ phase' = "serving"
    PROVE  Truthful(s)' /\ Account(s)'
  <1>1. UNCHANGED <<psk, site, shared, conns, xfrm>>
    BY DEF valkeyVars, charonVars
  <1>2. Truthful(s)' /\ (Queued(s, "psk")' <=> Queued(s, "psk"))
        /\ (Queued(s, "site")' <=> Queued(s, "site"))
    BY <1>1, SameQueue
  <1>3. /\ JobOK(s)' <=> JobOK(s)
        /\ Auth(s)' <=> Auth(s)
        /\ Gone(s)' <=> Gone(s)
        /\ ConnOK(s)' <=> ConnOK(s)
        /\ Settled(s)' <=> Settled(s)
        /\ Stale(s)' <=> Stale(s)
    BY <1>1, <1>2 DEF JobOK, Auth, Gone, ConnOK, Settled, Stale, Follows, Busy, Doing
  <1>4. Reached(s)' => Reached(s)
    BY DEF Reached, Busy
  <1>5. phase' # "serving" => phase # "serving"
    OBVIOUS
  <1>. QED  BY <1>2, <1>3, <1>4, <1>5 DEF Account

\* Every step keeps every site's account, once charon has been restarted.
LEMMA CredNext ==
    ASSUME CredInv, CredTypeOK', [Next]_vars
    PROVE  CredInv'
  <1>. SUFFICES ASSUME faulty' = FALSE
                PROVE  Away' /\ \A s \in Sites : Truthful(s)' /\ Account(s)'
    BY DEF CredInv, CredTypeOK
  <1>1. CredTypeOK
    BY DEF CredInv
  <1>2. CASE CharonRestart
    <2>1. /\ phase' = "down" /\ job' = NoJob /\ events' = <<>> /\ subscribed' = FALSE
          /\ shared' = [s \in Sites |-> None] /\ conns' = [s \in Sites |-> None]
      BY <1>2 DEF CharonRestart, ProcessDies
    <2>2. \A s \in Sites : ~Stale(s)'
      BY <2>1 DEF Stale
    <2>. QED  BY <2>1, <2>2, DeadKeeps DEF Away
  <1>3. CASE ~CharonRestart
    <2>1. faulty' = faulty
      BY <1>3 DEF Next, Start, TaskStep, ScanNext, BulkDone, Subscribe, HandleEvent, JobStep,
             get_psk, get_site_record, load_shared, load_device_conn, unload_shared, unload_conn,
             drop_conn, Disconnect, Crash, SetPsk, DelPsk, SetSite, DelSite, Write, vars
    <2>2. ~faulty
      BY <2>1
    <2>3. Away /\ \A s \in Sites : Truthful(s) /\ Account(s)
      BY <2>2 DEF CredInv
    <2>4. CASE Start
      <3>1. Away'
        BY <2>3, <2>4 DEF Start, Away, linkVars, NoJob
      <3>. QED  BY <2>3, <2>4, <3>1, StartKeeps
    <2>5. ASSUME NEW t \in Sites, ScanNext(t)
          PROVE  Away' /\ \A s \in Sites : Truthful(s)' /\ Account(s)'
      <3>1. Away'
        BY <2>3, <2>5 DEF ScanNext, Away, linkVars, Job, NoJob
      <3>2. events' = events /\ psk' = psk
        BY <2>5 DEF ScanNext, linkVars, valkeyVars
      <3>. QED  BY <1>1, <2>3, <2>5, <3>1, <3>2, ScanKeeps, SameQueue
    <2>6. CASE BulkDone
      <3>1. Away'
        BY <2>3, <2>6 DEF BulkDone, Away
      <3>. QED  BY <2>3, <2>6, <3>1, QuietKeeps DEF BulkDone, linkVars
    <2>7. CASE Subscribe
      <3>1. Away'
        BY <2>3, <2>7 DEF Subscribe, Away, procVars
      <3>. QED  BY <2>3, <2>7, <3>1, QuietKeeps DEF Subscribe, procVars
    <2>8. CASE HandleEvent
      <3>1. Away'
        BY <2>3, <2>8 DEF HandleEvent, Away
      <3>. QED  BY <1>1, <2>3, <2>8, <3>1, HandleEventKeeps
    <2>9. CASE JobStep
      <3>1. Away'
        <4>1. UNCHANGED <<phase, events, subscribed>>
          BY <2>9 DEF JobStep, get_psk, get_site_record, load_shared, load_device_conn,
                 unload_shared, unload_conn, drop_conn, linkVars
        <4>2. phase = "down" => job.step = "none"
          BY <2>3 DEF Away, NoJob
        <4>3. phase # "down"
          BY <2>9, <4>2 DEF JobStep, get_psk, get_site_record, load_shared, load_device_conn,
                 unload_shared, unload_conn, drop_conn, At
        <4>4. phase = "bulk" => job'.step \in {"none", "get_site", "load_shared", "load_conn"}
          <5>1. SUFFICES ASSUME phase = "bulk"
                         PROVE  job'.step \in {"none", "get_site", "load_shared", "load_conn"}
            OBVIOUS
          <5>2. job.step \in {"none", "get_psk", "get_site", "load_shared", "load_conn"}
            BY <2>3, <5>1 DEF Away
          <5>3. get_psk \/ get_site_record \/ load_shared \/ load_device_conn
            BY <2>9, <5>2 DEF JobStep, unload_shared, unload_conn, drop_conn, At
          <5>4. job.step # "none" /\ job \in Jobs
            BY <1>1, <5>3 DEF CredTypeOK, get_psk, get_site_record, load_shared,
                   load_device_conn, At
          <5>5. job \in [step : Steps, of : Sites, psk : Psks \cup {None},
                         rec : Recs \cup {None}]
            BY <5>4 DEF Jobs, NoJob
          <5>6. \/ job' = NoJob
                \/ job' = [job EXCEPT !.step = "get_site", !.psk = psk[job.of]]
                \/ \E r : job' = [job EXCEPT !.step = "load_shared", !.rec = r]
                \/ job' = [job EXCEPT !.step = "load_conn"]
            BY <5>3 DEF get_psk, get_site_record, load_shared, load_device_conn, GoTo, Done
          <5>7. CASE job' = NoJob
            BY <5>7 DEF NoJob
          <5>8. CASE job' = [job EXCEPT !.step = "get_site", !.psk = psk[job.of]]
            BY <5>5, <5>8
          <5>9. CASE \E r : job' = [job EXCEPT !.step = "load_shared", !.rec = r]
            BY <5>5, <5>9
          <5>10. CASE job' = [job EXCEPT !.step = "load_conn"]
            BY <5>5, <5>10
          <5>. QED  BY <5>6, <5>7, <5>8, <5>9, <5>10
        <4>. QED  BY <2>3, <4>1, <4>3, <4>4 DEF Away
      <3>. QED  BY <1>1, <2>2, <2>3, <2>9, <3>1, JobKeeps
    <2>10. CASE Disconnect
      <3>1. events' = events
        BY <2>2, <2>10 DEF Disconnect, Attempt, May
      <3>2. Away'
        BY <2>3, <2>10, <3>1 DEF Disconnect, Away, procVars
      <3>. QED  BY <2>3, <2>10, <3>1, <3>2, QuietKeeps DEF Disconnect, procVars
    <2>11. CASE Crash
      <3>1. /\ phase' = "down" /\ job' = NoJob /\ events' = <<>> /\ subscribed' = FALSE
            /\ UNCHANGED <<psk, site, shared, conns>>
        BY <2>11 DEF Crash, ProcessDies, valkeyVars, charonVars
      <3>2. \A s \in Sites : ~Stale(s)
        BY <2>2, <2>11 DEF Crash, May
      <3>3. \A s \in Sites : ~Stale(s)'
        BY <3>1, <3>2 DEF Stale
      <3>. QED  BY <3>1, <3>3, DeadKeeps DEF Away
    <2>12. ASSUME NEW t \in Sites, SetPsk(t) \/ DelPsk(t) \/ SetSite(t) \/ DelSite(t)
           PROVE  Away' /\ \A s \in Sites : Truthful(s)' /\ Account(s)'
      <3>1. \A s \in Sites : Truthful(s)' /\ Account(s)' /\ Away'
        BY <1>1, <2>2, <2>3, <2>12, WriteKeeps
      <3>. QED  BY <2>12, <3>1
    <2>13. CASE UNCHANGED vars
      <3>1. Away'
        BY <2>3, <2>13 DEF vars, linkVars, procVars, Away
      <3>. QED  BY <2>3, <2>13, <3>1, QuietKeeps DEF vars, linkVars, procVars
    <2>. QED
      BY <1>3, <2>4, <2>5, <2>6, <2>7, <2>8, <2>9, <2>10, <2>11, <2>12, <2>13 DEF Next, TaskStep
  <1>. QED  BY <1>2, <1>3

\* At boot nothing is loaded.
LEMMA CredStart == Init => CredInv
  <1>. SUFFICES ASSUME Init PROVE CredInv
    OBVIOUS
  <1>1. /\ phase = "down" /\ job = NoJob /\ events = <<>> /\ subscribed = FALSE
        /\ shared = [s \in Sites |-> None] /\ conns = [s \in Sites |-> None]
    BY DEF Init
  <1>2. DOMAIN events = {}
    BY <1>1
  <1>3. ASSUME NEW s \in Sites
        PROVE  Truthful(s) /\ Account(s)
    <2>1. ~Stale(s) /\ ~Reached(s)
      BY <1>1 DEF Stale, Reached
    <2>2. JobOK(s)
      BY <1>1 DEF JobOK, Doing, NoJob
    <2>. QED  BY <1>2, <2>1, <2>2 DEF Truthful, Account
  <1>. QED  BY <1>1, <1>3, TypeInit DEF CredInv, Away

\* The invariant says what the two properties say.
LEMMA CredMeans == CredInv => SettledFollows /\ ConnAuthenticates
  <1>. SUFFICES ASSUME CredInv, faulty = FALSE, phase = "serving"
                PROVE  SettledFollows /\ ConnAuthenticates
    BY DEF SettledFollows, ConnAuthenticates, CredInv, CredTypeOK
  <1>1. \A s \in Sites : Auth(s) /\ Settled(s)
    BY DEF CredInv, Account, Reached
  <1>2. SettledFollows
    <2>1. ASSUME job = NoJob, events = <<>>, NEW s \in Sites
          PROVE  Follows(s)
      <3>1. DOMAIN events = {}
        BY <2>1
      <3>2. ~Busy(s) /\ ~Queued(s, "psk") /\ ~Queued(s, "site")
        BY <2>1, <3>1 DEF Busy, Queued
      <3>. QED  BY <1>1, <3>2 DEF Settled
    <2>. QED  BY <2>1 DEF SettledFollows
  <1>3. ConnAuthenticates
    BY <1>1 DEF Auth, Doing, Queued, IsFor, ConnAuthenticates
  <1>. QED  BY <1>2, <1>3

\* Every step of the specification keeps the invariant.
LEMMA CredInvariant == Spec => []CredInv
  <1>1. CredInv /\ CredTypeOK' /\ [Next]_vars => CredInv'
    BY CredNext
  <1>. QED  BY <1>1, CredStart, CredTypeCorrect, PTL DEF Spec

\* Whenever the task is at rest, charon has of every site exactly the key and the
\* record that Valkey has, however many writes fell between its reads, in whatever
\* order, and whenever it was restarted in between (credentials.rs handle_psk_event,
\* handle_site_event, load_one_device).
THEOREM SettledAlwaysFollows == Spec => []SettledFollows
  BY CredInvariant, CredMeans, PTL

\* A loaded connection has its secret and its interface, except inside the job that
\* changes it and while the event of its record is queued (credentials.rs
\* load_one_device and unload_one_device).
THEOREM ConnsAlwaysAuthenticate == Spec => []ConnAuthenticates
  BY CredInvariant, CredMeans, PTL

=============================================================================
