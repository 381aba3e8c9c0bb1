-------------------------------- MODULE Remote --------------------------------
(***************************************************************************)
(* A clone and its remote: fetch and push of remote/ against the server    *)
(* of ReceivePack, while other sessions push to it.  Branches are fetched  *)
(* into tracking references with one wildcard refspec, tags follow them.   *)
(* Shallow clones, exact hashes as sources, required references and the    *)
(* option to push tags along are left out.                                 *)
(***************************************************************************)
EXTENDS ReceivePack

CONSTANTS
    Client,    \* the session in which the clone pushes
    Tags,      \* the names that are tags; the others are branches
    Starts,    \* what the clone may be at first: [own, tracking, have]
    Fetches,   \* how it fetches: [tags, plus, force, prune], plus if the refspec has a +
    Calls,     \* how it pushes: [specs, lease, atomic, prune]
    MaxCalls,  \* bound of the model: how often it fetches or pushes
    None

ASSUME ClientIsASession == Client \in Sessions
ASSUME TagsAreNames == Tags \subseteq Names
ASSUME HistoryAssumption ==
    \A o \in Objects : o \in Reach[o] /\ \A p \in Reach[o] : Reach[p] \subseteq Reach[o]
ASSUME StartsAssumption ==
    /\ Starts \subseteq [own : [Names -> Ref], tracking : [Names -> Ref], have : SUBSET Objects]
    /\ \A c \in Starts : Closure(c.have) \subseteq c.have
                         /\ Range(c.own) \cup Range(c.tracking) \subseteq c.have \cup {Absent}
                         /\ \A n \in Tags : c.tracking[n] = Absent

FetchCall == [tags : {"none", "following", "all"}, plus : BOOLEAN, force : BOOLEAN,
              prune : BOOLEAN]
\* :name, name:name and +name:name
RefSpec == [name : Names, form : {"delete", "plain", "force"}]
PushCall == [specs : Seq(RefSpec), lease : BOOLEAN, atomic : BOOLEAN, prune : BOOLEAN]
ASSUME CallsAssumption ==
    Fetches \subseteq FetchCall /\ Calls \subseteq PushCall /\ MaxCalls \in Nat

VARIABLES
    own,       \* refs/heads and refs/tags of the clone
    tracking,  \* its refs/remotes/<remote>
    have,      \* its objects
    doing,     \* what it is doing
    call,      \* how; of a push, with the refspecs not looked at yet
    theirs,    \* the references the remote advertised to the fetch
    todo,      \* the references the fetch has not updated yet
    asked,     \* the changes the push has collected
    calls,     \* how many calls it has made
    during     \* history: the values of the remote's references since the call began

cloneVars == <<own, tracking, have>>
callVars == <<doing, call, theirs, todo, asked, calls>>
remoteVars == <<vars, cloneVars, callVars, during>>

Heads == Names \ Tags
Nowhere == [n \in Names |-> Absent]

RemoteInit ==
    /\ Init
    /\ \E c \in Starts : own = c.own /\ tracking = c.tracking /\ have = c.have
    /\ doing = "idle" /\ call = None
    /\ theirs = Nowhere /\ todo = {} /\ asked = << >> /\ calls = 0
    /\ during = [n \in Names |-> {}]

\* The call returns or fails; what it has done so far stays.
Leave ==
    /\ doing' = "idle" /\ call' = None
    /\ theirs' = Nowhere /\ todo' = {} /\ asked' = << >> /\ UNCHANGED calls
    /\ during' = [n \in Names |-> {}]

\* What the remote's references become is noted while a call runs.
Watch ==
    /\ during' = IF doing = "idle" THEN during ELSE [n \in Names |-> during[n] \cup {refs'[n]}]
    /\ UNCHANGED <<cloneVars, callVars>>

\* old is found on a walk from new through the clone's objects.
FastForward(old, new) == new \in have /\ old \in Reach[new]

-----------------------------------------------------------------------------
\* Fetch: advertisedReferences of upload-pack, which fails on an empty repository.
FetchOpen ==
    /\ refs # Nowhere
    /\ doing = "idle" /\ doing' = "fetch"
    /\ calls < MaxCalls /\ calls' = calls + 1
    /\ call' \in Fetches
    /\ theirs' = refs /\ during' = [n \in Names |-> {refs[n]}]
    /\ UNCHANGED <<vars, cloneVars, todo, asked>>

\* getWants; getHaves, of which the references are a part that needs the rest.
Matched == {theirs[n] : n \in Heads \cup (IF call.tags = "all" THEN Tags ELSE {})} \ {Absent}
Wants == Matched \ have
Haves == Range(own) \cup Range(tracking)

\* What the server sends; it fails on a have or want it does not know.
Served == Closure(Wants \cup Haves) \subseteq objects
Upload == Closure(Wants) \ Closure(Haves)

\* Faulty variant: the objects go into the storage as they are unpacked, and a
\* broken pack leaves some of them.
ImportInPlace ==
    /\ doing = "fetch"
    /\ Wants = {} \/ Served
    /\ \E got \in SUBSET Upload :
        /\ have' = have \cup got
        /\ IF got = Upload
           THEN doing' = "prune" /\ UNCHANGED <<call, theirs, todo, asked, calls, during>>
           ELSE Leave
    /\ UNCHANGED <<vars, own, tracking>>

\* The pack is imported as a whole.
Import ==
    /\ doing = "fetch"
    /\ Wants = {} \/ Served
    /\ have' = have \cup Upload
    /\ doing' = "prune"
    /\ UNCHANGED <<vars, own, tracking, call, theirs, todo, asked, calls, during>>

\* pruneRemotes.  The reverse of a refspec with a + asks for a name with a +,
\* which is never advertised.  The loop may fail half-way.
Stale == {n \in Heads : tracking[n] # Absent /\ (call.plus \/ theirs[n] = Absent)}
Prune ==
    /\ doing = "prune"
    /\ \E S \in SUBSET (IF call.prune THEN Stale ELSE {}) :
        /\ tracking' = [n \in Names |-> IF n \in S THEN Absent ELSE tracking[n]]
        /\ IF call.prune /\ S # Stale THEN Leave
           ELSE /\ doing' = "update"
                /\ todo' = {n \in Heads \cup (IF call.tags = "none" THEN {} ELSE Tags) :
                              theirs[n] # Absent}
                /\ UNCHANGED <<call, theirs, asked, calls, during>>
    /\ UNCHANGED <<vars, own, have>>

\* updateLocalReferenceStorage; buildFetchedTags comes last.
UpdateHead(n) ==
    /\ doing = "update" /\ n \in todo \cap Heads
    /\ todo' = todo \ {n}
    /\ tracking' = [tracking EXCEPT ![n] =
         IF @ = Absent \/ call.plus \/ call.force \/ FastForward(@, theirs[n])
         THEN theirs[n] ELSE @]
    /\ UNCHANGED <<vars, own, have, doing, call, theirs, asked, calls, during>>

UpdateTag(n) ==
    /\ doing = "update" /\ n \in todo /\ todo \subseteq Tags
    /\ todo' = todo \ {n}
    /\ own' = [own EXCEPT ![n] = IF theirs[n] \in have THEN theirs[n] ELSE @]
    /\ UNCHANGED <<vars, tracking, have, doing, call, theirs, asked, calls, during>>

\* All is done, the remote or the pack fails, or an allocation.
FetchEnds ==
    /\ doing \in {"fetch", "prune", "update"}
    /\ Leave
    /\ UNCHANGED <<vars, cloneVars>>

-----------------------------------------------------------------------------
\* Push: advertisedReferences of receive-pack.
PushOpen ==
    /\ doing = "idle" /\ doing' = "push"
    /\ calls < MaxCalls /\ calls' = calls + 1
    /\ call' \in Calls
    /\ during' = [n \in Names |-> {refs[n]}]
    /\ Advertise(Client)
    /\ UNCHANGED <<cloneVars, theirs, todo, asked>>

Advertised(n) == seen[Client][n]
Deletion(n) == [name |-> n, new |-> Absent]

\* The commands of a refspec: an update of what differs, and the deletion of what
\* the clone does not have; with a + it is not found whether the clone has it or not.
Updates(sp) == sp.form # "delete" /\ own[sp.name] \notin {Absent, Advertised(sp.name)}
Deletes(sp) ==
    /\ Advertised(sp.name) # Absent
    /\ \/ sp.form = "delete"
       \/ call.prune /\ (sp.form = "force" \/ own[sp.name] = Absent)
Changes(sp) ==
    (IF Updates(sp) THEN <<[name |-> sp.name, new |-> own[sp.name]]>> ELSE << >>)
    \o (IF Deletes(sp) THEN <<Deletion(sp.name)>> ELSE << >>)

\* checkForceWithLease, with the tracking reference as the expected value, or
\* checkFastForwardUpdate
Allowed(sp) ==
    Updates(sp) =>
        IF call.lease
        THEN tracking[sp.name] # Absent /\ Advertised(sp.name) = tracking[sp.name]
        ELSE \/ sp.form = "force" \/ Advertised(sp.name) = Absent
             \/ FastForward(Advertised(sp.name), own[sp.name])

Collect ==
    /\ doing = "push" /\ step[Client] = "request" /\ call.specs # << >>
    /\ Allowed(Head(call.specs))
    /\ asked' = asked \o Changes(Head(call.specs))
    /\ call' = [call EXCEPT !.specs = Tail(@)]
    /\ UNCHANGED <<vars, cloneVars, doing, theirs, todo, calls, during>>

\* The pack leaves out what the advertised references the clone knows need.
Send ==
    /\ doing = "push" /\ call.specs = << >> /\ asked # << >>
    /\ LET cs == Asked(Client, asked)
           ps == NewOf(cs) \ Closure(Range(seen[Client]) \cap have) IN
        /\ ps \subseteq have
        /\ Receive(Client, call.atomic, cs, ps)
    /\ UNCHANGED <<cloneVars, callVars, during>>

\* updateRemoteReferenceStorage, one command after the other; it may fail half-way.
Told(k, n) == {i \in 1..k : commands[Client][i].name = n}
Latest(I) == CHOOSE i \in I : \A j \in I : j <= i

\* Faulty variant: whatever the report says.
AnsweredUnread ==
    /\ doing = "push" /\ Finished(Client)
    /\ \E k \in 0..Len(commands[Client]) :
         tracking' = [n \in Names |->
            IF n \in Heads /\ Told(k, n) # {} THEN commands[Client][Latest(Told(k, n))].new
            ELSE tracking[n]]
    /\ Leave
    /\ UNCHANGED <<vars, own, have>>

Answered ==
    /\ doing = "push" /\ Finished(Client) /\ ~err[Client]
    /\ \E k \in 0..Len(commands[Client]) :
         tracking' = [n \in Names |->
            IF n \in Heads /\ Told(k, n) # {} THEN commands[Client][Latest(Told(k, n))].new
            ELSE tracking[n]]
    /\ Leave
    /\ UNCHANGED <<vars, own, have>>

\* Nothing to push, a command that is not allowed, an error in the report, or
\* the connection is lost: the server may be at work on the request.
PushEnds ==
    /\ doing = "push"
    /\ Leave
    /\ UNCHANGED <<vars, cloneVars>>

-----------------------------------------------------------------------------
RemoteNext ==
    \/ FetchOpen \/ Import \/ Prune \/ FetchEnds
    \/ \E n \in Names : UpdateHead(n) \/ UpdateTag(n)
    \/ PushOpen \/ Collect \/ Send \/ Answered \/ PushEnds
    \/ step[Client] # "advertise" /\ Serve(Client) /\ Watch
    \/ \E s \in Sessions \ {Client} : (Request(s) \/ Serve(s)) /\ Watch

RemoteSpec == RemoteInit /\ [][RemoteNext]_remoteVars

-----------------------------------------------------------------------------
(* Types, of the server's and the clone's state.                           *)
CloneTypeOK ==
    /\ TypeOK
    /\ own \in [Names -> Ref] /\ tracking \in [Names -> Ref]
    /\ have \subseteq Objects
    /\ doing \in {"idle", "fetch", "prune", "update", "push"}
    /\ doing = "idle" => call = None
    /\ doing = "push" => call \in PushCall
    /\ doing \in {"fetch", "prune", "update"} => call \in FetchCall
    /\ theirs \in [Names -> Ref] /\ todo \subseteq Names
    /\ asked \in Seq([name : Names, new : Ref]) /\ calls \in 0..MaxCalls
    /\ during \in [Names -> SUBSET Ref]

(* The clone has the whole history of each of its references, wherever a   *)
(* fetch stopped: one that finds the tip of a branch in the storage does   *)
(* not ask for the rest.                                                   *)
CloneComplete == Closure(Range(own) \cup Range(tracking)) \subseteq have

(* A tracking reference only becomes what the remote's reference was at    *)
(* some time during the call, whatever others push meanwhile and the       *)
(* server reports; but a fetch that prunes with a + in its refspec first   *)
(* drops them all.                                                         *)
TrackingFollows ==
    [][\A n \in Names : tracking'[n] # tracking[n] =>
          \/ tracking'[n] \in during[n]
          \/ doing = "prune" /\ call.plus /\ tracking'[n] = Absent]_remoteVars
=============================================================================
