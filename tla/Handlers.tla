------------------------------ MODULE Handlers ------------------------------
(***************************************************************************)
(* The HTTP handlers (internal/api/handlers.go) and the authorization in   *)
(* front of them (internal/api/middleware.go), for the requests about one  *)
(* device, against the variable cache and a device that changes.           *)
(*                                                                         *)
(* Authorization judges a variable by its cached name and the handler then *)
(* acts on the device, or on a second look at the cache; the device can be *)
(* reconfigured and the cache refreshed in between.  Each call to          *)
(* cache.get and each exchange with the device is a step of its own.       *)
(*                                                                         *)
(* The cache is represented by the snapshot it holds (VarCache models how  *)
(* it keeps it), an object by its identifier, its metadata by its name.    *)
(* An enumeration takes many exchanges; here it sees the device at one     *)
(* moment.                                                                 *)
(* The answers of writeBACnetError (404, 422, 502, 504, and 403 for a      *)
(* device that denies write access) are one status, FromDevice.            *)
(***************************************************************************)
EXTENDS Authz

CONSTANTS
  Workers,        \* goroutines serving requests
  People,         \* who sends them
  Credentials,    \* what Authenticate makes of each person's bearer
  Objects,        \* object identifiers
  DeviceObjects,  \* those of type device
  Names,          \* object names, a set of singletons
  RuleLists,      \* authorization.rules: one of these
  NoSnapshot,     \* the cache holds nothing for the device
  MaxChanges      \* bound on the changes made to the device

ASSUME HandlersAssumption ==
  /\ DeviceObjects \subseteq Objects
  /\ Names \subseteq {{v} : v \in Values}
  /\ Credentials \in [People -> [bearer : BOOLEAN, known : BOOLEAN,
                                 token : SUBSET Values]]
  /\ RuleLists \subseteq Seq(Rules)
  /\ MaxChanges \in Nat

VARIABLES
  rules,    \* Server.rules
  names,    \* the name of each object of the device, {} if there is no such
  own,      \* the device's own Device object
  cached,   \* the cache's snapshot of the device, or NoSnapshot
  pc,       \* where each worker stands
  req,      \* its request
  judged,   \* the name authorizeVariable returned
  target,   \* the object it is about to ask the device about
  seen,     \* the snapshot serveFilteredObjectList filters by
  resp,     \* its response
  had,      \* every <<object, name>> the device has had
  changes   \* changes made to the device

locals == <<judged, target, seen>>
device == <<names, own, had, changes>>
vars == <<rules, cached, pc, req, locals, resp, device>>
-----------------------------------------------------------------------------
Kinds == {"devices", "device", "objects", "object", "property",
          "object-list", "write"}

\* The operation each request is authorized as (lines 105, 121, 221, 277, 368 and,
\* through variableAccess, 171 and 88).
OperationOf(kind) ==
  CASE kind = "devices"                    -> "list-devices"
    [] kind \in {"device", "object"}       -> "read-property-multiple"
    [] kind \in {"objects", "property", "object-list"} -> "read-property"
    [] kind = "write"                      -> "write-property"

\* Stands for every status that reports what became of a BACnet request.
FromDevice == 502

needsObjectName == UsesCondition(rules, "variable")

RequestBy(p, n, op) ==
  [device |-> IF op = "list-devices" THEN "" ELSE "dev", ip |-> {},
   operation |-> op, token |-> Credentials[p].token,
   claims |-> [f \in Fields |-> {}], object |-> n]

\* May person p perform op on the variable named n ({}: none in particular)?
allowed(p, n, op) == Allowed(RequestBy(p, n, op), rules)

variableAccess(p, n) ==
  IF ~ allowed(p, n, "read-property") THEN ""
  ELSE IF allowed(p, n, "write-property") THEN "readwrite" ELSE "readonly"

\* The snapshots load may return: objects whose name it could not read are
\* left out.
Loadable == {[names |-> f, own |-> own] :
               f \in {g \in [Objects -> Names \cup {{}}] :
                        \A o \in Objects : g[o] \in {names[o], {}}}}

\* cache.get returns the snapshot s, loading it first if there is none; what is
\* loaded is lost when the entry has been dropped meanwhile.
Got(s) ==
  \/ cached # NoSnapshot /\ s = cached /\ cached' = cached
  \/ cached = NoSnapshot /\ s \in Loadable /\ cached' \in {s, NoSnapshot}

Snapshots == Loadable \cup ({cached} \ {NoSnapshot})

\* cache.get returns an error: the device could not be enumerated.
GetFails == cached = NoSnapshot /\ cached' = cached

NoResponse == [status |-> 0, shown |-> {}, wrote |-> {}, access |-> ""]

\* The handler returns, and its local variables are gone.
Respond(w, r) ==
  /\ resp' = [resp EXCEPT ![w] = r]
  /\ pc' = [pc EXCEPT ![w] = "idle"]
  /\ judged' = [judged EXCEPT ![w] = {}]
  /\ target' = [target EXCEPT ![w] = req[w].obj]
  /\ seen' = [seen EXCEPT ![w] = NoSnapshot]

RespondStatus(w, status) == Respond(w, [NoResponse EXCEPT !.status = status])

\* writeDenied.
Denied(p) == IF Credentials[p].bearer THEN 403 ELSE 401

Init ==
  /\ rules \in RuleLists
  /\ own \in DeviceObjects
  /\ names \in {f \in [Objects -> Names \cup {{}}] :
                  \A o \in DeviceObjects : f[o] # {} <=> o = own}
  /\ cached = NoSnapshot
  /\ pc = [w \in Workers |-> "idle"]
  /\ \E p \in People :
       req = [w \in Workers |-> [kind |-> "devices", obj |-> own, who |-> p]]
  /\ judged = [w \in Workers |-> {}]
  /\ target = [w \in Workers |-> own]
  /\ seen = [w \in Workers |-> NoSnapshot]
  /\ resp = [w \in Workers |-> NoResponse]
  /\ had = {<<o, names[o]>> : o \in {x \in Objects : names[x] # {}}}
  /\ changes = 0
-----------------------------------------------------------------------------
(* Authorization *)

Receive(w, kind, o, p) ==
  /\ pc[w] = "idle"
  /\ kind = "object-list" => o \in DeviceObjects
  /\ req' = [req EXCEPT ![w] = [kind |-> kind, obj |-> o, who |-> p]]
  /\ resp' = [resp EXCEPT ![w] = NoResponse]
  /\ target' = [target EXCEPT ![w] = o]
  /\ pc' = [pc EXCEPT ![w] = "auth"]
  /\ UNCHANGED <<rules, cached, judged, seen, device>>

\* parseObjectRef fails: an unknown object type, or a bad instance number.
BadReference(w) ==
  /\ pc[w] = "auth"
  /\ req[w].kind \in {"object", "property", "object-list", "write"}
  /\ RespondStatus(w, 400)
  /\ UNCHANGED <<rules, cached, req, device>>

\* check, for the variable named n.
Check(w, n) ==
  LET p == req[w].who
      op == OperationOf(req[w].kind)
  IN IF allowed(p, n, op)
       THEN /\ judged' = [judged EXCEPT ![w] = n]
            /\ pc' = [pc EXCEPT ![w] = "work"]
            /\ UNCHANGED <<target, seen, resp>>
       ELSE RespondStatus(w, IF op = "write-property"
                                /\ allowed(p, n, "read-property")
                               THEN 403 ELSE Denied(p))

\* handleListDevices: the configured aliases, and no device.
ListDevices(w) ==
  /\ pc[w] = "auth"
  /\ req[w].kind = "devices"
  /\ LET p == req[w].who IN
       RespondStatus(w, IF allowed(p, {}, "list-devices") THEN 200
                                                          ELSE Denied(p))
  /\ UNCHANGED <<rules, cached, req, device>>

AboutVariable(w) == req[w].kind \notin {"devices", "objects"}

\* authorizeVariable when no rule looks at names.
AuthorizeUnnamed(w) ==
  /\ pc[w] = "auth"
  /\ AboutVariable(w)
  /\ ~ needsObjectName
  /\ Check(w, {})
  /\ UNCHANGED <<rules, cached, req, device>>

\* Mutant of AuthorizeNamed: an object missing from the list has no name to
\* be denied by.
AuthorizeMissing(w) ==
  /\ pc[w] = "auth"
  /\ AboutVariable(w)
  /\ needsObjectName
  /\ \E s \in Snapshots :
       /\ Got(s)
       /\ Check(w, s.names[IF req[w].kind = "device" THEN s.own
                                                     ELSE req[w].obj])
  /\ UNCHANGED <<rules, req, device>>

\* authorizeVariable when some rule does: the variable is judged by its cached
\* name, and denied if it has none.
AuthorizeNamed(w) ==
  /\ pc[w] = "auth"
  /\ AboutVariable(w)
  /\ needsObjectName
  /\ \E s \in Snapshots :
       /\ Got(s)
       /\ LET n == s.names[IF req[w].kind = "device" THEN s.own
                                                     ELSE req[w].obj]
          IN IF n # {}
               THEN Check(w, n)
               ELSE RespondStatus(w, Denied(req[w].who))
  /\ UNCHANGED <<rules, req, device>>

\* Mutant of EnumerationStatus: everybody is told about the device.
EnumerationTold(p) == FromDevice

\* writeEnumerationError.
EnumerationStatus(p) == IF Credentials[p].known THEN FromDevice ELSE Denied(p)

AuthorizeFails(w) ==
  /\ pc[w] = "auth"
  /\ AboutVariable(w)
  /\ needsObjectName
  /\ GetFails
  /\ RespondStatus(w, EnumerationStatus(req[w].who))
  /\ UNCHANGED <<rules, req, device>>
-----------------------------------------------------------------------------
(* handleListObjects *)

\* visibleVariables.
Visible(p, s) ==
  {o \in Objects : s.names[o] # {} /\
     variableAccess(p, IF needsObjectName THEN s.names[o] ELSE {}) # ""}

ListRefused(w) ==
  ~ needsObjectName /\ variableAccess(req[w].who, {}) = ""

ListDenied(w) ==
  /\ pc[w] = "auth"
  /\ req[w].kind = "objects"
  /\ ListRefused(w)
  /\ RespondStatus(w, Denied(req[w].who))
  /\ UNCHANGED <<rules, cached, req, device>>

ListObjects(w) ==
  /\ pc[w] = "auth"
  /\ req[w].kind = "objects"
  /\ ~ ListRefused(w)
  /\ \E s \in Snapshots :
       /\ Got(s)
       /\ LET visible == Visible(req[w].who, s)
          IN IF visible = {}
               THEN RespondStatus(w, Denied(req[w].who))
               ELSE Respond(w, [status |-> 200, shown |-> visible,
                                wrote |-> {}, access |-> "each its own"])
  /\ UNCHANGED <<rules, req, device>>

ListFails(w) ==
  /\ pc[w] = "auth"
  /\ req[w].kind = "objects"
  /\ ~ ListRefused(w)
  /\ GetFails
  /\ RespondStatus(w, IF needsObjectName THEN EnumerationStatus(req[w].who)
                                         ELSE FromDevice)
  /\ UNCHANGED <<rules, req, device>>
-----------------------------------------------------------------------------
(* The authorized part of the other handlers *)

\* An unknown property, a bad index or a bad body.
BadInput(w) ==
  /\ pc[w] = "work"
  /\ req[w].kind \in {"property", "object-list", "write"}
  /\ RespondStatus(w, 400)
  /\ UNCHANGED <<rules, cached, req, device>>

\* handleGetDevice, line 126: a second look at the cache says which Device
\* object to read.
DeviceAgain(w) ==
  /\ pc[w] = "work"
  /\ req[w].kind = "device"
  /\ \E s \in Snapshots :
       /\ Got(s)
       /\ target' = [target EXCEPT ![w] = s.own]
  /\ pc' = [pc EXCEPT ![w] = "io"]
  /\ UNCHANGED <<rules, req, judged, seen, resp, device>>

\* serveFilteredObjectList, line 326.
ListAgain(w) ==
  /\ pc[w] = "work"
  /\ req[w].kind = "object-list"
  /\ needsObjectName
  /\ \E s \in Snapshots :
       /\ Got(s)
       /\ seen' = [seen EXCEPT ![w] = s]
  /\ target' = [target EXCEPT ![w] = req[w].obj]
  /\ pc' = [pc EXCEPT ![w] = "io"]
  /\ UNCHANGED <<rules, req, judged, resp, device>>

\* Either of them when the entry was dropped and the device is gone.
AgainFails(w) ==
  /\ pc[w] = "work"
  /\ \/ req[w].kind = "device"
     \/ req[w].kind = "object-list" /\ needsObjectName
  /\ GetFails
  /\ RespondStatus(w, FromDevice)
  /\ UNCHANGED <<rules, req, device>>

\* The others go straight to the object in the URL.
Direct(w) ==
  /\ pc[w] = "work"
  /\ \/ req[w].kind \in {"object", "property", "write"}
     \/ req[w].kind = "object-list" /\ ~ needsObjectName
  /\ target' = [target EXCEPT ![w] = req[w].obj]
  /\ pc' = [pc EXCEPT ![w] = "io"]
  /\ UNCHANGED <<rules, cached, req, judged, seen, resp, device>>

\* Mutant of Filtered: objects created since the refresh are let through.
FilteredLoosely(w) ==
  {o \in Objects : names[o] # {} /\
     (seen[w].names[o] # {} =>
        variableAccess(req[w].who, seen[w].names[o]) # "")}

\* Lines 336-346: of the device's list, what the snapshot has a name for that
\* the caller may read.
Filtered(w) ==
  {o \in Objects : names[o] # {} /\ seen[w].names[o] # {} /\
     variableAccess(req[w].who, seen[w].names[o]) # ""}

\* The device answers a read.  An index (lines 347-356) leaves one element of
\* the list, or its length, or is out of range.
ReadOk(w) ==
  /\ pc[w] = "io"
  /\ req[w].kind # "write"
  /\ names[target[w]] # {}
  /\ LET list == IF needsObjectName THEN Filtered(w)
                 ELSE {o \in Objects : names[o] # {}}
         parts == IF req[w].kind = "object-list"
                    THEN {list, {}} \cup {{o} : o \in list}
                    ELSE {{target[w]}}
     IN \E part \in parts :
          Respond(w, [status |-> 200, shown |-> part, wrote |-> {},
                      access |-> variableAccess(req[w].who, judged[w])])
  /\ UNCHANGED <<rules, cached, req, device>>

WriteOk(w) ==
  /\ pc[w] = "io"
  /\ req[w].kind = "write"
  /\ names[target[w]] # {}
  /\ Respond(w, [NoResponse EXCEPT !.status = 204, !.wrote = {target[w]}])
  /\ UNCHANGED <<rules, cached, req, device>>

\* The device reports an error or does not answer, which leaves open whether it
\* carried out a write.
IOFails(w) ==
  /\ pc[w] = "io"
  /\ Respond(w, [NoResponse EXCEPT !.status = FromDevice,
                   !.wrote = IF req[w].kind = "write" THEN {target[w]} ELSE {}])
  /\ UNCHANGED <<rules, cached, req, device>>
-----------------------------------------------------------------------------
(* The cache and the device *)

\* The refresher replaces the snapshot, or drops an idle one.
Refresh ==
  /\ cached # NoSnapshot
  /\ cached' \in Loadable \cup {NoSnapshot}
  /\ UNCHANGED <<rules, pc, req, locals, resp, device>>

Changed(f) ==
  /\ changes < MaxChanges
  /\ changes' = changes + 1
  /\ names' = f
  /\ had' = had \cup {<<o, f[o]>> : o \in {x \in Objects : f[x] # {}}}
  /\ UNCHANGED <<rules, cached, pc, req, locals, resp>>

\* An object is created, renamed or deleted.
Reconfigure(o, n) ==
  /\ o \in DeviceObjects => o = own /\ n # {}
  /\ n # names[o]
  /\ Changed([names EXCEPT ![o] = n])
  /\ UNCHANGED own

\* The device is replaced by one with another instance number.
Replace(d, n) ==
  /\ d # own
  /\ Changed([names EXCEPT ![own] = {}, ![d] = n])
  /\ own' = d
-----------------------------------------------------------------------------
Authorize(w) ==
  \/ BadReference(w) \/ ListDevices(w) \/ AuthorizeUnnamed(w)
  \/ AuthorizeNamed(w) \/ AuthorizeFails(w)
  \/ ListDenied(w) \/ ListObjects(w) \/ ListFails(w)

Work(w) ==
  \/ BadInput(w) \/ DeviceAgain(w) \/ ListAgain(w) \/ AgainFails(w)
  \/ Direct(w) \/ ReadOk(w) \/ WriteOk(w) \/ IOFails(w)

Next ==
  \/ \E w \in Workers, k \in Kinds, o \in Objects, p \in People :
       Receive(w, k, o, p)
  \/ \E w \in Workers : Authorize(w) \/ Work(w)
  \/ Refresh
  \/ \E o \in Objects, n \in Names \cup {{}} : Reconfigure(o, n)
  \/ \E d \in DeviceObjects, n \in Names : Replace(d, n)

Spec == Init /\ [][Next]_vars
-----------------------------------------------------------------------------
(* Properties *)

\* The type of the state.
TypeOK ==
  /\ rules \in RuleLists
  /\ names \in [Objects -> Names \cup {{}}]
  /\ own \in DeviceObjects
  /\ cached \in [names : [Objects -> Names \cup {{}}], own : DeviceObjects]
                \cup {NoSnapshot}
  /\ pc \in [Workers -> {"idle", "auth", "work", "io"}]
  /\ req \in [Workers -> [kind : Kinds, obj : Objects, who : People]]
  /\ judged \in [Workers -> Names \cup {{}}]
  /\ target \in [Workers -> Objects]
  /\ seen \in [Workers -> [names : [Objects -> Names \cup {{}}],
                           own : DeviceObjects] \cup {NoSnapshot}]
  /\ resp \in [Workers -> [status : {0, 200, 204, 400, 401, 403, FromDevice},
                           shown : SUBSET Objects, wrote : SUBSET Objects,
                           access : {"", "readonly", "readwrite",
                                     "each its own"}]]
  /\ had \subseteq Objects \X Names
  /\ changes \in 0 .. MaxChanges

\* The names object o can have been judged by.
NamesOf(o) == IF needsObjectName THEN {n \in Names : <<o, n>> \in had} ELSE {{}}

\* A caller can read a variable "if the rules allow it read-property on it"
\* (docs/configuration.md:219).
CanRead(p, n) == allowed(p, n, "read-property")

\* "responses leave out variables the caller can't read" (README.md:130): every
\* object in an answer has had a name under which the caller can read it,
\* however names and snapshots changed while the request was served.  Two
\* routes differ from the documentation.  GET of an object asks for
\* read-property-multiple instead (line 221); what it shows without
\* read-property it shows with an empty access field (line 265).  GET
\* /devices/{id} is left out: its second look at the cache (line 126) may find
\* another Device object than the one that was authorized.
ShownWasReadable ==
  \A w \in Workers : req[w].kind # "device" =>
    \A o \in resp[w].shown : \E n \in NamesOf(o) :
      \/ CanRead(req[w].who, n)
      \/ /\ req[w].kind = "object" /\ resp[w].access = ""
         /\ allowed(req[w].who, n, "read-property-multiple")

\* "an object that isn't in the cached list ... is refused rather than
\* evaluated without a name, so a deny rule keyed on a name can't be bypassed"
\* (docs/configuration.md:222): no write reaches an object unless it has had a
\* name under which the rules let the caller write it.
WrittenWasWritable ==
  \A w \in Workers : \A o \in resp[w].wrote : \E n \in NamesOf(o) :
    allowed(req[w].who, n, "write-property")

\* "anyone else just gets 401/403, without learning anything about the device"
\* (writeEnumerationError, middleware.go:186-190): without a recognized
\* credential, what became of a BACnet request is only told to those whom the
\* rules allow the operation on some variable.
StrangersLearnNothing ==
  \A w \in Workers :
    resp[w].status \in {200, 204, FromDevice} /\ ~ Credentials[req[w].who].known
    => \E n \in Names \cup {{}} :
         allowed(req[w].who, n, OperationOf(req[w].kind))
=============================================================================
