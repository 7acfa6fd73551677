------------------------------- MODULE HprScan -------------------------------
(***************************************************************************)
(* How a pedal is found: Scanner.Scan (internal/hidtransport/windows.go)    *)
(* asks every HID interface present for its attributes, usage and names     *)
(* over a temporary handle; Manager.Scan (pkg/hpr/manager.go) gives each    *)
(* descriptor to the first driver that matches it; Match and Describe of    *)
(* the Simagic driver (pkg/hpr/driver/simagic) recognise the model.         *)
(*                                                                         *)
(* A name is what matchModel looks for in it: a set of hints.  A pair of    *)
(* vendor and product ids is named after the product it belongs to.  Each   *)
(* call into Windows may fail for one interface and succeed for the next.   *)
(***************************************************************************)
EXTENDS Naturals, Sequences, FiniteSets, SequencesExt

CONSTANTS
    Interfaces,     \* HID interfaces of the machine
    Attributes,     \* Attributes[d]: their [product, joystick, hints], and the
                    \* model they really are, "unknown" for what is no pedal
    Drivers,        \* Manager.drivers, a sequence
    ForeignMatch    \* products the drivers of other vendors match

VARIABLES
    scan,       \* "idle", the step Scan is at, "claim", "done" or "failed"
    order,      \* the interfaces of the device information set, in its order
    at,         \* index
    probe,      \* the temporary handle is open
    joystick,   \* usagePage and usage of this round say game controller
    raw,        \* the descriptors
    found,      \* what Manager.Scan returns
    silent      \* history: silent[d], the calls that failed for d

scanVars == <<scan, order, at, probe, joystick, raw, found, silent>>

Models == {"P500", "P700", "P1000", "P2000", "ALPHA PEDAL NEO"}
Calls == {"handle", "attributes", "usage", "names"}

ASSUME InterfacesAssumption == IsFiniteSet(Interfaces)
ASSUME DriversAssumption ==
    Drivers \in Seq(STRING) /\ \E i \in DOMAIN Drivers : Drivers[i] = "simagic"

\* A pedal is a game controller with the ids of its model and, if its name
\* gives a hint, one of its model; the Neo has the ids of the P500 and says its
\* name.  Another game controller has other ids or a name that rules it out.
ASSUME AttributesAssumption ==
    \A d \in Interfaces :
        LET its == Attributes[d]
        IN  /\ its.joystick \in BOOLEAN
            /\ \/ /\ its.model = "unknown"
                  /\ \/ ~its.joystick \/ its.product \notin Models
                     \/ its.hints # {} /\ its.hints \cap {its.product, "ALPHA PEDAL NEO"} = {}
               \/ /\ its.model \in Models /\ its.joystick
                  /\ IF its.model = "ALPHA PEDAL NEO"
                     THEN its.product = "P500" /\ its.model \in its.hints
                     ELSE /\ its.product = its.model
                          /\ its.hints = {} \/ its.model \in its.hints
                          /\ "ALPHA PEDAL NEO" \notin its.hints

ScanInit ==
    /\ scan = "idle" /\ order = <<>> /\ at = 1 /\ probe = FALSE /\ joystick = FALSE
    /\ raw = <<>> /\ found = <<>>
    /\ silent = [d \in Interfaces |-> {}]

-----------------------------------------------------------------------------
(* The drivers.                                                            *)

\* Faulty variant of MatchModel: the models that share a product id are not
\* told apart.
ModelById(product, hints) ==
    IF product \in Models /\ (hints = {} \/ product \in hints \cup {"ALPHA PEDAL NEO"})
    THEN product ELSE "unknown"

\* matchModel: a name that gives no hint is no objection.
MatchModel(product, hints) ==
    LET accepted == IF product = "P500" THEN {"P500", "ALPHA PEDAL NEO"} ELSE {product}
    IN  IF product \notin Models \/ (hints # {} /\ hints \cap accepted = {}) THEN "unknown"
        ELSE IF product = "P500" /\ "ALPHA PEDAL NEO" \in hints THEN "ALPHA PEDAL NEO"
        ELSE product

Match(driver, desc) ==
    IF driver = "simagic" THEN desc.joystick /\ MatchModel(desc.product, desc.hints) # "unknown"
    ELSE desc.product \in ForeignMatch

Describe(driver, desc) ==
    [dev |-> desc.dev, driver |-> driver,
     model |-> IF driver = "simagic" THEN MatchModel(desc.product, desc.hints) ELSE "unknown"]

\* claim, 0 when no driver matches.
Claim(desc) == SelectInSeq(Drivers, LAMBDA driver : Match(driver, desc))

-----------------------------------------------------------------------------
(* Scanner.Scan.                                                           *)

\* The interfaces present are listed once, in any order; or the class GUID or
\* the list cannot be had.
ScanBegin ==
    /\ scan \in {"idle", "done", "failed"}
    /\ at' = 1 /\ raw' = <<>> /\ found' = <<>> /\ silent' = [d \in Interfaces |-> {}]
    /\ \/ scan' = "next" /\ \E present \in SUBSET Interfaces : order' \in SetToSeqs(present)
       \/ scan' = "failed" /\ order' = <<>>
    /\ UNCHANGED <<probe, joystick>>

ScanFrame == UNCHANGED <<order, raw, found>>

\* A call succeeds and the round goes on to the next one.
Goes(from, to) == scan = from /\ scan' = to /\ UNCHANGED <<at, silent>>

Silent(call) == silent' = [silent EXCEPT ![order[at]] = @ \cup {call}]

\* Faulty variant of OpenProbe: usagePage and usage are declared outside the loop.
OpenProbeKeepsUsage ==
    /\ at <= Len(order)
    /\ \/ Goes("next", "attributes") /\ probe' = TRUE
       \/ scan = "next" /\ Silent("handle") /\ at' = at + 1 /\ UNCHANGED <<scan, probe>>
    /\ UNCHANGED joystick
    /\ ScanFrame

\* The path of the interface cannot be had or opened.
OpenProbe ==
    /\ at <= Len(order)
    /\ \/ Goes("next", "attributes") /\ probe' = TRUE
       \/ scan = "next" /\ Silent("handle") /\ at' = at + 1 /\ UNCHANGED <<scan, probe>>
    /\ joystick' = FALSE
    /\ ScanFrame

GetAttributes ==
    /\ \/ Goes("attributes", "usage") /\ UNCHANGED probe
       \/ /\ scan = "attributes" /\ scan' = "next" /\ at' = at + 1
          /\ Silent("attributes") /\ probe' = FALSE
    /\ UNCHANGED joystick
    /\ ScanFrame

\* The preparsed data or its capabilities: without them the usage stays 0.
GetUsage ==
    /\ \/ Goes("usage", "names") /\ joystick' = Attributes[order[at]].joystick
       \/ /\ scan = "usage" /\ scan' = "names" /\ Silent("usage")
          /\ UNCHANGED <<at, joystick>>
    /\ UNCHANGED probe
    /\ ScanFrame

\* hidDGetString: a name that cannot be read is empty, and one that is not
\* there is replaced by the path; neither gives a hint.
Hints(d, named) == IF named THEN Attributes[d].hints ELSE {}

\* The descriptor is complete and the handle is closed.
GetNames ==
    /\ scan = "names" /\ scan' = "next" /\ at' = at + 1 /\ probe' = FALSE
    /\ \E named \in BOOLEAN :
           /\ IF named THEN UNCHANGED silent ELSE Silent("names")
           /\ raw' = Append(raw, [dev |-> order[at], product |-> Attributes[order[at]].product,
                                  joystick |-> joystick,
                                  hints |-> Hints(order[at], named)])
    /\ UNCHANGED <<order, joystick, found>>

\* The descriptors are returned to Manager.Scan.
ScanReturn ==
    /\ scan = "next" /\ at > Len(order)
    /\ scan' = "claim" /\ at' = 1
    /\ UNCHANGED <<order, probe, joystick, raw, found, silent>>

\* The loop of Manager.Scan: what no driver claims is left out.
ClaimNext ==
    /\ scan = "claim" /\ at <= Len(raw)
    /\ found' = LET claim == Claim(raw[at])
                IN IF claim = 0 THEN found
                   ELSE Append(found, Describe(Drivers[claim], raw[at]))
    /\ at' = at + 1
    /\ UNCHANGED <<scan, order, probe, joystick, raw, silent>>

ScanEnd ==
    /\ scan = "claim" /\ at > Len(raw)
    /\ scan' = "done"
    /\ UNCHANGED <<order, at, probe, joystick, raw, found, silent>>

ScanNext ==
    \/ ScanBegin \/ OpenProbe \/ GetAttributes \/ GetUsage \/ GetNames
    \/ ScanReturn \/ ClaimNext \/ ScanEnd

-----------------------------------------------------------------------------
(* Properties                                                              *)

Listed(d) == {i \in DOMAIN found : found[i].dev = d}

\* A scan lists every pedal that answers, once and with its model, whatever
\* other interfaces refuse to say and even if it does not tell its name; what
\* did not say it is a game controller is not taken for a pedal; and no handle
\* is left open.
EveryPedalFound ==
    scan = "done" =>
        /\ ~probe
        /\ \A d \in ToSet(order) :
               /\ Cardinality(Listed(d)) <= 1
               /\ Attributes[d].model # "unknown" /\ silent[d] \subseteq {"names"} =>
                      Listed(d) # {}
               /\ \A i \in Listed(d) : found[i].driver = "simagic" =>
                      /\ silent[d] \subseteq {"names"}
                      /\ silent[d] = {} => found[i].model = Attributes[d].model
=============================================================================
