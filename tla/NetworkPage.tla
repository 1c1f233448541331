---------------------------- MODULE NetworkPage ----------------------------
(***************************************************************************)
(* The network page: the form of the wired interface, its validation, the   *)
(* confirmation, and the save, which may move the device to another address *)
(* so that its answer is easily lost.  Of the texts of the form the netmask *)
(* is modelled by its octets or NotIpv4, and the rest by whether all of     *)
(* them are addresses.  A number is the set of the places of its ones.      *)
(***************************************************************************)
EXTENDS Integers

CONSTANTS
    Octets,    \* 4 in the program
    OctetBits  \* 8 in the program

VARIABLES
    form,          \* mode, netmask, and whether ip, gateway and DNS are addresses
    config,        \* the same on the device
    load, save,    \* one request each
    confirming,    \* the confirmation is open
    tab

networkVars == <<form, config, load, save, confirming, tab>>

Bits == Octets * OctetBits
Places == 0 .. Bits - 1
NotIpv4 == <<>>
Masks == {NotIpv4} \cup [1 .. Octets -> SUBSET (0 .. OctetBits - 1)]
Idle == [st |-> "idle"]
Sent == [st |-> "sent"]
Lost == [st |-> "lost"]
Back(c) == [st |-> "back", set |-> c]

\* The place of bit b of the octet i in the number: each shift moves the octets
\* before to the left
Place(i, b) == OctetBits * (Octets - i) + b

\* The mask of n ones followed by zeros
Prefix(n) ==
    [i \in 1 .. Octets |-> {b \in 0 .. OctetBits - 1 : Place(i, b) >= Bits - n}]

\* Adding one clears the ones at the end and sets the zero before them, unless
\* the number was all ones
Carried(S) == {p \in Places : 0 .. p \subseteq S}
PlusOne(S) == (S \ Carried(S)) \cup {p \in Places \ S : 0 .. p - 1 \subseteq S}

\* The octets put together, and the number inverted
Number(mask) == UNION {{Place(i, b) : b \in mask[i]} : i \in 1 .. Octets}
Inverted(mask) == Places \ Number(mask)

\* The code's test: the inverted mask and its successor have no one in common
\* (with a defect: zero passes)
isMaskOrZero(mask) ==
    mask # NotIpv4 /\ PlusOne(Inverted(mask)) \cap Inverted(mask) = {}

isValidNetmask(mask) ==
    /\ mask # NotIpv4 /\ Number(mask) # {}
    /\ PlusOne(Inverted(mask)) \cap Inverted(mask) = {}

validateParams(f) ==
    /\ f.addresses
    /\ f.mode = "static" => isValidNetmask(f.netmask)

Hardcoded == [mode |-> "dhcp", netmask |-> Prefix(Bits - OctetBits), addresses |-> TRUE]

Init ==
    /\ form = Hardcoded
    /\ config \in {Hardcoded, [Hardcoded EXCEPT !.mode = "static"],
                   [Hardcoded EXCEPT !.netmask = NotIpv4]}
    /\ load = Sent /\ save = Idle
    /\ confirming = FALSE /\ tab = "status"

-----------------------------------------------------------------------------
\* getNetwork at the device, and the rest of refresh
LoadRead ==
    /\ load = Sent
    /\ load' \in {Back(config), Lost}
    /\ UNCHANGED <<form, config, save, confirming, tab>>

refresh ==
    /\ load \notin {Idle, Sent}
    /\ load' = Idle
    /\ form' = IF load = Lost THEN form ELSE load.set
    /\ UNCHANGED <<config, save, confirming, tab>>

\* The page is masked while it loads, and by the confirmation
Editable == load = Idle /\ ~confirming

Open(t) ==
    /\ Editable /\ tab # t
    /\ tab' = t
    /\ UNCHANGED <<form, config, load, save, confirming>>

\* Typing, also while a save is on the way; the static addresses are hidden in
\* the other mode but keep what was typed
Edit(f) ==
    /\ Editable /\ tab = "params"
    /\ f.netmask = form.netmask \/ form.mode = "static"
    /\ form' = f
    /\ UNCHANGED <<config, load, save, confirming, tab>>

\* The first part of onSave, up to the confirmation; the button spins while a
\* save is on the way
onSave ==
    /\ Editable /\ tab = "params" /\ save = Idle
    /\ validateParams(form)
    /\ confirming' = TRUE
    /\ UNCHANGED <<form, config, load, save, tab>>

\* The form is read after the wait; or the user declines
Confirmed ==
    /\ confirming /\ confirming' = FALSE
    /\ save' \in {[st |-> "sent", set |-> form], Idle}
    /\ UNCHANGED <<form, config, load, tab>>

\* The device stores the configuration and applies it, which may fail or cut the
\* answer off, or refuses it
SaveHandled ==
    /\ save.st = "sent"
    /\ \/ config' = save.set /\ save' \in {Back(save.set), Lost}
       \/ save' = Lost /\ UNCHANGED config
    /\ UNCHANGED <<form, load, confirming, tab>>

\* The rest of onSave: only an accepted save replaces the form
SaveAnswer ==
    /\ save.st \in {"back", "lost"}
    /\ save' = Idle
    /\ IF save = Lost THEN UNCHANGED <<form, tab>>
       ELSE form' = save.set /\ tab' = "status"
    /\ UNCHANGED <<config, load, confirming>>

Forms == [mode : {"dhcp", "static"}, netmask : Masks, addresses : BOOLEAN]

Next ==
    \/ LoadRead \/ refresh
    \/ \E t \in {"status", "params"} : Open(t)
    \/ \E f \in Forms : Edit(f)
    \/ onSave \/ Confirmed \/ SaveHandled \/ SaveAnswer

Spec == Init /\ [][Next]_networkVars

-----------------------------------------------------------------------------
TypeOK ==
    /\ form \in Forms /\ config \in Forms
    /\ {load.st, save.st} \subseteq {"idle", "sent", "back", "lost"}
    /\ confirming \in BOOLEAN /\ tab \in {"status", "params"}

\* A device with a static address has a netmask of ones followed by zeros and
\* addresses throughout: the bit trick of isValidNetmask refuses every other
\* mask, and nothing replaces the form between the validation and the sending
\* of the save, with a confirmation and the answer to another save in between.
StaticIsSound ==
    config.mode = "static" =>
        config.addresses /\ \E n \in 1 .. Bits : config.netmask = Prefix(n)
=============================================================================
