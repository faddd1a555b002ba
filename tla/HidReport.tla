----------------------------- MODULE HidReport -----------------------------
(***************************************************************************)
(* What a host reads in the reports of the two firmwares: the C++ structs  *)
(* are laid out bit by bit, the host takes the bytes apart by the report   *)
(* descriptor, and nothing but care keeps the two in step. Chosen once,    *)
(* firmware says which program runs: "classic" is main_project, "ble" is   *)
(* simpler_main_project.                                                   *)
(***************************************************************************)
EXTENDS Integers, Sequences

VARIABLES
    firmware,
    held,       \* the pins whose button the player holds
    report,     \* globals::report of main.cpp, hid::report of hid.cpp
    message     \* the last report handed to BTstack, of length 0 if there is none

vars == <<firmware, held, report, message>>
-----------------------------------------------------------------------------
(* The structs                                                             *)

Field(n, b) == [name |-> n, bits |-> b]

Axes    == <<"x", "y", "rx", "ry", "z", "rz">>
Buttons == <<"b0", "b1", "b2", "b3", "b4", "b5", "b8", "b9", "b16", "b17",
             "b18", "b6", "b7">>

HID_BUTTON_COUNT   == 13
HID_BUTTON_PADDING ==
    IF HID_BUTTON_COUNT % 8 # 0 THEN 8 - (HID_BUTTON_COUNT % 8) ELSE 0

\* MUTANT: the buttons are declared in the order of their numbers.
packed_report_t_Numeric ==
    [i \in 1..Len(Axes) |-> Field(Axes[i], 8)]
        \o [i \in 1..6 |-> Field(Buttons[i], 1)]
        \o <<Field("b6", 1), Field("b7", 1)>>
        \o [i \in 1..5 |-> Field(Buttons[i + 6], 1)]
        \o <<Field("pad", HID_BUTTON_PADDING), Field("hat", 4), Field("pad", 4)>>

packed_report_t ==
    [i \in 1..Len(Axes) |-> Field(Axes[i], 8)]
        \o [i \in 1..Len(Buttons) |-> Field(Buttons[i], 1)]
        \o <<Field("pad", HID_BUTTON_PADDING), Field("hat", 4), Field("pad", 4)>>

\* The nine bits of GamepadReport::buttons, named by their number.
ButtonBits == <<"0", "1", "2", "3", "4", "5", "6", "7", "8">>
GamepadReport ==
    [i \in 1..Len(ButtonBits) |-> Field(ButtonBits[i], 1)]
        \o <<Field("pad", 7), Field("hat", 4), Field("pad", 4)>>

Struct == IF firmware = "classic" THEN packed_report_t ELSE GamepadReport
Names  == {Struct[i].name : i \in 1..Len(Struct)} \ {"pad"}

\* Where the compiler puts each bit-field: after the one before it, in the next
\* byte if it does not fit (external).
Starts(fields) ==
    LET at[i \in 1..Len(fields)] ==
            IF i = 1 THEN 0
            ELSE LET free == at[i - 1] + fields[i - 1].bits
                 IN  IF (free % 8) + fields[i].bits > 8
                     THEN free + 8 - (free % 8) ELSE free
    IN  at

Sizeof(fields) ==
    (Starts(fields)[Len(fields)] + fields[Len(fields)].bits + 7) \div 8

\* The unpacked report_t holds one byte for each axis, button and the hat.
SizeofReport == Len(Axes) + Len(Buttons) + 1

\* The bits of a report that are set: those of each field at its place.
Payload(fields, r) ==
    LET at     == Starts(fields)
        set(i) == {j \in 0..(fields[i].bits - 1) : (r[fields[i].name] \div 2^j) % 2 = 1}
    IN  UNION { {at[i] + j : j \in set(i)} :
                    i \in {n \in 1..Len(fields) : fields[n].name # "pad"} }

\* transmit_report sizes its message by the unpacked report; get_report_data
\* spans the struct itself. Length in bytes, without the 0xa1 and the report id.
Transmit(r) ==
    [length |-> IF firmware = "classic" THEN SizeofReport ELSE Sizeof(Struct),
     payload |-> Payload(Struct, r)]
-----------------------------------------------------------------------------
(* The descriptors, item by item, and how a host reads by them             *)

Item(usages, size, count) == [usages |-> usages, size |-> size, count |-> count]

HID_BUTTON_USAGES ==
    <<"A", "B", "Y", "X", "TL", "TR", "SELECT", "START", "GUIDE", "C", "Z",
      "TL2", "TR2">>

hid_descriptor ==
    << Item(<<"X axis", "Y axis">>, 8, 2), Item(<<"Rx", "Ry">>, 8, 2),
       Item(<<"Z axis">>, 8, 1), Item(<<"Rz">>, 8, 1),
       Item(HID_BUTTON_USAGES, 1, HID_BUTTON_COUNT),
       Item(<<>>, 1, HID_BUTTON_PADDING),
       Item(<<"Hat">>, 4, 1), Item(<<>>, 1, 4) >>

gamepad_hid_report_descriptor ==
    << Item(<<"Button1", "Button2", "Button3", "Button4", "Button5", "Button6",
              "Button7", "Button8", "Button9">>, 1, 9),
       Item(<<>>, 7, 1),
       Item(<<"Hat">>, 4, 1), Item(<<>>, 4, 1) >>

Descriptor ==
    IF firmware = "classic" THEN hid_descriptor ELSE gamepad_hid_report_descriptor

\* The bit at which item i starts, the last index standing for the end.
ItemStarts(items) ==
    LET at[i \in 1..(Len(items) + 1)] ==
            IF i = 1 THEN 0
            ELSE at[i - 1] + items[i - 1].size * items[i - 1].count
    IN  at

DescribedBits == ItemStarts(Descriptor)[Len(Descriptor) + 1]

\* The number that size bits spell from bit at on, the lowest first.
Number(bits, at, size) ==
    LET value[j \in 0..size] ==
            IF j = 0 THEN 0
            ELSE value[j - 1] + (IF at + j - 1 \in bits THEN 2^(j - 1) ELSE 0)
    IN  value[size]

\* What a host reads for the k-th usage of item i.
Read(i, k) ==
    Number(message.payload,
           ItemStarts(Descriptor)[i] + (k - 1) * Descriptor[i].size,
           Descriptor[i].size)

\* Values of the hat inside its logical range are directions, 0 being up.
HatPoints ==
    \E i \in 1..Len(Descriptor) :
        Descriptor[i].usages = <<"Hat">> /\ Read(i, 1) \in 0..7
-----------------------------------------------------------------------------
(* The programs                                                            *)

\* pin -> struct member: pin_mappings, and the index into button_gpios.
pin_mappings ==
    { <<14, "b0">>, <<13, "b1">>, <<12, "b2">>, <<11, "b3">>, <<10, "b4">>,
      <<3, "b17">>, <<4, "b18">>, <<1, "b8">>, <<2, "b9">> }
button_gpios ==
    LET pins == <<1, 2, 3, 4, 10, 11, 12, 13, 14>>
    IN  {<<pins[i], ButtonBits[i]>> : i \in 1..9}

Mapping == IF firmware = "classic" THEN pin_mappings ELSE button_gpios
Pins    == {m[1] : m \in Mapping}

\* Both programs zero their report and then never touch axes or hat.
Init ==
    /\ firmware \in {"classic", "ble"}
    /\ held = {}
    /\ report = [n \in Names |-> 0]
    /\ message = [length |-> 0, payload |-> {}]

\* MUTANT: the mask of the edge is stored, not what it says.
ButtonChanges_Mask(m) ==
    /\ held' = IF m[1] \in held THEN held \ {m[1]} ELSE held \cup {m[1]}
    /\ report' = [report EXCEPT ![m[2]] = IF m[1] \in held' THEN 4 ELSE 8]
    /\ message' = Transmit(report')
    /\ UNCHANGED firmware

\* A button changes: its member is set or cleared, and the report is sent.
ButtonChanges(m) ==
    /\ held' = IF m[1] \in held THEN held \ {m[1]} ELSE held \cup {m[1]}
    /\ report' = [report EXCEPT ![m[2]] = IF m[1] \in held' THEN 1 ELSE 0]
    /\ message' = Transmit(report')
    /\ UNCHANGED firmware

Next == \E m \in Mapping : ButtonChanges(m)
Spec == Init /\ [][Next]_vars
-----------------------------------------------------------------------------
(* Properties                                                              *)

TypeOK ==
    /\ held \subseteq Pins
    /\ \A n \in Names : report[n] \in {0, 1}
    /\ message.payload \subseteq 0..(8 * Sizeof(Struct) - 1)

\* The control behind each pin: the nets of the motherboard
\* (schematics/motherboard/motherboard.kicad_pcb:2870-3262).
Board ==
    { <<1, "START">>, <<2, "SELECT">>, <<3, "STRUM_UP">>, <<4, "STRUM_DOWN">>,
      <<10, "ORANGE">>, <<11, "BLUE">>, <<12, "YELLOW">>, <<13, "RED">>,
      <<14, "GREEN">> }

\* The buttons B0, B1... that each control is to show as; SELECT is the
\* document's star power (world-tour-guitar-HID-descriptor.md:7-24).
Documented ==
    { <<"GREEN", 0>>, <<"RED", 1>>, <<"YELLOW", 2>>, <<"BLUE", 3>>,
      <<"ORANGE", 4>>, <<"STRUM_UP", 14>>, <<"STRUM_UP", 17>>,
      <<"STRUM_DOWN", 15>>, <<"STRUM_DOWN", 18>>, <<"SELECT", 8>>,
      <<"START", 9>> }

\* The usage by which a host knows a button of that number: hid_stuff.h names
\* each struct member by its number and lists the usages in the same order
\* (hid_stuff.h:30-34, 157-169); Button 1 of the BLE descriptor is B0.
Numbering ==
    IF firmware = "classic"
    THEN { <<"A", 0>>, <<"B", 1>>, <<"Y", 2>>, <<"X", 3>>, <<"TL", 4>>,
           <<"TR", 5>>, <<"TL2", 6>>, <<"TR2", 7>>, <<"SELECT", 8>>,
           <<"START", 9>>, <<"GUIDE", 16>>, <<"C", 17>>, <<"Z", 18>> }
    ELSE { <<"Button1", 0>>, <<"Button2", 1>>, <<"Button3", 2>>, <<"Button4", 3>>,
           <<"Button5", 4>>, <<"Button6", 5>>, <<"Button7", 6>>, <<"Button8", 7>>,
           <<"Button9", 8>> }

\* What the firmwares make of the document: the classic one follows it but for
\* start and select, which it swaps; the BLE one numbers the controls by their
\* pins.
Sent ==
    IF firmware = "classic"
    THEN {d \in Documented : d[1] \notin {"START", "SELECT"}}
            \cup {<<"START", 8>>, <<"SELECT", 9>>}
    ELSE { <<"START", 0>>, <<"SELECT", 1>>, <<"STRUM_UP", 2>>,
           <<"STRUM_DOWN", 3>>, <<"ORANGE", 4>>, <<"BLUE", 5>>, <<"YELLOW", 6>>,
           <<"RED", 7>>, <<"GREEN", 8>> }

\* The control behind pin p is sent under usage u.
Moves(p, u) ==
    \E c \in Board, s \in Sent :
        c[1] = p /\ s[1] = c[2] /\ <<u, s[2]>> \in Numbering

\* Whatever is held, the host reads each usage as one exactly while a control
\* is held that is sent under it, and nothing else moves: the frets of the
\* classic guitar as the document says, the strum bar as far as the descriptor
\* goes, the rest as Sent lists it. Descriptor, struct layout, padding and pin
\* table must agree for that (hid_stuff.h:30-176, main.cpp:164-174; hid.hpp,
\* hid.cpp, buttons.cpp:21-31).
HostReadsWhatIsHeld ==
    \A i \in 1..Len(Descriptor) : \A k \in 1..Len(Descriptor[i].usages) :
        LET u == Descriptor[i].usages[k] IN
        u # "Hat" => Read(i, k) = IF \E p \in held : Moves(p, u) THEN 1 ELSE 0


\* A hat nobody pushes points nowhere, as HATSWITCH_NONE at rest says
\* (main.cpp:96-98, hid_stuff.h:143).
HatAtRest == message.length > 0 => ~HatPoints

\* A message carries as many bytes as the descriptor describes, as in the
\* prototype, which sized it by the struct it copied
\* (tests/gamepad_hid_test/src/main.cpp:116-121).
LengthAsDescribed ==
    message.length > 0 => 8 * message.length = DescribedBits
=============================================================================
