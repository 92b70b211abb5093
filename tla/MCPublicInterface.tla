--------------------------- MODULE MCPublicInterface ---------------------------
(***************************************************************************)
(* PublicInterface for TLC.                                                *)
(***************************************************************************)
EXTENDS PublicInterface

MCCasefold == ("AA:01" :> "aa:01") @@ ("aa:01" :> "aa:01") @@ ("AA:02" :> "aa:02")

Document(list, mode) == [devices |-> list, home_assistant |-> mode]

AC300At(a, interval) == Entry(a, "AC300", TRUE, interval)
Plain(a, model)      == Entry(a, model, FALSE, 10)

\* The limit enabled where it may be and where it may not; an interval that is
\* too short; two stations, one station written in two ways, and one address
\* twice.  Options leave it to the discovery which model a station is.
MCDocuments ==
  {Document(<<Plain("AA:01", m)>>, "normal") : m \in {"AC500", "AC180"}}
  \cup {Document(<<AC300At("AA:01", i)>>, "normal") : i \in {9, 10, 30}}
  \cup {Document(d, "none") :
          d \in {<<>>,
                 <<Entry("AA:01", "AC500", TRUE, 10)>>,
                 <<AC300At("AA:01", 30), AC300At("aa:01", 10)>>,
                 <<Plain("AA:02", "EB3A"), Plain("AA:02", "EB3A")>>}}
  \cup {Document(<<Plain("AA:01", "AC60"), Plain("AA:02", "EB3A")>>, "normal")}

MCCommandLines == {[addresses |-> {"AA:01"}, home_assistant |-> "advanced"]}

\* For each control all it accepts, and some that it does not; for what is no
\* control, what would be accepted of one.
MCPayloads ==
  [f \in DOMAIN NORMAL_DEVICE_FIELDS \cup {Limit, "pack_num"} |->
     LET config == IF f \in DOMAIN NORMAL_DEVICE_FIELDS THEN NORMAL_DEVICE_FIELDS[f]
                                                        ELSE GRID_CHARGING_CURRENT_FIELD
     IN IF ~config.setter THEN {Name("ON")}
        ELSE IF config.type # "NUMERIC"
          THEN {Name(w) : w \in config.words \cup {"on"}} \cup {Integer(1)}
        ELSE {Name("5 A"), LongInteger} \cup {Integer(i) : i \in {-1, 0, 1, 10, 11, 100, 101}}]
===============================================================================
