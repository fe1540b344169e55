------------------------------- MODULE MCTask -------------------------------
(***************************************************************************)
(* Small instances of TaskService for TLC: what clients create and update. *)
(* A start of 2 becomes overdue within every run; a start of Far does not. *)
(***************************************************************************)
EXTENDS TaskProperties

NewRow(rule, conf, mru) ==
  [db |-> "live", status |-> "scheduled", parent |-> NoTask, rule |-> rule,
   conf |-> conf, muted |-> FALSE, mru |-> mru, start |-> 2]

Series   == NewRow(TRUE, TRUE, TRUE)
NoChat   == NewRow(TRUE, TRUE, FALSE)
OneTime  == NewRow(FALSE, TRUE, TRUE)
Cyclic   == NewRow(TRUE, FALSE, TRUE)

OnlySeries    == {Series}
OnlyCyclic    == {Cyclic}
SeriesNoChat  == {Series, NoChat}
SeriesOneTime == {Series, OneTime}
AllKinds      == {Series, OneTime, Cyclic}

Far == 9

Same == [status |-> "keep", start |-> -1, rule |-> "keep", conf |-> "keep",
         muted |-> "keep", meta |-> FALSE]

Upd(field, value) == [Same EXCEPT ![field] = value]

Title  == Upd("meta", TRUE)
Mute   == Upd("muted", "on")
Unmute == Upd("muted", "off")

NoPuts       == {}
OnlyTitle    == {Title}
TitleMute    == {Title, Mute}
TitleUnmute  == {Title, Mute, Unmute}
ConfToggles  == {Title, Upd("start", Far), Upd("conf", "on"), Upd("conf", "off")}
Dismantle    == {Title, Upd("conf", "on"), Upd("conf", "off"),
                 Upd("rule", "clear"), Upd("status", "deleted")}
OnlyConfOff  == {Upd("conf", "off")}
=============================================================================
