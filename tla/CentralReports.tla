--------------------------- MODULE CentralReports ---------------------------
(* Reports and a banner with the bytes they really have. *)
EXTENDS Naturals

Epoch == 1757454383             \* 0x68C0A02F: its bytes are 47, 160, 192, 104

\* tags as in CentralLink: RPT_KEEPALIVE, RPT_EVENT, RSP_TIME
Alive(ts, temp, light, mode) ==
    [tag |-> 1, ts |-> ts, temp |-> temp, hum |-> 45, light |-> light, batt |-> 3172, mode |-> mode]
Detected == [tag |-> 2, ts |-> Epoch + 2, src |-> 1, from |-> 0, to |-> 0, detected |-> 1]
ToError  == [tag |-> 2, ts |-> Epoch + 3, src |-> 0, from |-> 1, to |-> 2, detected |-> 0]
Clock    == [tag |-> 4, ts |-> Epoch + 4]

\* A cold, dark place at the wrong time: the readings hold the tags 2 and 3, and
\* the low byte of the time, 200, is no length of a report.
ColdDark == Alive(Epoch + 153, 2, 3, 0)

AllReports == {Alive(Epoch, 21, 600, 1), ColdDark, Detected, ToError, Clock}

\* "\r\n=== LNC console (FreeRTOS) ===  (type 'help')\r\n"
Banner ==
    <<13, 10, 61, 61, 61, 32, 76, 78, 67, 32, 99, 111, 110, 115, 111, 108, 101, 32, 40, 70, 114, 101, 101, 82, 84, 79, 83, 41, 32, 61, 61, 61, 32, 32, 40, 116, 121, 112, 101, 32, 39, 104, 101, 108, 112, 39, 41, 13, 10>>
=============================================================================
