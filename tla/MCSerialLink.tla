---------------------------- MODULE MCSerialLink ----------------------------
(* A few commands with the bytes they really have. *)
EXTENDS SerialLink

\* SET_RTC 0x68C0A22E, SET_TEMP_NORMAL -5 .. 30, GET_TIME, and a range query
\* from 0 to the menu's default, 4000000000; numbers are little-endian
Sync    == Frame(40, <<46, 162, 192, 104>>)
Temp    == Frame(32, <<251, 255, 30, 0>>)
Time    == Frame(41, <<>>)
DataAll == Frame(42, <<0, 0, 0, 0, 0, 40, 107, 238>>)

Menu == {Temp, Time, DataAll}

=============================================================================
