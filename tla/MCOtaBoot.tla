------------------------------ MODULE MCOtaBoot ------------------------------
(***************************************************************************)
(* Instances of OtaBoot for TLC: quad-words of two bytes, two quad-words in *)
(* a sector, one sector for the bootloader, two for the application and   *)
(* one for the configuration.                                             *)
(***************************************************************************)
EXTENDS OtaBoot

\* "sp" and "pc" are first and second words that pass the vector table check.
MCByte   == {"sp", "pc", "x", "ff", "junk"}
MCGoodSp == {"sp"}
MCGoodPc == {"pc"}

\* A checksum that tells any two payloads of the instance apart.
MCCrc(s) == <<"crc", s>>

Image(hdrOk, type, body, crcBody) ==
    [hdrOk |-> hdrOk, imgType |-> type, body |-> body, crc |-> MCCrc(crcBody)]

Good(body) == Image(TRUE, "app", body, body)

Full  == <<"sp", "pc", "x", "x", "pc", "x", "x", "sp">>  \* fills the region
Short == <<"sp", "pc", "pc">>       \* its last quad-word is padded
Large == Append(Full, "x")          \* one byte too many

MCImages ==
    {Good(Full), Good(Short),
     Good(<<"x", "x">>),                          \* no vector table
     Good(<<>>), Good(Large),                     \* sizes out of range
     Image(FALSE, "app", Full, Full),             \* damaged header
     Image(TRUE, "app", Short, Full),             \* damaged payload
     Image(TRUE, "boot", Full, Full)}             \* not an application
===============================================================================
