----------------------------- MODULE MCConvert ------------------------------
(* Convert over what the sensors measure, in every unit.                    *)
EXTENDS Convert

\* -55 C
Coldest == -14080

EveryUnit == {"", "m", "u", "n"} \X {"C", "Celsius", "K", "Kelvin", "F", "Fahrenheit"}

\* What usense_device_new() sets, and calibrations up and down.
SomeCalibrations == {<<0, 1000>>, <<-50, 1003>>, <<250, 998>>}
=============================================================================
