----------------------------- MODULE SoilSensor -----------------------------
(***************************************************************************)
(* soil_read of fw/main.c: from a 12 bit sample of the moisture sensor,    *)
(* which is the higher the drier the soil, to the uint8_t of a report.     *)
(***************************************************************************)
EXTENDS Integers

Sample == 0 .. 4095

Magnitude(i) == IF i < 0 THEN -i ELSE i

(* Division in C rounds towards zero.                                      *)
Truncated(i, j) ==
    LET quotient == Magnitude(i) \div Magnitude(j)
    IN  IF (i < 0) = (j < 0) THEN quotient ELSE -quotient

(* moisture_percentage.                                                    *)
Percentage(moisture, dry, wet) == Truncated((moisture - dry) * 100, wet - dry)

(* Mutant: the range is subtracted the wrong way round.                    *)
soil_read_inverted(moisture, dry, wet) ==
    Truncated((moisture - dry) * 100, dry - wet) % 256

(* The result is cut to eight bits.                                        *)
soil_read(moisture, dry, wet) == Percentage(moisture, dry, wet) % 256

(* A division by zero is undefined and yields anything.                    *)
Readings(moisture, dry, wet) ==
    IF dry = wet THEN 0 .. 255 ELSE {soil_read(moisture, dry, wet)}

=============================================================================
