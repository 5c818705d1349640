------------------------------ MODULE MCTelemetry ------------------------------
(* Small instances of Telemetry for TLC. *)
EXTENDS Telemetry, TLC, SequencesExt

\* A checksum that depends on every byte and its place.
MCCrc(s) == FoldLeft(LAMBDA crc, b : (3 * crc + b + 1) % 97, 0, s)
==============================================================================
