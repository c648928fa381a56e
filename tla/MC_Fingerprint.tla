---------------------------- MODULE MC_Fingerprint ----------------------------
(* One session's Headers map (empty or nil) written under Accept, accept   *)
(* and Sec-Fetch-User, the Chrome and Firefox profiles applied in any      *)
(* order, and requests built from the map at any point.                    *)
EXTENDS Fingerprint

FingerprintSpec == FingerprintInit /\ [][FingerprintNext]_fpVars

====
