---------------------------- MODULE CertLifetime ----------------------------
(***************************************************************************)
(* The arithmetic of AutoTlsBackend.getCertLife and of the restart time     *)
(* (internal/csi/backend/autotls.go).  Durations are integers in ticks; 0   *)
(* in the volume context means "annotation not set".  A jitter factor is a  *)
(* percentage, and the random draw is a choice over every duration it can   *)
(* produce.                                                                 *)
(***************************************************************************)
EXTENDS Integers

CONSTANTS
  MaxCertLifetime,     \* SecretClass maxCertificateLifeTime
  Lifetimes,           \* values of the lifetime annotation
  RestartBuffers,      \* values of the restart-buffer annotation
  JitterPercents,      \* values of the jitter-factor annotation, in percent
  DefaultLifetime,     \* DefaultCertLifeTime
  DefaultBuffer,       \* DefaultCertBuffer
  DefaultJitterPercent \* DefaultCertJitter

ASSUME LifetimeAssumption ==
  /\ MaxCertLifetime \in Int
  /\ DefaultLifetime \in Nat \ {0}
  /\ DefaultBuffer \in Nat \ {0}
  /\ DefaultJitterPercent \in 1..99
  /\ Lifetimes \subseteq Int
  /\ RestartBuffers \subseteq Int
  /\ JitterPercents \subseteq Int

CappedLifetime(life) ==
  LET asked == IF life = 0 THEN DefaultLifetime ELSE life
  IN  IF asked > MaxCertLifetime THEN MaxCertLifetime ELSE asked

Buffer(buffer) == IF buffer = 0 THEN DefaultBuffer ELSE buffer

JitterFactor(percent) ==
  IF 0 < percent /\ percent < 100 THEN percent ELSE DefaultJitterPercent

\* time.Duration(float64(certLife) * randomJitterFactor) truncates towards 0.
JitterLives(life, percent) ==
  LET most == life * JitterFactor(percent)
  IN  IF life >= 0 THEN 0 .. (most \div 100) ELSE (-((-most) \div 100)) .. 0

\* Every lifetime getCertLife can return for these annotations (before the
\* check that the pod would not have to restart at once).
CertLives(life, percent) ==
  {CappedLifetime(life) - jitter : jitter \in JitterLives(CappedLifetime(life), percent)}

\* Slip: a buffer is taken to be shorter than any lifetime.
NeverTooShort(certLife, buffer) == FALSE

TooShort(certLife, buffer) == certLife - Buffer(buffer) < 0
=============================================================================
