------------------------------- MODULE Sensor -------------------------------
(***************************************************************************)
(* The sensor thread (zephyr-wallet/sensor_service.c, priority 7) and the   *)
(* three readers of its unguarded variables: get_sensor_data() in the       *)
(* upload thread (priority 5) and in the LwM2M thread (lwm2m_client.c,      *)
(* priority 7), and "sensor get" in the shell (lowest).  One processor, no  *)
(* time slices: the upload thread may come in anywhere, the LwM2M thread    *)
(* and the shell while the sensor thread is blocked.                        *)
(***************************************************************************)
EXTENDS Integers

CONSTANT MaxSamples   \* bound: samples fetched

ASSUME SensorAssumption == MaxSamples \in Nat

VARIABLES
  last_err,     \* _last_err < 0
  temp, humidity, \* the numbers of the samples _temp and _humidity are of
  fetched,      \* number of the last sample the driver holds; 0 before any
  sensor,       \* where temperature_main() is
  get,          \* where sensor_get() is in the shell
  got           \* what each reader got, and the sample there was to get

sensorVars == <<last_err, temp, humidity, fetched, sensor, get, got>>

Readers == {"upload", "lwm2m", "shell"}
Reading(e, t, h, l) == [err |-> e, temp |-> t, humidity |-> h, latest |-> l]
Nothing == Reading(FALSE, 0, 0, 0)

SensorTypeOK ==
  /\ last_err \in BOOLEAN
  /\ {temp, humidity, fetched} \subseteq 0 .. MaxSamples
  /\ sensor \in {"fetch", "temp", "humidity", "sleep"}
  /\ get \in {"idle", "temp", "humidity"}
  /\ got \in [Readers -> [err : BOOLEAN, temp : 0 .. MaxSamples,
                          humidity : 0 .. MaxSamples, latest : 0 .. MaxSamples]]

SensorInit ==
  /\ last_err = FALSE /\ temp = 0 /\ humidity = 0 /\ fetched = 0
  /\ sensor = "fetch" /\ get = "idle"
  /\ got = [r \in Readers |-> Nothing]

-----------------------------------------------------------------------------
\* sensor_sample_fetch() succeeds or fails.
Fetch ==
  /\ sensor = "fetch"
  /\ \/ /\ fetched < MaxSamples
        /\ fetched' = fetched + 1 /\ last_err' = FALSE /\ sensor' = "temp"
     \/ fetched' = fetched /\ last_err' = TRUE /\ sensor' = "sleep"
  /\ UNCHANGED <<temp, humidity, get, got>>

\* Faulty: leaves after the first channel
GetTempOnly ==
  /\ sensor = "temp" /\ sensor' = "sleep"
  /\ temp' = fetched
  /\ UNCHANGED <<last_err, humidity, fetched, get, got>>

GetTemp ==
  /\ sensor = "temp" /\ sensor' = "humidity"
  /\ temp' = fetched
  /\ UNCHANGED <<last_err, humidity, fetched, get, got>>

GetHumidity ==
  /\ sensor = "humidity" /\ sensor' = "sleep"
  /\ humidity' = fetched
  /\ UNCHANGED <<last_err, temp, fetched, get, got>>

Wake ==
  /\ sensor = "sleep" /\ sensor' = "fetch"
  /\ UNCHANGED <<last_err, temp, humidity, fetched, get, got>>

SensorBlocked == sensor \in {"fetch", "sleep"}

\* get_sensor_data(), in one go: nothing of lower or equal priority comes in.
ReadAll(r) ==
  /\ r = "lwm2m" => SensorBlocked
  /\ got' = [got EXCEPT ![r] = Reading(last_err, temp, humidity, fetched)]
  /\ UNCHANGED <<last_err, temp, humidity, fetched, sensor, get>>

\* sensor_get(): the sensor thread may come in between any two of its reads.
ShellErr ==
  /\ get = "idle" /\ SensorBlocked
  /\ get' = IF last_err THEN "idle" ELSE "temp"
  /\ got' = [got EXCEPT !["shell"] = Reading(last_err, 0, 0, 0)]
  /\ UNCHANGED <<last_err, temp, humidity, fetched, sensor>>

ShellTemp ==
  /\ get = "temp" /\ SensorBlocked
  /\ get' = "humidity"
  /\ got' = [got EXCEPT !["shell"] = Reading(@.err, temp, 0, fetched)]
  /\ UNCHANGED <<last_err, temp, humidity, fetched, sensor>>

ShellHumidity ==
  /\ get = "humidity" /\ SensorBlocked
  /\ get' = "idle"
  /\ got' = [got EXCEPT !["shell"] = Reading(@.err, @.temp, humidity, @.latest)]
  /\ UNCHANGED <<last_err, temp, humidity, fetched, sensor>>

SensorNext ==
  \/ Fetch \/ GetTemp \/ GetHumidity \/ Wake
  \/ \E r \in {"upload", "lwm2m"} : ReadAll(r)
  \/ ShellErr \/ ShellTemp \/ ShellHumidity

SensorSpec == SensorInit /\ [][SensorNext]_sensorVars

-----------------------------------------------------------------------------
(* Properties. *)

\* Half a sample at most: what the upload thread sends is of the last sample
\* or of the one before, and the humidity is never the newer one -- although
\* the thread comes in between the status, the temperature and the humidity.
\* In the shell the halves may be any number of samples apart, but then it is
\* the temperature that is the older one.
HalfASampleLate ==
  LET u == got["upload"] s == got["shell"]
  IN  /\ u.temp \in {u.latest, u.latest - 1} /\ u.humidity \in {u.temp, u.temp - 1}
      /\ u.humidity >= u.latest - 1
      /\ get = "idle" /\ ~s.err => s.temp = s.latest /\ s.humidity >= s.temp

\* At equal priority the pair is of one sample, the last one.
WholeAtEqualPriority ==
  LET l == got["lwm2m"] IN l.temp = l.latest /\ l.humidity = l.latest

\* No reader gets a value older than that, whatever its priority.
PairsFresh == HalfASampleLate /\ WholeAtEqualPriority

\* The inductive invariant behind it: how far the halves of the pair are
\* from the driver's sample at each point of the thread's round.
PairOf ==
  /\ sensor \in {"fetch", "sleep"} => temp = fetched /\ humidity = fetched
  /\ sensor = "temp" => temp = fetched - 1 /\ humidity = fetched - 1
  /\ sensor = "humidity" => temp = fetched /\ humidity = fetched - 1

SensorIInv ==
  /\ SensorTypeOK
  /\ PairOf
  /\ get = "humidity" =>
       LET s == got["shell"] IN s.temp = s.latest /\ s.temp <= humidity
  /\ HalfASampleLate /\ WholeAtEqualPriority
=============================================================================
