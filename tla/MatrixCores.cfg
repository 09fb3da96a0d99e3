\* Two switches, a queue of one event; cores of any speed, and timely ones, which
\* get an event every five ticks from each switch and let one tick pass for it.
CONSTANTS
  N = 2
  queue_size = 1
  TIMEOUT = 4
  MAX_EVENTS = 4
  TIMELY_EVENTS = 8
  LATE = 1
  FINGERS = 2
SPECIFICATION CoresSpec
INVARIANTS TypeOK OneAtATime Conserved InOrder NoneLost
PROPERTIES Settles Drains
