CONSTANTS
  MILLIS = 16
  BLINK_INTERVAL = 3
  BLINK_FALLBACK = 4
  HEARTBEAT = 6
  USB_DISCONNECT_PULSE_MS = 2
  MaxPass = 2
  HSE_STARTUP_TIMEOUT = 8
SPECIFICATION FirmwareSpec
INVARIANTS
  HeartbeatRecent
  LedFollowsTime
  PinsAreSafe
  ClockIsLegal
  UsbHasItsClock
PROPERTIES
  HeartbeatOnTime
  ClockIsKnown
