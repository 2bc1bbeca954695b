SPECIFICATION Spec
CONSTANTS
  ByteMod = 8
  MaxPayload = 2
  Sof = 5
  Crc <- MCCrc
  Payloads <- MCPayloads
  MaxData = 2
  MaxFaults = 2
PROPERTY Resynchronises
