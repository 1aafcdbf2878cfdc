\* The instances of the components are in MCProgress.
SPECIFICATION LiveSpec
CONSTANTS
  Garbage = Garbage
PROPERTIES
  ActionsEnd
  StreamsEnd
