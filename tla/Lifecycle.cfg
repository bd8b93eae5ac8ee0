\* A class and its subclass, decorated or not, a with block and a fixture.
SPECIFICATION Spec
CONSTANTS
  w = w  x = x  test = test  helper = helper  mock = mock
  Original = Original
  GivenAdapter = GivenAdapter
  None = None
  Methods = {test, helper}
  Tests = {test}
  Keywords = {mock}
  Decorators <- MCDecorators
  Instances = {w}
  Fixtures = {x}
  MaxCopies = 2
  MaxDepth = 3
  MaxLayers = 2
INVARIANTS TypeOK GivenMockAnswers  NothingLeft
PROPERTIES FreshMock ImplementsMockStack
